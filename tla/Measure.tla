------------------------------ MODULE Measure ------------------------------
(***************************************************************************)
(* What a run measures: each generator sends at its share of the rate      *)
(* (bin/src/config.rs, and the governor crate), keeps the figures of its   *)
(* replies (StatsTracker in bin/src/stats.rs), and reports them every      *)
(* second; the collector adds N reports to the figures of a batch          *)
(* (StatsInterval) and the batch to the totals (StatsTotals), with the     *)
(* moving averages of bin/src/util.rs.                                     *)
(*                                                                         *)
(* The channel between them is module Runner's.  A report is two steps:    *)
(* the tracker loads its counters, and later stores zero to them and hands *)
(* the report over; module Generator has the four accesses apart.          *)
(* Latencies are whole microseconds, the grain of the figures, and times   *)
(* whole seconds; the conversion to f32 is left out, and with it the       *)
(* average latency.                                                        *)
(*                                                                         *)
(* A definition named D_Word, just before D, is D as a plausible bug would *)
(* have it: it replaces D to see that a property depends on it.            *)
(***************************************************************************)
EXTENDS Integers, FiniteSets, FiniteSetsExt, Functions

CONSTANTS
  Gens,        \* the generators of the run
  Qps,         \* --qps, the limit of the whole run
  Replies,     \* what a reply may look like
  Workers,     \* the numbers of worker threads the runtime may have
  MaxSeconds,  \* bound: seconds of the run
  MaxSends     \* bound: queries of the run

ASSUME GensAssumption == IsFiniteSet(Gens) /\ Gens # {}
ASSUME QpsAssumption == Qps \in Nat /\ Qps >= Cardinality(Gens)
ASSUME RepliesAssumption ==
  /\ IsFiniteSet(Replies)
  /\ Replies \subseteq [latency : Nat \ {0}, size : Nat \ {0}, rcode : 0..15]
ASSUME WorkersAssumption == Workers \subseteq Nat \ {0}
ASSUME BoundsAssumption == MaxSeconds \in Nat /\ MaxSends \in Nat

N == Cardinality(Gens)
Rcodes == {r.rcode : r \in Replies}

VARIABLES
  workers,   \* threads of the runtime, chosen once
  now,       \* whole seconds since the start
  cells,     \* queries the limiter of a generator lets pass at once
  refilled,  \* cells it got back in the current second
  timer,     \* the report of a generator: "idle", "due", or "loading"
  since,     \* when it made the last one
  waiting,   \* queries of a generator in flight
  tracker,   \* its StatsTracker, with the counters of its AtomicStore
  report,    \* the StatsInterval it is making
  count,     \* reports in the current batch
  summary,   \* StatsRunner.summary, the figures of the current batch
  totals     \* StatsRunner.totals

VARIABLES    \* history; replies are counted, whatever their order
  sends,     \* queries each generator has sent
  untold,    \* the replies in the tracker of each generator
  carried,   \* the replies in the report it is making
  batch,     \* the replies reported in the current batch
  told,      \* the replies in the totals
  logged     \* figures and replies of the batch that was logged last

limiterVars == <<now, cells, refilled>>
reportVars == <<timer, since, report, carried>>
genVars == <<waiting, tracker, sends, untold>>
totalVars == <<count, summary, totals, batch, told, logged>>
vars == <<workers, limiterVars, reportVars, genVars, totalVars>>

\* A generator that makes a report is in the middle of a poll, and keeps its
\* thread: another task takes a step if a thread is left for it.
Loading == {g \in Gens : timer[g] = "loading"}
ThreadFree == Cardinality(Loading) < workers

Smaller(a, b) == IF a < b THEN a ELSE b
Larger(a, b) == IF a > b THEN a ELSE b

\* The latency that stands for none: Duration::from_micros(u64::MAX).
None == 2 ^ 30

-----------------------------------------------------------------------------
(* The limiter: Quota::per_second(n) holds n cells, all of them at the start, *)
(* and gets one back every 1/n seconds.                                       *)

RatePerGen_Whole == Qps
RatePerGen == Qps \div N

Refill(g) ==
  /\ cells[g] < RatePerGen
  /\ refilled[g] < RatePerGen
  /\ cells' = [cells EXCEPT ![g] = @ + 1]
  /\ refilled' = [refilled EXCEPT ![g] = @ + 1]
  /\ UNCHANGED <<workers, now, reportVars, genVars, totalVars>>

\* What a generator may send at once when a second has passed: the cells that
\* did not come back in it come back now.
CellsAfter_Uncapped(g) == cells[g] + RatePerGen - refilled[g]
CellsAfter(g) == Smaller(RatePerGen, cells[g] + RatePerGen - refilled[g])

\* A second has passed, and every timer that runs has fired.
Tick ==
  /\ now < MaxSeconds
  /\ now' = now + 1
  /\ cells' = [g \in Gens |-> CellsAfter(g)]
  /\ refilled' = [g \in Gens |-> 0]
  /\ timer' = [g \in Gens |-> IF g \in Loading THEN timer[g] ELSE "due"]
  /\ UNCHANGED <<workers, since, report, carried, genVars, totalVars>>

-----------------------------------------------------------------------------
(* The figures of a generator *)

NoReplies == [r \in Replies |-> 0]
Joined(a, b) == [r \in Replies |-> a[r] + b[r]]

NoRcodes == [c \in Rcodes |-> 0]

NoFigures == [sent |-> 0, ok |-> 0, timeouts |-> 0, min |-> None, max |-> 0,
              latency |-> 0, bytes |-> 0, elapsed |-> 0, rcodes |-> NoRcodes]

Send(g) ==
  /\ ThreadFree
  /\ SumFunction(sends) < MaxSends
  /\ cells[g] > 0
  /\ cells' = [cells EXCEPT ![g] = @ - 1]
  /\ waiting' = [waiting EXCEPT ![g] = @ + 1]
  /\ tracker' = [tracker EXCEPT ![g].sent = @ + 1]
  /\ sends' = [sends EXCEPT ![g] = @ + 1]
  /\ UNCHANGED <<workers, now, refilled, reportVars, untold, totalVars>>

\* StatsTracker::update.
Updated(f, r) ==
  [sent |-> f.sent, ok |-> f.ok + 1, timeouts |-> f.timeouts,
   min |-> Smaller(f.min, r.latency), max |-> Larger(f.max, r.latency),
   latency |-> f.latency + r.latency, bytes |-> f.bytes + r.size,
   elapsed |-> f.elapsed, rcodes |-> [f.rcodes EXCEPT ![r.rcode] = @ + 1]]

Recv(g, r) ==
  /\ ThreadFree /\ g \notin Loading
  /\ waiting[g] > 0
  /\ waiting' = [waiting EXCEPT ![g] = @ - 1]
  /\ tracker' = [tracker EXCEPT ![g] = Updated(@, r)]
  /\ untold' = [untold EXCEPT ![g][r] = @ + 1]
  /\ UNCHANGED <<workers, limiterVars, reportVars, sends, totalVars>>

Expire(g) ==
  /\ ThreadFree
  /\ waiting[g] > 0
  /\ waiting' = [waiting EXCEPT ![g] = @ - 1]
  /\ tracker' = [tracker EXCEPT ![g].timeouts = @ + 1]
  /\ UNCHANGED <<workers, limiterVars, reportVars, sends, untold, totalVars>>

\* What StatsTracker::interval leaves to the tracker until its counters are
\* reset: nothing but these.
CountersOnly(f) == [NoFigures EXCEPT !.sent = f.sent, !.timeouts = f.timeouts]

\* The timer fires: StatsTracker::interval loads the counters, and moves the
\* figures of the replies to the report.
Load(g) ==
  /\ ThreadFree
  /\ timer[g] = "due"
  /\ timer' = [timer EXCEPT ![g] = "loading"]
  /\ since' = [since EXCEPT ![g] = now]
  /\ report' = [report EXCEPT ![g] = [tracker[g] EXCEPT !.elapsed = now - since[g]]]
  /\ carried' = [carried EXCEPT ![g] = untold[g]]
  /\ tracker' = [tracker EXCEPT ![g] = CountersOnly(@)]
  /\ untold' = [untold EXCEPT ![g] = NoReplies]
  /\ UNCHANGED <<workers, limiterVars, waiting, sends, totalVars>>

-----------------------------------------------------------------------------
(* The collector *)

AddedRcodes(a, b) == [c \in Rcodes |-> a[c] + b[c]]

\* StatsInterval::aggregate.
LeastOf_Mine(mine, theirs) == mine
LeastOf(mine, theirs) == Smaller(mine, theirs)

Aggregated(sum, f) ==
  [sent |-> sum.sent + f.sent, ok |-> sum.ok + f.ok,
   timeouts |-> sum.timeouts + f.timeouts,
   min |-> LeastOf(sum.min, f.min), max |-> Larger(sum.max, f.max),
   latency |-> sum.latency + f.latency, bytes |-> sum.bytes + f.bytes,
   elapsed |-> sum.elapsed + f.elapsed,
   rcodes |-> AddedRcodes(sum.rcodes, f.rcodes)]

\* StatsInterval::reset and the mem::take of its rcodes, at the end of log: the
\* elapsed time is not reset, and is that of every report so far.
AfterLog_RcodesKept(sum) ==
  [NoFigures EXCEPT !.elapsed = sum.elapsed, !.rcodes = sum.rcodes]
AfterLog(sum) == [NoFigures EXCEPT !.elapsed = sum.elapsed]

\* MovingAvg<usize>::next.
NextAvg_OffByOne(avg, x) ==
  LET k == avg.interval + 1 IN
  [val |-> (avg.val * k + x) \div (k + 1), interval |-> k]
NextAvg(avg, x) ==
  LET k == avg.interval + 1 IN
  [val |-> (avg.val * (k - 1) + x) \div k, interval |-> k]

\* StatsInterval::min_latency, in which no reply is a latency of zero, and the
\* least latency of the totals.
MinShown(f) == IF f.min = None THEN 0 ELSE f.min
MinAfter(t, f) == IF MinShown(f) # 0 THEN Smaller(MinShown(f), t.min) ELSE t.min

\* StatsTotals::update, but for the elapsed time: it adds up what is a sum over
\* the run already, and nothing reads it.
TotalsAfter(t, f) ==
  [sent |-> t.sent + f.sent, ok |-> t.ok + f.ok,
   timeouts |-> t.timeouts + f.timeouts,
   min |-> MinAfter(t, f),
   max |-> Larger(t.max, f.max),
   rcodes |-> AddedRcodes(t.rcodes, f.rcodes),
   avg |-> IF f.bytes # 0 /\ f.ok # 0 THEN NextAvg(t.avg, f.bytes \div f.ok)
                                      ELSE t.avg]

\* AtomicStore::reset, in a tracker that has nothing but its counters.
Reset_SentKept(f) == [f EXCEPT !.timeouts = 0]
Reset(f) == [f EXCEPT !.sent = 0, !.timeouts = 0]

\* The counters are reset, with what they gained since the load, and the report
\* goes to the collector.
Report(g) ==
  LET sum == Aggregated(summary, report[g])
      replies == Joined(batch, carried[g])
  IN
  /\ timer[g] = "loading"
  /\ timer' = [timer EXCEPT ![g] = "idle"]
  /\ tracker' = [tracker EXCEPT ![g] = Reset(@)]
  /\ report' = [report EXCEPT ![g] = NoFigures]
  /\ carried' = [carried EXCEPT ![g] = NoReplies]
  /\ IF count + 1 = N
       THEN /\ count' = 0
            /\ totals' = TotalsAfter(totals, sum)
            /\ summary' = AfterLog(sum)
            /\ batch' = NoReplies
            /\ told' = Joined(told, replies)
            /\ logged' = [figures |-> sum, replies |-> replies]
       ELSE /\ count' = count + 1
            /\ summary' = sum
            /\ batch' = replies
            /\ UNCHANGED <<totals, told, logged>>
  /\ UNCHANGED <<workers, limiterVars, since, waiting, sends, untold>>

-----------------------------------------------------------------------------
NoTotals == [sent |-> 0, ok |-> 0, timeouts |-> 0, min |-> None, max |-> 0,
             rcodes |-> NoRcodes, avg |-> [val |-> 0, interval |-> 0]]

Init ==
  /\ workers \in Workers
  /\ now = 0
  /\ cells = [g \in Gens |-> RatePerGen] /\ refilled = [g \in Gens |-> 0]
  /\ timer = [g \in Gens |-> "idle"] /\ since = [g \in Gens |-> 0]
  /\ report = [g \in Gens |-> NoFigures] /\ carried = [g \in Gens |-> NoReplies]
  /\ waiting = [g \in Gens |-> 0] /\ tracker = [g \in Gens |-> NoFigures]
  /\ count = 0 /\ summary = NoFigures /\ totals = NoTotals
  /\ sends = [g \in Gens |-> 0] /\ untold = [g \in Gens |-> NoReplies]
  /\ batch = NoReplies /\ told = NoReplies
  /\ logged = [figures |-> NoFigures, replies |-> NoReplies]

Next ==
  \/ Tick
  \/ \E g \in Gens : \/ Refill(g) \/ Send(g) \/ Expire(g)
                     \/ Load(g) \/ Report(g)
                     \/ \E r \in Replies : Recv(g, r)

Spec == Init /\ [][Next]_vars

-----------------------------------------------------------------------------
(* Properties *)

Figures == [sent : Nat, ok : Nat, timeouts : Nat, min : Nat, max : Nat,
            latency : Nat, bytes : Nat, elapsed : Nat, rcodes : [Rcodes -> Nat]]
Counts == [Replies -> Nat]

TypeOK ==
  /\ workers \in Workers
  /\ now \in 0..MaxSeconds
  /\ cells \in [Gens -> 0..RatePerGen]
  /\ refilled \in [Gens -> 0..RatePerGen]
  /\ timer \in [Gens -> {"idle", "due", "loading"}]
  /\ since \in [Gens -> 0..now]
  /\ waiting \in [Gens -> Nat]
  /\ tracker \in [Gens -> Figures] /\ report \in [Gens -> Figures]
  /\ count \in 0..(N - 1)
  /\ summary \in Figures
  /\ totals \in [sent : Nat, ok : Nat, timeouts : Nat, min : Nat, max : Nat,
                 rcodes : [Rcodes -> Nat], avg : [val : Nat, interval : Nat]]
  /\ sends \in [Gens -> Nat]
  /\ untold \in [Gens -> Counts] /\ carried \in [Gens -> Counts]
  /\ batch \in Counts /\ told \in Counts
  /\ logged \in [figures : Figures, replies : Counts]

\* What the figures must be, from the replies themselves.
Seen(replies) == {r \in Replies : replies[r] > 0}
Total(replies) == SumFunction(replies)
Sum(replies, weight(_)) == SumFunction([r \in Replies |-> replies[r] * weight(r)])
Latency(r) == r.latency
Size(r) == r.size
Least(replies) == Min({r.latency : r \in Seen(replies)} \cup {None})
Greatest(replies) == Max({r.latency : r \in Seen(replies)} \cup {0})
RcodeCounts(replies) ==
  [c \in Rcodes |-> SumFunctionOnSet(replies, {r \in Replies : r.rcode = c})]

\* The line logged for a batch is about the replies of that batch, all of them
\* and nothing of an earlier one, whichever generators reported in it: the
\* count, the extremes, the sums and the response codes (stats.rs,
\* StatsTracker::interval, StatsInterval::aggregate, log and reset).
BatchFigures ==
  LET f == logged.figures
      replies == logged.replies
  IN
  /\ f.ok = Total(replies)
  /\ f.min = Least(replies) /\ f.max = Greatest(replies)
  /\ f.latency = Sum(replies, Latency) /\ f.bytes = Sum(replies, Size)
  /\ f.rcodes = RcodeCounts(replies)

\* What the totals, the batch and the trackers count of the queries sent.
CountedSends ==
  totals.sent + summary.sent + SumFunction([g \in Gens |-> tracker[g].sent])

\* The totals are about every reply of every logged batch.  No query is counted
\* twice on its way from a tracker through the batch to the totals, each of them
\* reset behind it; on one thread none is lost on it either, while on several a
\* counter may go up between its load and its reset.  The elapsed time is the
\* one figure that no reset clears: it adds up over the batches to the time that
\* all the reports were about (stats.rs 84-103, 197-234 and 309-318).
TotalsExact ==
  /\ totals.ok = Total(told)
  /\ totals.min = Least(told) /\ totals.max = Greatest(told)
  /\ totals.rcodes = RcodeCounts(told)
  /\ CountedSends <= SumFunction(sends)
  /\ workers = 1 => CountedSends = SumFunction(sends)
  /\ summary.elapsed + SumFunction([g \in Gens |-> report[g].elapsed])
       = SumFunction(since)

\* The average size printed at the end lies between the smallest and the
\* largest reply counted, however often its division truncated: it neither
\* starts from the zero it is created with nor drifts away
\* (util.rs, MovingAvg::next, and the guard of its call in StatsTotals::update).
AvgWithin ==
  Seen(told) # {} =>
    LET sizes == {r.size : r \in Seen(told)} IN
    totals.avg.val \in Min(sizes)..Max(sizes)

\* The run never sends faster than asked for, but for the second's worth of
\* queries that a limiter lets pass at the start (config.rs, rate_per_gen, and
\* the governor's quota; the README of the program notes the doubled start).
RateHeld ==
  SumFunction(sends) <= Qps * (now + 1) + SumFunction(refilled)
=============================================================================
