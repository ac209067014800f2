---------------------------- MODULE MeasureProofs ----------------------------
(***************************************************************************)
(* Theorems about module Measure, for every number of generators, every    *)
(* limit, every set of replies and every length of the run.                *)
(***************************************************************************)
EXTENDS Measure, DataLemmas, FiniteSetTheorems, TLAPS

USE DEF limiterVars, reportVars, genVars, totalVars

-----------------------------------------------------------------------------
(* Type correctness *)

LEMMA Shares ==
  /\ N \in Nat \ {0}
  /\ RatePerGen \in Nat
  /\ RatePerGen * N <= Qps
<1>1. N \in Nat \ {0}
  BY GensAssumption, FS_CardinalityType, FS_EmptySet DEF N
<1>2. Qps \in Nat
  BY QpsAssumption
<1> QED
  BY <1>1, <1>2 DEF RatePerGen

LEMMA ReplyFields ==
  ASSUME NEW r \in Replies
  PROVE  /\ r.latency \in Nat \ {0} /\ r.size \in Nat \ {0}
         /\ r.rcode \in Rcodes
BY RepliesAssumption DEF Rcodes

LEMMA NoneType == None \in Nat \ {0}
BY DEF None

LEMMA NoFiguresType == NoFigures \in Figures /\ NoReplies \in Counts
BY NoneType DEF NoFigures, NoRcodes, Figures, Counts, NoReplies

LEMMA JoinedType ==
  ASSUME NEW a \in Counts, NEW b \in Counts PROVE Joined(a, b) \in Counts
BY DEF Counts, Joined

\* The counters of the store that a tracker holds.
LEMMA CountedFields ==
  ASSUME NEW f \in Figures
  PROVE  /\ [f EXCEPT !.sent = @ + 1] \in Figures
         /\ [f EXCEPT !.timeouts = @ + 1] \in Figures
         /\ [f EXCEPT !.sent = @ + 1].sent = f.sent + 1
         /\ [f EXCEPT !.timeouts = @ + 1].sent = f.sent
BY DEF Figures

\* What two sets of figures say of the replies when they differ in the counters
\* and the elapsed time alone.
SameReplies(f, g) ==
  /\ f.ok = g.ok /\ f.min = g.min /\ f.max = g.max /\ f.latency = g.latency
  /\ f.bytes = g.bytes /\ f.rcodes = g.rcodes

\* What a report takes from a tracker, and what the tracker is left with.
LEMMA LoadedFields ==
  ASSUME NEW f \in Figures, NEW d \in Nat
  PROVE  /\ [f EXCEPT !.elapsed = d] \in Figures
         /\ [f EXCEPT !.elapsed = d].sent = f.sent
         /\ [f EXCEPT !.elapsed = d].elapsed = d
         /\ SameReplies([f EXCEPT !.elapsed = d], f)
         /\ CountersOnly(f) \in Figures
         /\ CountersOnly(f).sent = f.sent
         /\ SameReplies(CountersOnly(f), NoFigures)
         /\ Reset(f) \in Figures
         /\ Reset(f).sent = 0
         /\ SameReplies(Reset(f), f)
<1>1. NoFigures \in Figures
  BY NoFiguresType
<1>2. CountersOnly(f) \in Figures /\ CountersOnly(f).sent = f.sent
  BY <1>1 DEF CountersOnly, Figures
<1>3. SameReplies(CountersOnly(f), NoFigures)
  BY <1>1 DEF CountersOnly, Figures, SameReplies
<1>4. Reset(f) \in Figures /\ Reset(f).sent = 0 /\ SameReplies(Reset(f), f)
  BY DEF Reset, Figures, SameReplies
<1>5. /\ [f EXCEPT !.elapsed = d] \in Figures
      /\ [f EXCEPT !.elapsed = d].sent = f.sent
      /\ [f EXCEPT !.elapsed = d].elapsed = d
      /\ SameReplies([f EXCEPT !.elapsed = d], f)
  BY DEF Figures, SameReplies
<1> QED
  BY <1>2, <1>3, <1>4, <1>5

\* StatsInterval::reset, field by field.
LEMMA AfterLogFields ==
  ASSUME NEW f \in Figures
  PROVE  /\ AfterLog(f) \in Figures
         /\ AfterLog(f).sent = 0 /\ AfterLog(f).elapsed = f.elapsed
         /\ SameReplies(AfterLog(f), NoFigures)
<1>1. NoFigures \in Figures /\ NoFigures.sent = 0
  BY NoFiguresType DEF NoFigures
<1> QED
  BY <1>1 DEF AfterLog, Figures, SameReplies

\* StatsTracker::update, field by field.
LEMMA UpdatedFields ==
  ASSUME NEW f \in Figures, NEW r \in Replies
  PROVE  /\ Updated(f, r) \in Figures
         /\ Updated(f, r).sent = f.sent
         /\ Updated(f, r).ok = f.ok + 1
         /\ Updated(f, r).min = Smaller(f.min, r.latency)
         /\ Updated(f, r).max = Larger(f.max, r.latency)
         /\ Updated(f, r).latency = f.latency + r.latency
         /\ Updated(f, r).bytes = f.bytes + r.size
         /\ Updated(f, r).rcodes = [f.rcodes EXCEPT ![r.rcode] = @ + 1]
<1> DEFINE rcodes == [f.rcodes EXCEPT ![r.rcode] = @ + 1]
<1>1. /\ r.latency \in Nat /\ r.size \in Nat /\ r.rcode \in Rcodes
      /\ f.sent \in Nat /\ f.ok \in Nat /\ f.timeouts \in Nat /\ f.min \in Nat
      /\ f.max \in Nat /\ f.latency \in Nat /\ f.bytes \in Nat
      /\ f.elapsed \in Nat /\ f.rcodes \in [Rcodes -> Nat]
  BY ReplyFields DEF Figures
<1>2. rcodes \in [Rcodes -> Nat]
  BY <1>1
<1>3. Smaller(f.min, r.latency) \in Nat /\ Larger(f.max, r.latency) \in Nat
  BY <1>1 DEF Smaller, Larger
<1>4. Updated(f, r) =
        [sent |-> f.sent, ok |-> f.ok + 1, timeouts |-> f.timeouts,
         min |-> Smaller(f.min, r.latency), max |-> Larger(f.max, r.latency),
         latency |-> f.latency + r.latency, bytes |-> f.bytes + r.size,
         elapsed |-> f.elapsed, rcodes |-> rcodes]
  BY DEF Updated
<1> HIDE DEF rcodes
<1>5. /\ Updated(f, r) \in Figures
      /\ Updated(f, r).sent = f.sent
      /\ Updated(f, r).ok = f.ok + 1
      /\ Updated(f, r).min = Smaller(f.min, r.latency)
      /\ Updated(f, r).max = Larger(f.max, r.latency)
      /\ Updated(f, r).latency = f.latency + r.latency
      /\ Updated(f, r).bytes = f.bytes + r.size
      /\ Updated(f, r).rcodes = rcodes
  BY <1>1, <1>2, <1>3, <1>4 DEF Figures
<1> QED
  BY <1>5 DEF rcodes

\* StatsInterval::aggregate, field by field.
LEMMA AggregatedFields ==
  ASSUME NEW a \in Figures, NEW b \in Figures
  PROVE  /\ Aggregated(a, b) \in Figures
         /\ Aggregated(a, b).sent = a.sent + b.sent
         /\ Aggregated(a, b).ok = a.ok + b.ok
         /\ Aggregated(a, b).min = Smaller(a.min, b.min)
         /\ Aggregated(a, b).max = Larger(a.max, b.max)
         /\ Aggregated(a, b).latency = a.latency + b.latency
         /\ Aggregated(a, b).bytes = a.bytes + b.bytes
         /\ Aggregated(a, b).elapsed = a.elapsed + b.elapsed
         /\ Aggregated(a, b).rcodes = AddedRcodes(a.rcodes, b.rcodes)
BY DEF Figures, Aggregated, Smaller, Larger, LeastOf, AddedRcodes

TotalFigures == [sent : Nat, ok : Nat, timeouts : Nat, min : Nat, max : Nat,
                 rcodes : [Rcodes -> Nat], avg : [val : Nat, interval : Nat]]

\* MovingAvg::next divides by a positive number of values.
LEMMA NextAvgType ==
  ASSUME NEW avg \in [val : Nat, interval : Nat], NEW x \in Nat
  PROVE  /\ NextAvg(avg, x) \in [val : Nat, interval : Nat]
         /\ NextAvg(avg, x).interval = avg.interval + 1
         /\ NextAvg(avg, x).val
              = (avg.val * avg.interval + x) \div (avg.interval + 1)
<1>1. avg.val \in Nat /\ avg.interval \in Nat
  OBVIOUS
<1>2. avg.val * avg.interval + x \in Nat
  BY <1>1
<1>3. (avg.val * avg.interval + x) \div (avg.interval + 1) \in Nat
  BY <1>1, <1>2
<1>4. (avg.interval + 1) - 1 = avg.interval
  BY <1>1
<1> QED
  BY <1>1, <1>3, <1>4 DEF NextAvg

LEMMA TotalsFields ==
  ASSUME NEW t \in TotalFigures, NEW f \in Figures
  PROVE  /\ TotalsAfter(t, f) \in TotalFigures
         /\ TotalsAfter(t, f).sent = t.sent + f.sent
         /\ TotalsAfter(t, f).ok = t.ok + f.ok
         /\ TotalsAfter(t, f).min = MinAfter(t, f)
         /\ TotalsAfter(t, f).max = Larger(t.max, f.max)
         /\ TotalsAfter(t, f).rcodes = AddedRcodes(t.rcodes, f.rcodes)
         /\ TotalsAfter(t, f).avg = IF f.bytes # 0 /\ f.ok # 0
                                      THEN NextAvg(t.avg, f.bytes \div f.ok)
                                      ELSE t.avg
<1> DEFINE avg == IF f.bytes # 0 /\ f.ok # 0
                    THEN NextAvg(t.avg, f.bytes \div f.ok)
                    ELSE t.avg
<1>1. avg \in [val : Nat, interval : Nat]
  <2>1. t.avg \in [val : Nat, interval : Nat] /\ f.bytes \in Nat /\ f.ok \in Nat
    BY DEF TotalFigures, Figures
  <2>2. f.ok # 0 => f.bytes \div f.ok \in Nat
    BY <2>1
  <2> QED
    BY <2>1, <2>2, NextAvgType
<1>2. MinAfter(t, f) \in Nat
  BY DEF MinAfter, MinShown, Smaller, TotalFigures, Figures
<1>3. Larger(t.max, f.max) \in Nat
  BY DEF Larger, TotalFigures, Figures
<1>4. AddedRcodes(t.rcodes, f.rcodes) \in [Rcodes -> Nat]
  BY DEF AddedRcodes, TotalFigures, Figures
<1>5. t.sent + f.sent \in Nat /\ t.ok + f.ok \in Nat /\ t.timeouts + f.timeouts \in Nat
  BY DEF TotalFigures, Figures
<1>6. TotalsAfter(t, f) =
        [sent |-> t.sent + f.sent, ok |-> t.ok + f.ok,
         timeouts |-> t.timeouts + f.timeouts, min |-> MinAfter(t, f),
         max |-> Larger(t.max, f.max),
         rcodes |-> AddedRcodes(t.rcodes, f.rcodes), avg |-> avg]
  BY DEF TotalsAfter
<1> HIDE DEF avg
<1>7. /\ TotalsAfter(t, f) \in TotalFigures /\ TotalsAfter(t, f).avg = avg
      /\ TotalsAfter(t, f).sent = t.sent + f.sent
      /\ TotalsAfter(t, f).ok = t.ok + f.ok
      /\ TotalsAfter(t, f).min = MinAfter(t, f)
      /\ TotalsAfter(t, f).max = Larger(t.max, f.max)
      /\ TotalsAfter(t, f).rcodes = AddedRcodes(t.rcodes, f.rcodes)
  BY <1>1, <1>2, <1>3, <1>4, <1>5, <1>6 DEF TotalFigures
<1> QED
  BY <1>7 DEF avg

\* A generator's own figures, whatever they become, keep the type of all.
LEMMA TypeInit == Init => TypeOK
<1> SUFFICES ASSUME Init PROVE TypeOK
  OBVIOUS
<1> USE DEF Init
<1>1. now \in 0..MaxSeconds
  BY BoundsAssumption
<1>2. /\ cells \in [Gens -> 0..RatePerGen] /\ refilled \in [Gens -> 0..RatePerGen]
      /\ count \in 0..(N - 1)
  BY Shares
<1>3. /\ timer \in [Gens -> {"idle", "due", "loading"}] /\ since \in [Gens -> 0..now]
      /\ waiting \in [Gens -> Nat] /\ sends \in [Gens -> Nat] /\ workers \in Workers
  OBVIOUS
<1>4. /\ tracker \in [Gens -> Figures] /\ untold \in [Gens -> Counts]
      /\ report \in [Gens -> Figures] /\ carried \in [Gens -> Counts]
      /\ summary \in Figures /\ batch \in Counts /\ told \in Counts
      /\ logged \in [figures : Figures, replies : Counts]
  BY NoFiguresType
<1>5. totals \in TotalFigures
  BY NoneType DEF NoTotals, NoRcodes, TotalFigures
<1> QED
  BY <1>1, <1>2, <1>3, <1>4, <1>5 DEF TypeOK, TotalFigures

\* What a report does, in one of its two ways: it goes on with the batch, or it
\* is the last of it.
GoesOn(g) ==
  /\ count + 1 # N /\ count' = count + 1
  /\ summary' = Aggregated(summary, report[g])
  /\ batch' = Joined(batch, carried[g])
  /\ UNCHANGED <<totals, told, logged>>

Completes(g) ==
  /\ count + 1 = N /\ count' = 0
  /\ totals' = TotalsAfter(totals, Aggregated(summary, report[g]))
  /\ summary' = AfterLog(Aggregated(summary, report[g])) /\ batch' = NoReplies
  /\ told' = Joined(told, Joined(batch, carried[g]))
  /\ logged' = [figures |-> Aggregated(summary, report[g]),
                replies |-> Joined(batch, carried[g])]

LEMMA ReportCases ==
  ASSUME NEW g, Report(g)
  PROVE  /\ timer[g] = "loading"
         /\ timer' = [timer EXCEPT ![g] = "idle"]
         /\ tracker' = [tracker EXCEPT ![g] = Reset(@)]
         /\ report' = [report EXCEPT ![g] = NoFigures]
         /\ carried' = [carried EXCEPT ![g] = NoReplies]
         /\ UNCHANGED <<workers, now, cells, refilled, since, waiting, sends, untold>>
         /\ GoesOn(g) \/ Completes(g)
BY DEF Report, GoesOn, Completes

LEMMA TypeStep == TypeOK /\ [Next]_vars => TypeOK'
<1> SUFFICES ASSUME TypeOK, [Next]_vars PROVE TypeOK'
  OBVIOUS
<1>1. CASE Tick
  <2>1. now' \in 0..MaxSeconds
    BY <1>1, BoundsAssumption DEF Tick, TypeOK
  <2>2. ASSUME NEW g \in Gens PROVE CellsAfter(g) \in 0..RatePerGen
    BY Shares DEF CellsAfter, Smaller, TypeOK
  <2>3. /\ cells' \in [Gens -> 0..RatePerGen]
        /\ refilled' \in [Gens -> 0..RatePerGen]
    BY <1>1, <2>2, Shares DEF Tick
  <2>4. /\ timer' \in [Gens -> {"idle", "due", "loading"}]
        /\ since' \in [Gens -> 0..now']
    BY <1>1 DEF Tick, TypeOK
  <2> QED
    BY <1>1, <2>1, <2>3, <2>4 DEF Tick, TypeOK
<1>2. ASSUME NEW g \in Gens, Refill(g) PROVE TypeOK'
  <2>1. /\ cells' \in [Gens -> 0..RatePerGen]
        /\ refilled' \in [Gens -> 0..RatePerGen]
    BY <1>2, Shares DEF Refill, TypeOK
  <2> QED
    BY <1>2, <2>1 DEF Refill, TypeOK
<1>3. ASSUME NEW g \in Gens, Send(g) PROVE TypeOK'
  <2>1. /\ cells' \in [Gens -> 0..RatePerGen]
        /\ waiting' \in [Gens -> Nat] /\ sends' \in [Gens -> Nat]
    BY <1>3, Shares DEF Send, TypeOK
  <2>2. [tracker[g] EXCEPT !.sent = @ + 1] \in Figures
    BY CountedFields DEF TypeOK
  <2>3. tracker' = [tracker EXCEPT ![g] = [tracker[g] EXCEPT !.sent = @ + 1]]
    BY <1>3 DEF Send, TypeOK
  <2>4. tracker' \in [Gens -> Figures]
    BY <2>2, <2>3 DEF TypeOK
  <2> QED
    BY <1>3, <2>1, <2>4 DEF Send, TypeOK
<1>4. ASSUME NEW g \in Gens, Expire(g) PROVE TypeOK'
  <2>1. waiting' \in [Gens -> Nat]
    BY <1>4 DEF Expire, TypeOK
  <2>2. [tracker[g] EXCEPT !.timeouts = @ + 1] \in Figures
    BY CountedFields DEF TypeOK
  <2>3. tracker' = [tracker EXCEPT ![g] = [tracker[g] EXCEPT !.timeouts = @ + 1]]
    BY <1>4 DEF Expire, TypeOK
  <2>4. tracker' \in [Gens -> Figures]
    BY <2>2, <2>3 DEF TypeOK
  <2> QED
    BY <1>4, <2>1, <2>4 DEF Expire, TypeOK
<1>5. ASSUME NEW g \in Gens, NEW r \in Replies, Recv(g, r) PROVE TypeOK'
  <2>1. waiting' \in [Gens -> Nat]
    BY <1>5 DEF Recv, TypeOK
  <2>2. tracker' \in [Gens -> Figures]
    BY <1>5, UpdatedFields DEF Recv, TypeOK
  <2>3. untold' \in [Gens -> Counts]
    <3>1. [untold[g] EXCEPT ![r] = @ + 1] \in Counts
      BY DEF TypeOK, Counts
    <3>2. untold' = [untold EXCEPT ![g] = [untold[g] EXCEPT ![r] = @ + 1]]
      BY <1>5 DEF Recv, TypeOK
    <3> QED
      BY <3>1, <3>2 DEF TypeOK
  <2> QED
    BY <1>5, <2>1, <2>2, <2>3 DEF Recv, TypeOK
<1>6. ASSUME NEW g \in Gens, Load(g) PROVE TypeOK'
  <2>1. /\ timer' \in [Gens -> {"idle", "due", "loading"}]
        /\ since' \in [Gens -> 0..now']
    BY <1>6, BoundsAssumption DEF Load, TypeOK
  <2>2. now - since[g] \in Nat /\ tracker[g] \in Figures
    BY BoundsAssumption DEF TypeOK
  <2>3. /\ [tracker[g] EXCEPT !.elapsed = now - since[g]] \in Figures
        /\ CountersOnly(tracker[g]) \in Figures
    BY <2>2, LoadedFields
  <2>4. report' \in [Gens -> Figures] /\ tracker' \in [Gens -> Figures]
    BY <1>6, <2>3 DEF Load, TypeOK
  <2>5. carried' \in [Gens -> Counts] /\ untold' \in [Gens -> Counts]
    BY <1>6, NoFiguresType DEF Load, TypeOK
  <2> QED
    BY <1>6, <2>1, <2>4, <2>5 DEF Load, TypeOK
<1>7. ASSUME NEW g \in Gens, Report(g) PROVE TypeOK'
  <2>1. /\ timer' \in [Gens -> {"idle", "due", "loading"}]
        /\ tracker' \in [Gens -> Figures] /\ report' \in [Gens -> Figures]
        /\ carried' \in [Gens -> Counts]
    <3>1. timer' \in [Gens -> {"idle", "due", "loading"}]
      BY <1>7, ReportCases DEF TypeOK
    <3>2. Reset(tracker[g]) \in Figures
      BY LoadedFields DEF TypeOK
    <3>3. tracker' \in [Gens -> Figures] /\ report' \in [Gens -> Figures]
      BY <1>7, <3>2, ReportCases, NoFiguresType DEF TypeOK
    <3>4. carried' \in [Gens -> Counts]
      BY <1>7, ReportCases, NoFiguresType DEF TypeOK
    <3> QED
      BY <3>1, <3>3, <3>4
  <2>2. /\ Aggregated(summary, report[g]) \in Figures
        /\ Joined(batch, carried[g]) \in Counts
        /\ Joined(told, Joined(batch, carried[g])) \in Counts
    BY AggregatedFields, JoinedType DEF TypeOK
  <2>3. /\ TotalsAfter(totals, Aggregated(summary, report[g])) \in TotalFigures
        /\ AfterLog(Aggregated(summary, report[g])) \in Figures
    BY <2>2, TotalsFields, AfterLogFields DEF TypeOK, TotalFigures
  <2>4. /\ count' \in 0..(N - 1) /\ summary' \in Figures /\ batch' \in Counts
        /\ told' \in Counts /\ logged' \in [figures : Figures, replies : Counts]
    BY <1>7, <2>2, <2>3, ReportCases, NoFiguresType, Shares
    DEF GoesOn, Completes, TypeOK
  <2>5. totals' \in TotalFigures
    BY <1>7, <2>3, ReportCases DEF GoesOn, Completes, TypeOK, TotalFigures
  <2>6. UNCHANGED <<workers, now, cells, refilled, since, waiting, sends, untold>>
    BY <1>7, ReportCases
  <2> QED
    BY <2>1, <2>4, <2>5, <2>6 DEF TypeOK, TotalFigures
<1>8. CASE UNCHANGED vars
  BY <1>8 DEF vars, TypeOK
<1> QED
  BY <1>1, <1>2, <1>3, <1>4, <1>5, <1>6, <1>7, <1>8 DEF Next

\* Every figure keeps its type, through the resets and the average's division
\* (stats.rs; util.rs, MovingAvg::next).
THEOREM TypeCorrect == Spec => []TypeOK
BY TypeInit, TypeStep, PTL DEF Spec

-----------------------------------------------------------------------------
(* The rate of the run *)

\* A generator has sent, and may still send at once, no more than the cells its
\* limiter had at the start and got back since.
ShareInv ==
  \A g \in Gens : sends[g] + cells[g] <= RatePerGen * (now + 1) + refilled[g]

LEMMA ShareInit == Init => ShareInv
BY Shares DEF Init, ShareInv

LEMMA ShareStep == TypeOK /\ ShareInv /\ [Next]_vars => ShareInv'
<1> SUFFICES ASSUME TypeOK, ShareInv, [Next]_vars, NEW g \in Gens
             PROVE  sends'[g] + cells'[g] <= RatePerGen * (now' + 1) + refilled'[g]
  BY DEF ShareInv
<1>1. /\ sends[g] \in Nat /\ cells[g] \in 0..RatePerGen
      /\ refilled[g] \in 0..RatePerGen /\ now \in Nat
      /\ sends[g] + cells[g] <= RatePerGen * (now + 1) + refilled[g]
  BY BoundsAssumption DEF TypeOK, ShareInv
<1>2. RatePerGen \in Nat /\ RatePerGen * (now + 1) \in Nat
  BY <1>1, Shares
<1>3. CASE Tick
  <2>1. /\ sends'[g] = sends[g] /\ now' = now + 1 /\ refilled'[g] = 0
        /\ cells'[g] = CellsAfter(g)
    BY <1>3 DEF Tick
  <2>2. CellsAfter(g) <= cells[g] + RatePerGen - refilled[g]
    BY <1>1, <1>2 DEF CellsAfter, Smaller
  <2>3. CellsAfter(g) \in Int
    BY <1>1, <1>2 DEF CellsAfter, Smaller
  <2>4. RatePerGen * (now' + 1) = RatePerGen * (now + 1) + RatePerGen
    BY <1>1, <1>2, <2>1
  <2> HIDE DEF CellsAfter
  <2> QED
    BY <1>1, <1>2, <2>1, <2>2, <2>3, <2>4
<1>4. ASSUME NEW h \in Gens, Refill(h)
      PROVE  sends'[g] + cells'[g] <= RatePerGen * (now' + 1) + refilled'[g]
  <2>1. /\ sends' = sends /\ now' = now
        /\ cells' = [cells EXCEPT ![h] = @ + 1]
        /\ refilled' = [refilled EXCEPT ![h] = @ + 1]
    BY <1>4 DEF Refill
  <2>2. CASE g = h
    BY <1>1, <1>2, <2>1, <2>2 DEF TypeOK
  <2>3. CASE g # h
    BY <1>1, <1>2, <2>1, <2>3 DEF TypeOK
  <2> QED
    BY <2>2, <2>3
<1>5. ASSUME NEW h \in Gens, Send(h)
      PROVE  sends'[g] + cells'[g] <= RatePerGen * (now' + 1) + refilled'[g]
  <2>1. /\ now' = now /\ refilled' = refilled
        /\ cells' = [cells EXCEPT ![h] = @ - 1]
        /\ sends' = [sends EXCEPT ![h] = @ + 1]
    BY <1>5 DEF Send
  <2>2. CASE g = h
    BY <1>1, <1>2, <2>1, <2>2 DEF TypeOK
  <2>3. CASE g # h
    BY <1>1, <1>2, <2>1, <2>3 DEF TypeOK
  <2> QED
    BY <2>2, <2>3
<1>6. ASSUME UNCHANGED <<sends, cells, now, refilled>>
      PROVE  sends'[g] + cells'[g] <= RatePerGen * (now' + 1) + refilled'[g]
  BY <1>1, <1>6
<1>7. \/ Tick
      \/ \E h \in Gens : Refill(h) \/ Send(h)
      \/ UNCHANGED <<sends, cells, now, refilled>>
  BY DEF Next, Expire, Recv, Load, Report, vars
<1> QED
  BY <1>3, <1>4, <1>5, <1>6, <1>7

LEMMA ShareImplies == TypeOK /\ ShareInv => RateHeld
<1> SUFFICES ASSUME TypeOK, ShareInv PROVE RateHeld
  OBVIOUS
<1> DEFINE K == RatePerGen * (now + 1)
           start == [g \in Gens |-> K]
           most == [g \in Gens |-> K + refilled[g]]
<1>1. now \in Nat /\ Qps \in Nat
  BY BoundsAssumption, QpsAssumption DEF TypeOK
<1>2. /\ K \in Int /\ IsFiniteSet(Gens)
      /\ N \in Nat /\ RatePerGen \in Nat /\ RatePerGen * N <= Qps
  BY <1>1, Shares, GensAssumption
<1>3. K * N <= Qps * (now + 1)
  <2>1. (RatePerGen * N) * (now + 1) <= Qps * (now + 1)
    BY <1>1, <1>2
  <2> QED
    BY <1>1, <1>2, <2>1
<1> HIDE DEF K
<1>4. \A g \in Gens : /\ sends[g] \in Int /\ refilled[g] \in Int /\ cells[g] >= 0
                      /\ cells[g] \in Int
  BY <1>2 DEF TypeOK
<1>5. \A g \in Gens : sends[g] <= most[g] /\ most[g] \in Int
  BY <1>2, <1>4 DEF ShareInv, K
<1>6. SumFunctionOnSet(sends, Gens) <= SumFunctionOnSet(most, Gens)
  BY <1>2, <1>4, <1>5, SumMonotone
<1>7. SumFunctionOnSet(most, Gens)
        = SumFunctionOnSet(start, Gens) + SumFunctionOnSet(refilled, Gens)
  <2>1. \A g \in Gens : /\ start[g] \in Int /\ refilled[g] \in Int
                        /\ most[g] = start[g] + refilled[g]
    BY <1>2, <1>4
  <2> HIDE DEF start, most
  <2> QED
    BY <1>2, <2>1, SumAdd
<1>8. SumFunctionOnSet(start, Gens) = K * N
  <2>1. \A g \in Gens : start[g] = K
    OBVIOUS
  <2> HIDE DEF start
  <2> QED
    BY <1>2, <2>1, SumConstant DEF N
<1>9. /\ SumFunction(sends) = SumFunctionOnSet(sends, Gens)
      /\ SumFunction(refilled) = SumFunctionOnSet(refilled, Gens)
  BY DEF SumFunction, TypeOK
<1>10. /\ SumFunctionOnSet(sends, Gens) \in Int
       /\ SumFunctionOnSet(refilled, Gens) \in Int
       /\ K * N \in Int /\ Qps * (now + 1) \in Int
  BY <1>1, <1>2, <1>4, SumType
<1> HIDE DEF start, most
<1> QED
  BY <1>3, <1>6, <1>7, <1>8, <1>9, <1>10 DEF RateHeld

\* However the run is shared between generators, and however the second falls
\* for each of them, the run sends no more than --qps asks for, but for the
\* doubled start (config.rs, rate_per_gen).
THEOREM RateNeverExceeded == Spec => []RateHeld
BY ShareInit, ShareStep, ShareImplies, TypeCorrect, PTL DEF Spec

-----------------------------------------------------------------------------
(* What the figures must be, as sums over the replies *)

More(a, r) == [a EXCEPT ![r] = @ + 1]

Weight(a, U, w) == SumFunctionOnSet([r \in Replies |-> a[r] * w[r]], U)

One == [r \in Replies |-> 1]
LatencyOf == [r \in Replies |-> r.latency]
SizeOf == [r \in Replies |-> r.size]
WithRcode(c) == {r \in Replies : r.rcode = c}

LEMMA WeightTypes ==
  /\ One \in [Replies -> Nat]
  /\ LatencyOf \in [Replies -> Nat]
  /\ SizeOf \in [Replies -> Nat]
BY ReplyFields DEF One, LatencyOf, SizeOf

LEMMA Terms ==
  ASSUME NEW a \in Counts, NEW w \in [Replies -> Nat]
  PROVE  \A r \in Replies : a[r] \in Nat /\ w[r] \in Nat /\ a[r] * w[r] \in Nat
<1> SUFFICES ASSUME NEW r \in Replies PROVE a[r] * w[r] \in Nat
  BY DEF Counts
<1>1. a[r] \in Nat /\ w[r] \in Nat
  BY DEF Counts
<1> QED
  BY <1>1

LEMMA PartsFinite == ASSUME NEW U \in SUBSET Replies PROVE IsFiniteSet(U)
BY RepliesAssumption, FS_Subset

LEMMA AsWeights ==
  ASSUME NEW a \in Counts
  PROVE  /\ Total(a) = Weight(a, Replies, One)
         /\ Sum(a, Latency) = Weight(a, Replies, LatencyOf)
         /\ Sum(a, Size) = Weight(a, Replies, SizeOf)
         /\ RcodeCounts(a) = [c \in Rcodes |-> Weight(a, WithRcode(c), One)]
<1> DEFINE units == [r \in Replies |-> a[r] * One[r]]
<1>1. \A r \in Replies : a[r] = units[r]
  BY DEF Counts, One
<1> HIDE DEF units
<1>2. ASSUME NEW U \in SUBSET Replies
      PROVE  SumFunctionOnSet(a, U) = SumFunctionOnSet(units, U)
  BY <1>1, PartsFinite, SumSame
<1>3. ASSUME NEW U \in SUBSET Replies
      PROVE  SumFunctionOnSet(a, U) = Weight(a, U, One)
  BY <1>2 DEF Weight, units
<1>4. Total(a) = Weight(a, Replies, One)
  BY <1>3 DEF Total, SumFunction, Counts
<1>5. Sum(a, Latency) = Weight(a, Replies, LatencyOf)
  <2>1. [r \in Replies |-> a[r] * r.latency] = [r \in Replies |-> a[r] * LatencyOf[r]]
    BY DEF LatencyOf
  <2> QED
    BY <2>1 DEF Sum, SumFunction, Latency, Weight
<1>6. Sum(a, Size) = Weight(a, Replies, SizeOf)
  <2>1. [r \in Replies |-> a[r] * r.size] = [r \in Replies |-> a[r] * SizeOf[r]]
    BY DEF SizeOf
  <2> QED
    BY <2>1 DEF Sum, SumFunction, Size, Weight
<1>7. RcodeCounts(a) = [c \in Rcodes |-> Weight(a, WithRcode(c), One)]
  BY <1>3 DEF RcodeCounts, WithRcode
<1> QED
  BY <1>4, <1>5, <1>6, <1>7

LEMMA WeightType ==
  ASSUME NEW U \in SUBSET Replies, NEW w \in [Replies -> Nat], NEW a \in Counts
  PROVE  Weight(a, U, w) \in Nat
<1> DEFINE terms == [r \in Replies |-> a[r] * w[r]]
<1>1. IsFiniteSet(U) /\ \A r \in U : terms[r] \in Int /\ terms[r] >= 0
  BY PartsFinite, Terms
<1> HIDE DEF terms
<1>2. SumFunctionOnSet(terms, U) \in Nat
  BY <1>1, SumType
<1> QED
  BY <1>2 DEF Weight, terms

LEMMA WeightNone ==
  ASSUME NEW U \in SUBSET Replies, NEW w \in [Replies -> Nat]
  PROVE  Weight(NoReplies, U, w) = 0
<1> DEFINE terms == [r \in Replies |-> NoReplies[r] * w[r]]
<1>1. IsFiniteSet(U) /\ \A r \in U : terms[r] = 0
  BY PartsFinite DEF NoReplies
<1>2. Cardinality(U) \in Nat
  BY <1>1, FS_CardinalityType
<1> HIDE DEF terms
<1>3. SumFunctionOnSet(terms, U) = 0 * Cardinality(U)
  BY <1>1, SumConstant
<1> QED
  BY <1>2, <1>3 DEF Weight, terms

LEMMA WeightJoined ==
  ASSUME NEW U \in SUBSET Replies, NEW w \in [Replies -> Nat],
         NEW a \in Counts, NEW b \in Counts
  PROVE  Weight(Joined(a, b), U, w) = Weight(a, U, w) + Weight(b, U, w)
<1> DEFINE f == [r \in Replies |-> a[r] * w[r]]
           g == [r \in Replies |-> b[r] * w[r]]
           h == [r \in Replies |-> Joined(a, b)[r] * w[r]]
<1>1. ASSUME NEW r \in U
      PROVE  f[r] \in Int /\ g[r] \in Int /\ h[r] = f[r] + g[r]
  <2>1. /\ a[r] \in Nat /\ b[r] \in Nat /\ w[r] \in Nat
        /\ Joined(a, b)[r] = a[r] + b[r]
    BY Terms DEF Joined
  <2>2. h[r] = (a[r] + b[r]) * w[r] /\ f[r] = a[r] * w[r] /\ g[r] = b[r] * w[r]
    BY <2>1
  <2> QED
    BY <2>1, <2>2
<1>2. IsFiniteSet(U)
  BY PartsFinite
<1> HIDE DEF f, g, h
<1>3. SumFunctionOnSet(h, U) = SumFunctionOnSet(f, U) + SumFunctionOnSet(g, U)
  BY <1>1, <1>2, SumAdd
<1> QED
  BY <1>3 DEF Weight, f, g, h

LEMMA WeightMore ==
  ASSUME NEW U \in SUBSET Replies, NEW w \in [Replies -> Nat],
         NEW a \in Counts, NEW e \in Replies
  PROVE  /\ More(a, e) \in Counts
         /\ Weight(More(a, e), U, w) =
              Weight(a, U, w) + IF e \in U THEN w[e] ELSE 0
<1> DEFINE f == [r \in Replies |-> a[r] * w[r]]
           g == [r \in Replies |-> More(a, e)[r] * w[r]]
<1>1. /\ More(a, e) \in Counts /\ More(a, e)[e] = a[e] + 1
      /\ \A r \in Replies \ {e} : More(a, e)[r] = a[r]
  BY DEF More, Counts
<1>2. \A r \in U : f[r] \in Int /\ g[r] \in Int
  BY <1>1, Terms
<1>3. \A r \in U \ {e} : g[r] = f[r]
  BY <1>1
<1>4. g[e] = f[e] + w[e] /\ f[e] \in Int /\ w[e] \in Nat
  <2>1. a[e] \in Nat /\ w[e] \in Nat /\ f[e] \in Int
    BY Terms
  <2>2. g[e] = (a[e] + 1) * w[e] /\ f[e] = a[e] * w[e]
    BY <1>1
  <2> QED
    BY <2>1, <2>2
<1>5. IsFiniteSet(U) /\ Weight(a, U, w) \in Nat
  BY PartsFinite, WeightType
<1>6. Weight(a, U, w) = SumFunctionOnSet(f, U)
  BY DEF Weight
<1>7. Weight(More(a, e), U, w) = SumFunctionOnSet(g, U)
  BY DEF Weight
<1> HIDE DEF f, g
<1>8. CASE e \in U
  <2>1. w[e] \in Int
    BY <1>4
  <2>2. SumFunctionOnSet(g, U) = SumFunctionOnSet(f, U) + w[e]
    BY <1>2, <1>3, <1>4, <1>5, <1>8, <2>1, SumMore
  <2> QED
    BY <1>1, <1>5, <1>6, <1>7, <1>8, <2>2
<1>9. CASE e \notin U
  <2>1. SumFunctionOnSet(g, U) = SumFunctionOnSet(f, U)
    BY <1>3, <1>5, <1>9, SumSame
  <2> QED
    BY <1>1, <1>5, <1>6, <1>7, <1>9, <2>1
<1> QED
  BY <1>8, <1>9

-----------------------------------------------------------------------------
(* What the figures must be, as extremes of the replies *)

LEMMA SeenReplies ==
  ASSUME NEW a \in Counts, NEW b \in Counts, NEW e \in Replies
  PROVE  /\ Seen(NoReplies) = {}
         /\ Seen(a) = {} => a = NoReplies
         /\ Seen(Joined(a, b)) = Seen(a) \cup Seen(b)
         /\ Seen(More(a, e)) = Seen(a) \cup {e}
<1>1. \A r \in Replies : a[r] \in Nat /\ b[r] \in Nat
  BY DEF Counts
<1>2. Seen(NoReplies) = {}
  BY DEF Seen, NoReplies
<1>3. Seen(a) = {} => a = NoReplies
  BY <1>1 DEF Seen, NoReplies, Counts
<1>4. Seen(Joined(a, b)) = Seen(a) \cup Seen(b)
  BY <1>1 DEF Seen, Joined
<1>5. \A r \in Replies : More(a, e)[r] > 0 <=> a[r] > 0 \/ r = e
  BY <1>1 DEF More, Counts
<1>6. Seen(More(a, e)) = Seen(a) \cup {e}
  BY <1>5 DEF Seen
<1> QED
  BY <1>2, <1>3, <1>4, <1>6

LEMMA ImagesFinite ==
  ASSUME NEW V \in SUBSET Replies
  PROVE  /\ IsFiniteSet({r.latency : r \in V}) /\ {r.latency : r \in V} \subseteq Nat
         /\ IsFiniteSet({r.size : r \in V}) /\ {r.size : r \in V} \subseteq Nat
<1>1. IsFiniteSet(V)
  BY PartsFinite
<1>2. [r \in V |-> r.latency] \in Surjection(V, {r.latency : r \in V})
  BY DEF Surjection
<1>3. [r \in V |-> r.size] \in Surjection(V, {r.size : r \in V})
  BY DEF Surjection
<1>4. IsFiniteSet({r.latency : r \in V})
  BY <1>1, <1>2, FS_Surjection
<1>5. IsFiniteSet({r.size : r \in V})
  BY <1>1, <1>3, FS_Surjection
<1> QED
  BY <1>4, <1>5, ReplyFields

IsLeast(m, a) ==
  /\ m <= None
  /\ \A r \in Seen(a) : m <= r.latency
  /\ m = None \/ \E r \in Seen(a) : m = r.latency

IsGreatest(m, a) ==
  /\ \A r \in Seen(a) : r.latency <= m
  /\ m = 0 \/ \E r \in Seen(a) : m = r.latency

LEMMA SeenType == ASSUME NEW a PROVE Seen(a) \in SUBSET Replies
BY DEF Seen

LEMMA LeastIs ==
  ASSUME NEW a, NEW m \in Nat, IsLeast(m, a) PROVE m = Least(a)
<1> DEFINE L == {r.latency : r \in Seen(a)}
           S == L \cup {None}
<1>1. IsFiniteSet(L) /\ L \subseteq Nat
  BY SeenType, ImagesFinite
<1>2. IsFiniteSet(S) /\ S \subseteq Int /\ S # {}
  BY <1>1, FS_AddElement, NoneType
<1>3. m \in S /\ \A x \in S : m <= x
  BY DEF IsLeast
<1> HIDE DEF S
<1>4. Min(S) \in S /\ \A x \in S : Min(S) <= x
  BY <1>2, Extremes
<1>5. Min(S) \in Int /\ m <= Min(S) /\ Min(S) <= m
  BY <1>2, <1>3, <1>4
<1>6. m = Min(S)
  BY <1>5
<1> QED
  BY <1>6 DEF Least, S

LEMMA GreatestIs ==
  ASSUME NEW a, NEW m \in Nat, IsGreatest(m, a) PROVE m = Greatest(a)
<1> DEFINE L == {r.latency : r \in Seen(a)}
           S == L \cup {0}
<1>1. IsFiniteSet(L) /\ L \subseteq Nat
  BY SeenType, ImagesFinite
<1>2. IsFiniteSet(S) /\ S \subseteq Int /\ S # {}
  BY <1>1, FS_AddElement
<1>3. m \in S /\ \A x \in S : x <= m
  BY DEF IsGreatest
<1> HIDE DEF S
<1>4. Max(S) \in S /\ \A x \in S : x <= Max(S)
  BY <1>2, Extremes
<1>5. Max(S) \in Int /\ m <= Max(S) /\ Max(S) <= m
  BY <1>2, <1>3, <1>4
<1>6. m = Max(S)
  BY <1>5
<1> QED
  BY <1>6 DEF Greatest, S

LEMMA ExtremesJoined ==
  ASSUME NEW a \in Counts, NEW b \in Counts, NEW m \in Nat, NEW n \in Nat
  PROVE  /\ IsLeast(m, a) /\ IsLeast(n, b) => IsLeast(Smaller(m, n), Joined(a, b))
         /\ IsGreatest(m, a) /\ IsGreatest(n, b)
              => IsGreatest(Larger(m, n), Joined(a, b))
<1>1. Seen(Joined(a, b)) = Seen(a) \cup Seen(b)
  <2>1. CASE Replies = {}
    BY <2>1 DEF Seen
  <2>2. CASE Replies # {}
    BY <2>2, SeenReplies
  <2> QED
    BY <2>1, <2>2
<1>2. \A r \in Seen(a) \cup Seen(b) : r.latency \in Nat
  BY SeenType, ReplyFields
<1>3. None \in Nat
  BY NoneType
<1> QED
  BY <1>1, <1>2, <1>3 DEF IsLeast, IsGreatest, Smaller, Larger

LEMMA ExtremesMore ==
  ASSUME NEW a \in Counts, NEW e \in Replies, NEW m \in Nat
  PROVE  /\ IsLeast(m, a) => IsLeast(Smaller(m, e.latency), More(a, e))
         /\ IsGreatest(m, a) => IsGreatest(Larger(m, e.latency), More(a, e))
<1>1. Seen(More(a, e)) = Seen(a) \cup {e}
  BY SeenReplies
<1>2. \A r \in Seen(a) \cup {e} : r.latency \in Nat
  BY SeenType, ReplyFields
<1>3. None \in Nat
  BY NoneType
<1> QED
  BY <1>1, <1>2, <1>3 DEF IsLeast, IsGreatest, Smaller, Larger

\* The two ways in which no reply is written, None in the figures and zero in
\* what is shown of them, agree.
LEMMA MinAfterIs ==
  ASSUME NEW t \in TotalFigures, NEW f \in Figures, NEW b,
         t.min <= None, IsLeast(f.min, b)
  PROVE  MinAfter(t, f) = Smaller(t.min, f.min)
<1>1. t.min \in Nat /\ f.min \in Nat /\ None \in Nat
  BY NoneType DEF TotalFigures, Figures
<1>2. f.min # None => f.min # 0
  BY SeenType, ReplyFields DEF IsLeast
<1> QED
  BY <1>1, <1>2 DEF MinAfter, MinShown, Smaller, IsLeast

-----------------------------------------------------------------------------
(* The figures of the replies *)

\* What figures and totals have in common.
Counted(f, a) ==
  /\ f.ok = Weight(a, Replies, One)
  /\ IsLeast(f.min, a) /\ IsGreatest(f.max, a)
  /\ \A c \in Rcodes : f.rcodes[c] = Weight(a, WithRcode(c), One)

FiguresOf(f, a) ==
  /\ Counted(f, a)
  /\ f.latency = Weight(a, Replies, LatencyOf)
  /\ f.bytes = Weight(a, Replies, SizeOf)

\* Figures are about the replies they were kept with, wherever both are.
FigureInv ==
  /\ \A g \in Gens : /\ FiguresOf(tracker[g], untold[g])
                      /\ FiguresOf(report[g], carried[g])
  /\ FiguresOf(summary, batch)
  /\ FiguresOf(logged.figures, logged.replies)
  /\ Counted(totals, told)

LEMMA NoFiguresOf ==
  /\ FiguresOf(NoFigures, NoReplies)
  /\ Counted(NoTotals, NoReplies)
<1>1. ASSUME NEW U \in SUBSET Replies PROVE Weight(NoReplies, U, One) = 0
  BY WeightNone, WeightTypes
<1>2. /\ Weight(NoReplies, Replies, One) = 0
      /\ \A c \in Rcodes : Weight(NoReplies, WithRcode(c), One) = 0
  BY <1>1 DEF WithRcode
<1>3. /\ Weight(NoReplies, Replies, LatencyOf) = 0
      /\ Weight(NoReplies, Replies, SizeOf) = 0
  BY WeightNone, WeightTypes
<1>4. Seen(NoReplies) = {}
  BY DEF Seen, NoReplies
<1>5. IsLeast(None, NoReplies) /\ IsGreatest(0, NoReplies)
  BY <1>4, NoneType DEF IsLeast, IsGreatest
<1> QED
  BY <1>2, <1>3, <1>5 DEF FiguresOf, Counted, NoFigures, NoTotals, NoRcodes

LEMMA UpdatedOf ==
  ASSUME NEW f \in Figures, NEW a \in Counts, NEW r \in Replies, FiguresOf(f, a)
  PROVE  FiguresOf(Updated(f, r), More(a, r))
<1>1. /\ f.ok \in Nat /\ f.min \in Nat /\ f.max \in Nat
      /\ f.rcodes \in [Rcodes -> Nat]
  BY DEF Figures
<1>2. Updated(f, r).ok = Weight(More(a, r), Replies, One)
  <2>1. Weight(More(a, r), Replies, One) = Weight(a, Replies, One) + One[r]
    BY WeightMore, WeightTypes
  <2> QED
    BY <2>1, UpdatedFields DEF FiguresOf, Counted, One
<1>3. Updated(f, r).latency = Weight(More(a, r), Replies, LatencyOf)
  <2>1. Weight(More(a, r), Replies, LatencyOf)
          = Weight(a, Replies, LatencyOf) + LatencyOf[r]
    BY WeightMore, WeightTypes
  <2> QED
    BY <2>1, UpdatedFields DEF FiguresOf, LatencyOf
<1>4. Updated(f, r).bytes = Weight(More(a, r), Replies, SizeOf)
  <2>1. Weight(More(a, r), Replies, SizeOf) = Weight(a, Replies, SizeOf) + SizeOf[r]
    BY WeightMore, WeightTypes
  <2> QED
    BY <2>1, UpdatedFields DEF FiguresOf, SizeOf
<1>5. ASSUME NEW c \in Rcodes
      PROVE  Updated(f, r).rcodes[c] = Weight(More(a, r), WithRcode(c), One)
  <2>1. WithRcode(c) \in SUBSET Replies /\ (r \in WithRcode(c) <=> r.rcode = c)
    BY DEF WithRcode
  <2>2. Weight(More(a, r), WithRcode(c), One) =
          Weight(a, WithRcode(c), One) + IF r \in WithRcode(c) THEN One[r] ELSE 0
    BY <2>1, WeightMore, WeightTypes
  <2>3. Weight(a, WithRcode(c), One) \in Nat /\ One[r] = 1
    BY <2>1, WeightType, WeightTypes DEF One
  <2>4. Updated(f, r).rcodes[c] = f.rcodes[c] + IF r.rcode = c THEN 1 ELSE 0
    <3>1. Updated(f, r).rcodes = [f.rcodes EXCEPT ![r.rcode] = @ + 1]
      BY UpdatedFields
    <3>2. r.rcode \in Rcodes /\ f.rcodes[c] \in Nat
      BY <1>1, ReplyFields
    <3> QED
      BY <1>1, <3>1, <3>2
  <2>5. f.rcodes[c] = Weight(a, WithRcode(c), One)
    BY DEF FiguresOf, Counted
  <2> QED
    BY <2>1, <2>2, <2>3, <2>4, <2>5
<1>6. /\ IsLeast(Updated(f, r).min, More(a, r))
      /\ IsGreatest(Updated(f, r).max, More(a, r))
  <2>1. IsLeast(f.min, a) /\ IsGreatest(f.max, a)
    BY DEF FiguresOf, Counted
  <2>2. /\ IsLeast(Smaller(f.min, r.latency), More(a, r))
        /\ IsGreatest(Larger(f.max, r.latency), More(a, r))
    BY <1>1, <2>1, ExtremesMore
  <2> QED
    BY <2>2, UpdatedFields
<1> QED
  BY <1>2, <1>3, <1>4, <1>5, <1>6 DEF FiguresOf, Counted

\* What figures and totals have in common, when those of two sets of replies are
\* joined.
LEMMA CountedJoined ==
  ASSUME NEW f, NEW g, NEW h, NEW a \in Counts, NEW b \in Counts,
         f.min \in Nat, g.min \in Nat, f.max \in Nat, g.max \in Nat,
         Counted(f, a), Counted(g, b),
         h.ok = f.ok + g.ok, h.min = Smaller(f.min, g.min),
         h.max = Larger(f.max, g.max), h.rcodes = AddedRcodes(f.rcodes, g.rcodes)
  PROVE  Counted(h, Joined(a, b))
<1>1. h.ok = Weight(Joined(a, b), Replies, One)
  <2>1. Weight(Joined(a, b), Replies, One)
          = Weight(a, Replies, One) + Weight(b, Replies, One)
    BY WeightJoined, WeightTypes
  <2> QED
    BY <2>1 DEF Counted
<1>2. ASSUME NEW c \in Rcodes
      PROVE  h.rcodes[c] = Weight(Joined(a, b), WithRcode(c), One)
  <2>1. WithRcode(c) \in SUBSET Replies
    BY DEF WithRcode
  <2>2. Weight(Joined(a, b), WithRcode(c), One)
          = Weight(a, WithRcode(c), One) + Weight(b, WithRcode(c), One)
    BY <2>1, WeightJoined, WeightTypes
  <2>3. h.rcodes[c] = f.rcodes[c] + g.rcodes[c]
    BY DEF AddedRcodes
  <2> QED
    BY <2>2, <2>3 DEF Counted
<1>3. IsLeast(h.min, Joined(a, b)) /\ IsGreatest(h.max, Joined(a, b))
  BY ExtremesJoined DEF Counted
<1> QED
  BY <1>1, <1>2, <1>3 DEF Counted

LEMMA AggregatedOf ==
  ASSUME NEW f \in Figures, NEW g \in Figures, NEW a \in Counts, NEW b \in Counts,
         FiguresOf(f, a), FiguresOf(g, b)
  PROVE  FiguresOf(Aggregated(f, g), Joined(a, b))
<1>1. /\ f.min \in Nat /\ g.min \in Nat /\ f.max \in Nat /\ g.max \in Nat
      /\ Counted(f, a) /\ Counted(g, b)
  BY DEF Figures, FiguresOf
<1>2. Counted(Aggregated(f, g), Joined(a, b))
  <2> DEFINE h == Aggregated(f, g)
  <2>1. /\ h.ok = f.ok + g.ok /\ h.min = Smaller(f.min, g.min)
        /\ h.max = Larger(f.max, g.max)
        /\ h.rcodes = AddedRcodes(f.rcodes, g.rcodes)
    BY AggregatedFields
  <2> HIDE DEF h
  <2>2. Counted(h, Joined(a, b))
    BY Zenon, <1>1, <2>1, CountedJoined
  <2> QED
    BY <2>2 DEF h
<1>3. Aggregated(f, g).latency = Weight(Joined(a, b), Replies, LatencyOf)
  <2>1. Weight(Joined(a, b), Replies, LatencyOf)
          = Weight(a, Replies, LatencyOf) + Weight(b, Replies, LatencyOf)
    BY WeightJoined, WeightTypes
  <2> QED
    BY <2>1, AggregatedFields DEF FiguresOf
<1>4. Aggregated(f, g).bytes = Weight(Joined(a, b), Replies, SizeOf)
  <2>1. Weight(Joined(a, b), Replies, SizeOf)
          = Weight(a, Replies, SizeOf) + Weight(b, Replies, SizeOf)
    BY WeightJoined, WeightTypes
  <2> QED
    BY <2>1, AggregatedFields DEF FiguresOf
<1> QED
  BY <1>2, <1>3, <1>4 DEF FiguresOf

LEMMA TotalsOf ==
  ASSUME NEW t \in TotalFigures, NEW f \in Figures, NEW a \in Counts, NEW b \in Counts,
         Counted(t, a), FiguresOf(f, b)
  PROVE  Counted(TotalsAfter(t, f), Joined(a, b))
<1> DEFINE h == TotalsAfter(t, f)
<1>1. /\ f.min \in Nat /\ t.min \in Nat /\ f.max \in Nat /\ t.max \in Nat
      /\ Counted(f, b) /\ t.min <= None /\ IsLeast(f.min, b)
  BY DEF Figures, TotalFigures, FiguresOf, Counted, IsLeast
<1>2. /\ h.ok = t.ok + f.ok /\ h.min = Smaller(t.min, f.min)
      /\ h.max = Larger(t.max, f.max)
      /\ h.rcodes = AddedRcodes(t.rcodes, f.rcodes)
  BY <1>1, TotalsFields, MinAfterIs
<1> HIDE DEF h
<1>3. Counted(h, Joined(a, b))
  BY <1>1, <1>2, CountedJoined
<1> QED
  BY <1>3 DEF h

\* Neither the counters of the store nor the elapsed time say anything of the
\* replies.
LEMMA SameOf ==
  ASSUME NEW f, NEW g, NEW a, FiguresOf(f, a), SameReplies(g, f)
  PROVE  FiguresOf(g, a)
BY Zenon DEF SameReplies, FiguresOf, Counted

LEMMA CountersOf ==
  ASSUME NEW f \in Figures, NEW a, FiguresOf(f, a)
  PROVE  /\ FiguresOf([f EXCEPT !.sent = @ + 1], a)
         /\ FiguresOf([f EXCEPT !.timeouts = @ + 1], a)
<1> DEFINE g == [f EXCEPT !.sent = @ + 1]
           h == [f EXCEPT !.timeouts = @ + 1]
<1>1. SameReplies(g, f) /\ SameReplies(h, f)
  BY DEF Figures, SameReplies
<1> HIDE DEF g, h
<1>2. FiguresOf(g, a) /\ FiguresOf(h, a)
  BY <1>1, SameOf
<1> QED
  BY <1>2 DEF g, h

LEMMA FigureInit == Init => FigureInv
BY NoFiguresOf DEF Init, FigureInv

LEMMA FigureStep == TypeOK /\ FigureInv /\ [Next]_vars => FigureInv'
<1> SUFFICES ASSUME TypeOK, FigureInv, [Next]_vars PROVE FigureInv'
  OBVIOUS
<1>1. CASE Tick
  BY <1>1 DEF Tick, FigureInv
<1>2. ASSUME NEW g \in Gens, Refill(g) PROVE FigureInv'
  BY <1>2 DEF Refill, FigureInv
<1>3. ASSUME NEW g \in Gens, Send(g) \/ Expire(g) PROVE FigureInv'
  <2>1. /\ UNCHANGED <<untold, report, carried, summary, batch, logged, totals, told>>
        /\ \/ tracker' = [tracker EXCEPT ![g].sent = @ + 1]
           \/ tracker' = [tracker EXCEPT ![g].timeouts = @ + 1]
    BY <1>3 DEF Send, Expire
  <2>2. ASSUME NEW h \in Gens PROVE FiguresOf(tracker'[h], untold[h])
    <3>1. \/ tracker'[h] = tracker[h]
          \/ tracker'[h] = [tracker[h] EXCEPT !.sent = @ + 1]
          \/ tracker'[h] = [tracker[h] EXCEPT !.timeouts = @ + 1]
      BY <2>1 DEF TypeOK
    <3>2. tracker[h] \in Figures /\ FiguresOf(tracker[h], untold[h])
      BY DEF TypeOK, FigureInv
    <3> QED
      BY <3>1, <3>2, CountersOf
  <2> QED
    BY <2>1, <2>2 DEF FigureInv
<1>4. ASSUME NEW g \in Gens, NEW r \in Replies, Recv(g, r) PROVE FigureInv'
  <2>1. /\ UNCHANGED <<report, carried, summary, batch, logged, totals, told>>
        /\ tracker' = [tracker EXCEPT ![g] = Updated(@, r)]
        /\ untold' = [untold EXCEPT ![g] = More(@, r)]
    BY <1>4 DEF Recv, More, TypeOK
  <2>2. FiguresOf(Updated(tracker[g], r), More(untold[g], r))
    BY UpdatedOf DEF TypeOK, FigureInv
  <2>3. ASSUME NEW h \in Gens PROVE FiguresOf(tracker'[h], untold'[h])
    BY <2>1, <2>2 DEF TypeOK, FigureInv
  <2> QED
    BY <2>1, <2>3 DEF FigureInv
<1>5. ASSUME NEW g \in Gens, Load(g) PROVE FigureInv'
  <2> DEFINE f == [tracker[g] EXCEPT !.elapsed = now - since[g]]
  <2>1. /\ UNCHANGED <<summary, batch, logged, totals, told>>
        /\ tracker' = [tracker EXCEPT ![g] = CountersOnly(@)]
        /\ untold' = [untold EXCEPT ![g] = NoReplies]
        /\ report' = [report EXCEPT ![g] = f]
        /\ carried' = [carried EXCEPT ![g] = untold[g]]
    BY <1>5 DEF Load
  <2>2. tracker[g] \in Figures /\ FiguresOf(tracker[g], untold[g]) /\ now - since[g] \in Nat
    BY BoundsAssumption DEF TypeOK, FigureInv
  <2>3. SameReplies(f, tracker[g]) /\ SameReplies(CountersOnly(tracker[g]), NoFigures)
    BY <2>2, LoadedFields
  <2> HIDE DEF f
  <2>4. FiguresOf(f, untold[g]) /\ FiguresOf(CountersOnly(tracker[g]), NoReplies)
    BY <2>2, <2>3, SameOf, NoFiguresOf
  <2>5. ASSUME NEW h \in Gens
        PROVE  FiguresOf(tracker'[h], untold'[h]) /\ FiguresOf(report'[h], carried'[h])
    BY <2>1, <2>4 DEF TypeOK, FigureInv
  <2> QED
    BY <2>1, <2>5 DEF FigureInv
<1>6. ASSUME NEW g \in Gens, Report(g) PROVE FigureInv'
  <2> DEFINE sum == Aggregated(summary, report[g])
             replies == Joined(batch, carried[g])
  <2>1. /\ sum \in Figures /\ replies \in Counts /\ FiguresOf(sum, replies)
    BY AggregatedFields, JoinedType, AggregatedOf DEF TypeOK, FigureInv
  <2>2. Counted(TotalsAfter(totals, sum), Joined(told, replies))
    <3> HIDE DEF sum, replies
    <3> QED
      BY <2>1, TotalsOf DEF TypeOK, FigureInv, TotalFigures
  <2>3. FiguresOf(AfterLog(sum), NoReplies)
    <3> HIDE DEF sum
    <3> QED
      BY <2>1, AfterLogFields, SameOf, NoFiguresOf
  <2>4. FiguresOf(Reset(tracker[g]), untold[g])
    BY LoadedFields, SameOf DEF TypeOK, FigureInv
  <2>5. ASSUME NEW h \in Gens
        PROVE  FiguresOf(tracker'[h], untold'[h]) /\ FiguresOf(report'[h], carried'[h])
    BY <1>6, <2>4, ReportCases, NoFiguresOf DEF TypeOK, FigureInv
  <2>6. CASE GoesOn(g)
    BY <2>1, <2>5, <2>6 DEF GoesOn, FigureInv
  <2>7. CASE Completes(g)
    BY <2>1, <2>2, <2>3, <2>5, <2>7 DEF Completes, FigureInv
  <2> QED
    BY <1>6, <2>6, <2>7, ReportCases
<1>7. CASE UNCHANGED vars
  BY <1>7 DEF vars, FigureInv
<1> QED
  BY <1>1, <1>2, <1>3, <1>4, <1>5, <1>6, <1>7 DEF Next

LEMMA FigureInvariance == Spec => [](TypeOK /\ FigureInv)
BY TypeInit, TypeStep, FigureInit, FigureStep, PTL DEF Spec

LEMMA FiguresImply == TypeOK /\ FigureInv => BatchFigures
<1> SUFFICES ASSUME TypeOK, FigureInv PROVE BatchFigures
  OBVIOUS
<1> DEFINE f == logged.figures
           a == logged.replies
<1>1. f \in Figures /\ a \in Counts /\ FiguresOf(f, a)
  BY DEF TypeOK, FigureInv
<1>2. BatchFigures <=>
        /\ f.ok = Total(a) /\ f.min = Least(a) /\ f.max = Greatest(a)
        /\ f.latency = Sum(a, Latency) /\ f.bytes = Sum(a, Size)
        /\ f.rcodes = RcodeCounts(a)
  BY DEF BatchFigures
<1> HIDE DEF f, a
<1>3. f.min \in Nat /\ f.max \in Nat /\ f.rcodes \in [Rcodes -> Nat]
  BY <1>1 DEF Figures
<1>4. f.min = Least(a) /\ f.max = Greatest(a)
  BY <1>1, <1>3, LeastIs, GreatestIs DEF FiguresOf, Counted
<1>5. f.rcodes = RcodeCounts(a)
  BY <1>1, <1>3, AsWeights DEF FiguresOf, Counted
<1> QED
  BY <1>1, <1>2, <1>4, <1>5, AsWeights DEF FiguresOf, Counted

\* The line logged for a batch is about the replies that its reports brought, all
\* of them and no other, whichever generators reported and in whatever order
\* (stats.rs, StatsTracker::interval, StatsInterval::aggregate, log and reset).
THEOREM BatchesAddUp == Spec => []BatchFigures
BY FigureInvariance, FiguresImply, PTL

-----------------------------------------------------------------------------
(* The queries sent, and the time the reports are about *)

Kept == [g \in Gens |-> tracker[g].sent]
Spent == [g \in Gens |-> report[g].elapsed]

\* What a report has loaded is still in the counter, which has gained nothing
\* since if there is no second thread; a report that is not being made is empty.
LoadInv ==
  \A g \in Gens :
    IF timer[g] = "loading"
      THEN /\ report[g].sent <= tracker[g].sent
           /\ workers = 1 => report[g].sent = tracker[g].sent
      ELSE report[g].elapsed = 0

\* A query is counted in the totals, in the current batch or in a tracker.
SentInv ==
  LET counted == totals.sent + summary.sent + SumFunctionOnSet(Kept, Gens) IN
  /\ counted <= SumFunctionOnSet(sends, Gens)
  /\ workers = 1 => counted = SumFunctionOnSet(sends, Gens)

\* The time up to the last report of each generator is in the summary or in the
\* report it is making.
ElapsedInv ==
  summary.elapsed + SumFunctionOnSet(Spent, Gens) = SumFunctionOnSet(since, Gens)

LEMMA OnlyThread == ASSUME workers = 1, ThreadFree PROVE Loading = {}
<1>1. IsFiniteSet(Loading)
  BY GensAssumption, FS_Subset DEF Loading
<1>2. Cardinality(Loading) \in Nat /\ Cardinality(Loading) < 1
  BY <1>1, FS_CardinalityType DEF ThreadFree
<1>3. Cardinality(Loading) = 0
  BY <1>2
<1> QED
  BY <1>1, <1>3, FS_EmptySet

\* What each step does to the counters of one generator.
LEMMA TrackerSteps ==
  ASSUME TypeOK, [Next]_vars, NEW g \in Gens
  PROVE  \/ Send(g) /\ tracker'[g].sent = tracker[g].sent + 1
         \/ Load(g) /\ tracker'[g].sent = tracker[g].sent
         \/ Report(g) /\ tracker'[g].sent = 0
         \/ /\ tracker'[g].sent = tracker[g].sent
            /\ UNCHANGED <<sends[g], report[g], since[g]>>
            /\ timer'[g] = "loading" <=> timer[g] = "loading"
<1>1. tracker[g] \in Figures /\ now - since[g] \in Nat
  BY BoundsAssumption DEF TypeOK
<1>2. CASE Tick
  BY <1>2 DEF Tick, Loading, TypeOK
<1>3. ASSUME NEW h \in Gens, Send(h), h = g
      PROVE  tracker'[g].sent = tracker[g].sent + 1
  <2>1. tracker'[g] = [tracker[g] EXCEPT !.sent = @ + 1]
    BY <1>3 DEF Send, TypeOK
  <2> QED
    BY <1>1, <2>1, CountedFields
<1>4. ASSUME NEW h \in Gens, Load(h), h = g
      PROVE  tracker'[g].sent = tracker[g].sent
  BY <1>1, <1>4, LoadedFields DEF Load, TypeOK
<1>5. ASSUME NEW h \in Gens, Report(h), h = g PROVE tracker'[g].sent = 0
  <2>1. tracker'[g] = Reset(tracker[g])
    BY <1>5, ReportCases DEF TypeOK
  <2> QED
    BY <1>1, <2>1, LoadedFields
<1>6. ASSUME NEW h \in Gens, h # g, Send(h) \/ Load(h) \/ Report(h)
      PROVE  UNCHANGED <<tracker[g], sends[g], report[g], since[g], timer[g]>>
  BY <1>6, ReportCases DEF Send, Load, TypeOK
<1>7. ASSUME NEW h \in Gens, Refill(h) \/ Expire(h) \/ (\E r \in Replies : Recv(h, r))
      PROVE  /\ tracker'[g].sent = tracker[g].sent
             /\ UNCHANGED <<sends, report, since, timer>>
  <2>1. UNCHANGED <<sends, report, since, timer>>
    BY <1>7 DEF Refill, Expire, Recv
  <2>2. CASE Refill(h)
    BY <2>2 DEF Refill
  <2>3. CASE Expire(h)
    <3>1. CASE h = g
      <4>1. tracker'[g] = [tracker[g] EXCEPT !.timeouts = @ + 1]
        BY <2>3, <3>1 DEF Expire, TypeOK
      <4>2. [tracker[g] EXCEPT !.timeouts = @ + 1].sent = tracker[g].sent
        BY <1>1, CountedFields
      <4> QED
        BY <2>1, <4>1, <4>2
    <3>2. CASE h # g
      <4>1. tracker'[g] = tracker[g]
        BY <2>3, <3>2 DEF Expire, TypeOK
      <4> QED
        BY <2>1, <4>1
    <3> QED
      BY <3>1, <3>2
  <2>4. ASSUME NEW r \in Replies, Recv(h, r) PROVE tracker'[g].sent = tracker[g].sent
    <3>1. CASE h = g
      <4>1. tracker'[g] = Updated(tracker[g], r)
        BY <2>4, <3>1 DEF Recv, TypeOK
      <4> QED
        BY <4>1 DEF Updated
    <3>2. CASE h # g
      BY <2>4, <3>2 DEF Recv, TypeOK
    <3> QED
      BY <3>1, <3>2
  <2> QED
    BY <1>7, <2>1, <2>2, <2>3, <2>4
<1>8. CASE UNCHANGED vars
  BY <1>8 DEF vars
<1> QED
  BY <1>2, <1>3, <1>4, <1>5, <1>6, <1>7, <1>8 DEF Next

LEMMA LoadInit == Init => LoadInv
BY DEF Init, LoadInv, NoFigures

LEMMA WorkersKept == [Next]_vars => workers' = workers
BY DEF Next, Tick, Refill, Send, Expire, Recv, Load, Report, vars

LEMMA LoadStep == TypeOK /\ LoadInv /\ [Next]_vars => LoadInv'
<1> SUFFICES ASSUME TypeOK, LoadInv, [Next]_vars, NEW g \in Gens
             PROVE  IF timer'[g] = "loading"
                      THEN /\ report'[g].sent <= tracker'[g].sent
                           /\ workers' = 1 => report'[g].sent = tracker'[g].sent
                      ELSE report'[g].elapsed = 0
  BY DEF LoadInv
<1>1. /\ workers' = workers /\ tracker[g] \in Figures /\ report[g] \in Figures
      /\ tracker[g].sent \in Nat /\ report[g].sent \in Nat /\ now - since[g] \in Nat
  BY WorkersKept, BoundsAssumption DEF TypeOK, Figures
<1>2. IF timer[g] = "loading"
        THEN /\ report[g].sent <= tracker[g].sent
             /\ workers = 1 => report[g].sent = tracker[g].sent
        ELSE report[g].elapsed = 0
  BY DEF LoadInv
<1>3. CASE Send(g) /\ tracker'[g].sent = tracker[g].sent + 1
  <2>1. timer' = timer /\ report' = report /\ ThreadFree
    BY <1>3 DEF Send
  <2>2. workers = 1 => timer[g] # "loading"
    BY <2>1, OnlyThread DEF Loading
  <2> QED
    BY <1>1, <1>2, <1>3, <2>1, <2>2
<1>4. CASE Load(g) /\ tracker'[g].sent = tracker[g].sent
  <2>1. timer'[g] = "loading"
    BY <1>4 DEF Load, TypeOK
  <2>2. report'[g] = [tracker[g] EXCEPT !.elapsed = now - since[g]]
    BY <1>4 DEF Load, TypeOK
  <2>3. report'[g].sent = tracker[g].sent
    BY <1>1, <2>2, LoadedFields
  <2> QED
    BY <1>1, <1>4, <2>1, <2>3
<1>5. CASE Report(g) /\ tracker'[g].sent = 0
  BY <1>5, ReportCases DEF TypeOK, NoFigures
<1>6. CASE /\ tracker'[g].sent = tracker[g].sent
           /\ UNCHANGED <<sends[g], report[g], since[g]>>
           /\ timer'[g] = "loading" <=> timer[g] = "loading"
  BY <1>1, <1>2, <1>6
<1> QED
  BY <1>3, <1>4, <1>5, <1>6, TrackerSteps

LEMMA SentTypes ==
  ASSUME TypeOK
  PROVE  /\ IsFiniteSet(Gens)
         /\ totals.sent \in Nat /\ summary.sent \in Nat /\ summary.elapsed \in Nat
         /\ \A g \in Gens : /\ sends[g] \in Int /\ Kept[g] \in Int
                            /\ since[g] \in Int /\ Spent[g] \in Int
         /\ SumFunctionOnSet(sends, Gens) \in Int
         /\ SumFunctionOnSet(Kept, Gens) \in Int
         /\ SumFunctionOnSet(since, Gens) \in Int
         /\ SumFunctionOnSet(Spent, Gens) \in Int
<1>1. /\ IsFiniteSet(Gens) /\ totals.sent \in Nat /\ summary.sent \in Nat
      /\ summary.elapsed \in Nat
  BY GensAssumption DEF TypeOK, Figures
<1>2. \A g \in Gens : /\ sends[g] \in Int /\ Kept[g] \in Int
                      /\ since[g] \in Int /\ Spent[g] \in Int
  BY DEF TypeOK, Figures, Kept, Spent
<1> QED
  BY <1>1, <1>2, SumType

\* A sum over the generators when one of its terms changes.
LEMMA SumChanges ==
  ASSUME NEW f, NEW h, NEW g \in Gens, NEW d \in Int, IsFiniteSet(Gens),
         \A x \in Gens : f[x] \in Int, h[g] = f[g] + d,
         \A x \in Gens \ {g} : h[x] = f[x]
  PROVE  SumFunctionOnSet(h, Gens) = SumFunctionOnSet(f, Gens) + d
<1>1. \A x \in Gens : f[x] \in Int /\ h[x] \in Int
  OBVIOUS
<1> QED
  BY Zenon, <1>1, SumMore

LEMMA SentInit == Init => SentInv /\ ElapsedInv
<1> SUFFICES ASSUME Init PROVE SentInv /\ ElapsedInv
  OBVIOUS
<1>1. IsFiniteSet(Gens) /\ Cardinality(Gens) \in Nat
  BY GensAssumption, FS_CardinalityType
<1>2. \A g \in Gens : sends[g] = 0 /\ Kept[g] = 0 /\ since[g] = 0 /\ Spent[g] = 0
  BY DEF Init, Kept, Spent, NoFigures
<1>3. SumFunctionOnSet(sends, Gens) = 0 * Cardinality(Gens)
  BY <1>1, <1>2, SumConstant
<1>4. SumFunctionOnSet(Kept, Gens) = 0 * Cardinality(Gens)
  BY <1>1, <1>2, SumConstant
<1>5. SumFunctionOnSet(since, Gens) = 0 * Cardinality(Gens)
  BY <1>1, <1>2, SumConstant
<1>6. SumFunctionOnSet(Spent, Gens) = 0 * Cardinality(Gens)
  BY <1>1, <1>2, SumConstant
<1>7. totals.sent = 0 /\ summary.sent = 0 /\ summary.elapsed = 0
  BY DEF Init, NoTotals, NoFigures
<1> QED
  BY <1>1, <1>3, <1>4, <1>5, <1>6, <1>7 DEF SentInv, ElapsedInv

\* What the collector adds to its figures is what the report brings.
LEMMA CollectorAdds ==
  ASSUME TypeOK, NEW g \in Gens, Report(g)
  PROVE  /\ totals'.sent + summary'.sent = totals.sent + summary.sent + report[g].sent
         /\ summary'.elapsed = summary.elapsed + report[g].elapsed
<1> DEFINE sum == Aggregated(summary, report[g])
<1>1. /\ sum \in Figures /\ sum.sent = summary.sent + report[g].sent
      /\ sum.elapsed = summary.elapsed + report[g].elapsed
      /\ summary.sent \in Nat /\ report[g].sent \in Nat /\ totals.sent \in Nat
  BY AggregatedFields DEF TypeOK, Figures
<1>2. CASE GoesOn(g)
  <2>1. summary' = sum /\ totals' = totals
    BY <1>2 DEF GoesOn
  <2> HIDE DEF sum
  <2> QED
    BY <1>1, <2>1
<1>3. CASE Completes(g)
  <2>1. summary' = AfterLog(sum) /\ totals' = TotalsAfter(totals, sum)
    BY <1>3 DEF Completes
  <2>2. totals \in TotalFigures
    BY DEF TypeOK, TotalFigures
  <2> HIDE DEF sum
  <2>3. totals'.sent = totals.sent + sum.sent
    BY <1>1, <2>1, <2>2, TotalsFields
  <2>4. summary'.sent = 0 /\ summary'.elapsed = sum.elapsed
    BY <1>1, <2>1, AfterLogFields
  <2> QED
    BY <1>1, <2>3, <2>4
<1> QED
  BY <1>2, <1>3, ReportCases

\* A step other than a query, a load and a report changes none of these.
LEMMA BooksKept ==
  ASSUME TypeOK, [Next]_vars,
         \A g \in Gens : ~Send(g) /\ ~Load(g) /\ ~Report(g)
  PROVE  UNCHANGED <<sends, totals, summary, since, Kept, Spent>>
<1>1. UNCHANGED <<sends, totals, summary, since, report>>
  BY DEF Next, Tick, Refill, Expire, Recv, vars
<1>2. \A g \in Gens : tracker'[g].sent = tracker[g].sent
  BY TrackerSteps
<1> QED
  BY <1>1, <1>2 DEF Kept, Spent

LEMMA SentStep == TypeOK /\ LoadInv /\ SentInv /\ [Next]_vars => SentInv'
<1> SUFFICES ASSUME TypeOK, LoadInv, SentInv, [Next]_vars PROVE SentInv'
  OBVIOUS
<1> DEFINE books == SumFunctionOnSet(Kept, Gens)
           all == SumFunctionOnSet(sends, Gens)
<1>1. /\ workers' = workers /\ IsFiniteSet(Gens) /\ books \in Int /\ all \in Int
      /\ totals.sent \in Nat /\ summary.sent \in Nat
      /\ \A g \in Gens : sends[g] \in Int /\ Kept[g] \in Int
      /\ totals.sent + summary.sent + books <= all
      /\ workers = 1 => totals.sent + summary.sent + books = all
  BY WorkersKept, SentTypes DEF SentInv
<1>2. ASSUME NEW g \in Gens, Send(g) PROVE SentInv'
  <2>1. totals' = totals /\ summary' = summary
    BY <1>2 DEF Send
  <2>2. sends'[g] = sends[g] + 1 /\ \A h \in Gens \ {g} : sends'[h] = sends[h]
    BY <1>2 DEF Send, TypeOK
  <2>3. Kept'[g] = Kept[g] + 1 /\ \A h \in Gens \ {g} : Kept'[h] = Kept[h]
    <3>1. \A h \in Gens \ {g} : tracker'[h] = tracker[h]
      BY <1>2 DEF Send, TypeOK
    <3>2. tracker'[g] = [tracker[g] EXCEPT !.sent = @ + 1]
      BY <1>2 DEF Send, TypeOK
    <3>3. tracker'[g].sent = tracker[g].sent + 1
      BY <3>2, CountedFields DEF TypeOK
    <3> QED
      BY <3>1, <3>3 DEF Kept
  <2>4. all' = all + 1
    BY <1>1, <2>2, SumChanges
  <2>5. books' = books + 1
    <3>1. /\ 1 \in Int /\ Kept'[g] = Kept[g] + 1
          /\ \A x \in Gens : Kept[x] \in Int /\ Kept'[x] \in Int
      BY <1>1, <2>3
    <3> QED
      BY Zenon, <1>1, <2>3, <3>1, SumMore
  <2> QED
    BY <1>1, <2>1, <2>4, <2>5 DEF SentInv
<1>3. ASSUME NEW g \in Gens, Load(g) PROVE SentInv'
  <2>1. UNCHANGED <<totals, summary, sends>>
    BY <1>3 DEF Load
  <2>2. \A h \in Gens : tracker'[h].sent = tracker[h].sent
    BY <1>3, LoadedFields DEF Load, TypeOK
  <2>3. Kept' = Kept
    BY <2>2 DEF Kept
  <2> QED
    BY <1>1, <2>1, <2>3 DEF SentInv
<1>4. ASSUME NEW g \in Gens, Report(g) PROVE SentInv'
  <2>1. /\ sends' = sends /\ timer[g] = "loading"
        /\ \A h \in Gens \ {g} : tracker'[h] = tracker[h]
        /\ tracker'[g] = Reset(tracker[g])
    BY <1>4, ReportCases DEF TypeOK
  <2>2. /\ report[g].sent \in Nat /\ report[g].sent <= Kept[g]
        /\ workers = 1 => report[g].sent = Kept[g]
    BY <2>1 DEF LoadInv, TypeOK, Figures, Kept
  <2>3. Kept'[g] = 0 /\ \A h \in Gens \ {g} : Kept'[h] = Kept[h]
    BY <2>1, LoadedFields DEF Kept, TypeOK
  <2>4. books' = books + (0 - Kept[g])
    <3> DEFINE d == 0 - Kept[g]
    <3>1. /\ d \in Int /\ Kept'[g] = Kept[g] + d
          /\ \A x \in Gens : Kept[x] \in Int /\ Kept'[x] \in Int
      BY <1>1, <2>3
    <3> HIDE DEF d
    <3>2. books' = books + d
      BY Zenon, <1>1, <2>3, <3>1, SumMore
    <3> QED
      BY <3>2 DEF d
  <2>5. totals'.sent + summary'.sent = totals.sent + summary.sent + report[g].sent
    BY <1>4, CollectorAdds
  <2>6. Kept[g] \in Int
    BY <1>1
  <2> HIDE DEF books, all
  <2>7. all' = all
    BY <2>1 DEF all
  <2>8. /\ (totals'.sent + summary'.sent) + books' <= all'
        /\ workers' = 1 => (totals'.sent + summary'.sent) + books' = all'
    BY <1>1, <2>2, <2>4, <2>5, <2>6, <2>7
  <2> QED
    BY <2>8 DEF SentInv, books, all
<1>5. CASE \A g \in Gens : ~Send(g) /\ ~Load(g) /\ ~Report(g)
  BY <1>1, <1>5, BooksKept DEF SentInv
<1> QED
  BY <1>2, <1>3, <1>4, <1>5

LEMMA ElapsedStep == TypeOK /\ LoadInv /\ ElapsedInv /\ [Next]_vars => ElapsedInv'
<1> SUFFICES ASSUME TypeOK, LoadInv, ElapsedInv, [Next]_vars PROVE ElapsedInv'
  OBVIOUS
<1> DEFINE mine == SumFunctionOnSet(Spent, Gens)
           all == SumFunctionOnSet(since, Gens)
<1>1. /\ IsFiniteSet(Gens) /\ mine \in Int /\ all \in Int /\ summary.elapsed \in Nat
      /\ \A g \in Gens : since[g] \in Int /\ Spent[g] \in Int
      /\ summary.elapsed + mine = all
  BY SentTypes DEF ElapsedInv
<1>2. ASSUME NEW g \in Gens, Send(g) PROVE ElapsedInv'
  <2>1. UNCHANGED <<summary, report, since>>
    BY <1>2 DEF Send
  <2> QED
    BY <2>1 DEF ElapsedInv, Spent
<1>3. ASSUME NEW g \in Gens, Load(g) PROVE ElapsedInv'
  <2> DEFINE d == now - since[g]
  <2>1. d \in Nat /\ tracker[g] \in Figures
    BY BoundsAssumption DEF TypeOK
  <2>2. /\ summary' = summary
        /\ since'[g] = now /\ \A h \in Gens \ {g} : since'[h] = since[h]
        /\ report'[g] = [tracker[g] EXCEPT !.elapsed = d]
        /\ \A h \in Gens \ {g} : report'[h] = report[h]
        /\ timer[g] # "loading"
    BY <1>3 DEF Load, TypeOK
  <2>3. since'[g] = since[g] + d
    BY <1>1, <2>2 DEF TypeOK
  <2> HIDE DEF d
  <2>4. Spent[g] = 0
    BY <2>2 DEF LoadInv, Spent
  <2>5. Spent'[g] = Spent[g] + d /\ \A h \in Gens \ {g} : Spent'[h] = Spent[h]
    <3>1. [tracker[g] EXCEPT !.elapsed = d].elapsed = d
      BY <2>1, LoadedFields
    <3>2. report'[g].elapsed = d
      BY <2>2, <3>1
    <3>3. Spent'[g] = d
      BY <3>2 DEF Spent
    <3>4. \A h \in Gens \ {g} : Spent'[h] = Spent[h]
      BY <2>2 DEF Spent
    <3> QED
      BY <2>1, <2>4, <3>3, <3>4
  <2>6. all' = all + d
    <3>1. d \in Int /\ \A x \in Gens : since[x] \in Int /\ since'[x] \in Int
      BY <1>1, <2>1, <2>2, <2>3
    <3>2. \A h \in Gens \ {g} : since'[h] = since[h]
      BY <2>2
    <3> QED
      BY Zenon, <1>1, <2>3, <3>1, <3>2, SumMore
  <2>7. mine' = mine + d
    <3>1. d \in Int /\ \A x \in Gens : Spent[x] \in Int /\ Spent'[x] \in Int
      BY <1>1, <2>1, <2>5
    <3> QED
      BY Zenon, <1>1, <2>5, <3>1, SumMore
  <2> QED
    BY <1>1, <2>1, <2>2, <2>6, <2>7 DEF ElapsedInv
<1>4. ASSUME NEW g \in Gens, Report(g) PROVE ElapsedInv'
  <2>1. /\ since' = since /\ report'[g] = NoFigures
        /\ \A h \in Gens \ {g} : report'[h] = report[h]
    BY <1>4, ReportCases DEF TypeOK
  <2>2. Spent'[g] = 0 /\ \A h \in Gens \ {g} : Spent'[h] = Spent[h]
    BY <2>1 DEF Spent, NoFigures
  <2>3. summary'.elapsed = summary.elapsed + Spent[g]
    BY <1>4, CollectorAdds DEF Spent
  <2>4. mine' = mine + (0 - Spent[g])
    <3> DEFINE d == 0 - Spent[g]
    <3>1. /\ d \in Int /\ Spent'[g] = Spent[g] + d
          /\ \A x \in Gens : Spent[x] \in Int /\ Spent'[x] \in Int
      BY <1>1, <2>2
    <3> HIDE DEF d
    <3>2. mine' = mine + d
      BY Zenon, <1>1, <2>2, <3>1, SumMore
    <3> QED
      BY <3>2 DEF d
  <2>5. Spent[g] \in Int
    BY <1>1
  <2> QED
    BY <1>1, <2>1, <2>3, <2>4, <2>5 DEF ElapsedInv
<1>5. CASE \A g \in Gens : ~Send(g) /\ ~Load(g) /\ ~Report(g)
  BY <1>5, BooksKept DEF ElapsedInv
<1> QED
  BY <1>2, <1>3, <1>4, <1>5

LEMMA SentInvariance == Spec => [](TypeOK /\ LoadInv /\ SentInv /\ ElapsedInv)
BY TypeInit, TypeStep, LoadInit, LoadStep, SentInit, SentStep, ElapsedStep, PTL
DEF Spec

LEMMA TotalsImply == TypeOK /\ FigureInv /\ SentInv /\ ElapsedInv => TotalsExact
<1> SUFFICES ASSUME TypeOK, FigureInv, SentInv, ElapsedInv PROVE TotalsExact
  OBVIOUS
<1>1. totals \in TotalFigures /\ told \in Counts /\ Counted(totals, told)
  BY DEF TypeOK, TotalFigures, FigureInv
<1>2. totals.min \in Nat /\ totals.max \in Nat /\ totals.rcodes \in [Rcodes -> Nat]
  BY <1>1 DEF TotalFigures
<1>3. totals.min = Least(told) /\ totals.max = Greatest(told)
  BY <1>1, <1>2, LeastIs, GreatestIs DEF Counted
<1>4. totals.rcodes = RcodeCounts(told) /\ totals.ok = Total(told)
  BY <1>1, <1>2, AsWeights DEF Counted
<1>5. /\ SumFunction(sends) = SumFunctionOnSet(sends, Gens)
      /\ SumFunction(since) = SumFunctionOnSet(since, Gens)
      /\ SumFunction([g \in Gens |-> tracker[g].sent]) = SumFunctionOnSet(Kept, Gens)
      /\ SumFunction([g \in Gens |-> report[g].elapsed]) = SumFunctionOnSet(Spent, Gens)
  BY DEF SumFunction, TypeOK, Kept, Spent
<1> QED
  BY <1>3, <1>4, <1>5 DEF TotalsExact, CountedSends, SentInv, ElapsedInv

\* The totals are about every reply of every logged batch.  On one thread every
\* query is counted once on its way from a tracker to the batch and from the
\* batch to the totals, each of them reset behind it; on any number of threads
\* none is counted twice, whatever comes between a load and its reset.  The
\* elapsed time goes through those resets untouched (stats.rs,
\* StatsTracker::interval, StatsInterval::reset and log, StatsTotals::update).
THEOREM TotalsAddUp == Spec => []TotalsExact
BY FigureInvariance, SentInvariance, TotalsImply, PTL

-----------------------------------------------------------------------------
(* The average size *)

\* A value between the sizes of two of the replies.
Between(v, a) ==
  \E p, q \in Seen(a) : p.size <= v /\ v <= q.size

LEMMA DivBetween ==
  ASSUME NEW k \in Nat \ {0}, NEW lo \in Nat, NEW hi \in Nat, NEW y \in Nat,
         lo * k <= y, y <= hi * k
  PROVE  lo <= y \div k /\ y \div k <= hi
OBVIOUS

\* The mean of a batch lies between its smallest and its largest reply, and there
\* is one exactly when the guard of MovingAvg::next says so.
LEMMA MeanBetween ==
  ASSUME NEW f \in Figures, NEW a \in Counts, FiguresOf(f, a)
  PROVE  /\ Seen(a) = {} => f.ok = 0
         /\ Seen(a) # {} => /\ f.ok # 0 /\ f.bytes # 0
                            /\ Between(f.bytes \div f.ok, a)
<1>1. Seen(a) = {} => f.ok = 0
  <2> SUFFICES ASSUME Seen(a) = {} PROVE f.ok = 0
    OBVIOUS
  <2>1. a = NoReplies
    BY DEF Seen, NoReplies, Counts
  <2>2. Weight(NoReplies, Replies, One) = 0
    BY WeightNone, WeightTypes
  <2> QED
    BY <2>1, <2>2 DEF FiguresOf, Counted
<1>2. ASSUME Seen(a) # {}
      PROVE  f.ok # 0 /\ f.bytes # 0 /\ Between(f.bytes \div f.ok, a)
  <2> DEFINE sizes == {r.size : r \in Seen(a)}
             units == [r \in Replies |-> a[r] * One[r]]
             bytes == [r \in Replies |-> a[r] * SizeOf[r]]
  <2>1. IsFiniteSet(sizes) /\ sizes \subseteq Int /\ sizes # {}
    <3>1. Seen(a) \in SUBSET Replies
      BY SeenType
    <3>2. IsFiniteSet(sizes) /\ sizes \subseteq Nat
      BY <3>1, ImagesFinite
    <3>3. sizes # {}
      BY <1>2
    <3> QED
      BY <3>2, <3>3
  <2>2. PICK p \in Seen(a) : \A r \in Seen(a) : p.size <= r.size
    <3> HIDE DEF sizes
    <3>1. Min(sizes) \in sizes /\ \A x \in sizes : Min(sizes) <= x
      BY <2>1, Extremes
    <3> QED
      BY <3>1 DEF sizes
  <2>3. PICK q \in Seen(a) : \A r \in Seen(a) : r.size <= q.size
    <3> HIDE DEF sizes
    <3>1. Max(sizes) \in sizes /\ \A x \in sizes : x <= Max(sizes)
      BY <2>1, Extremes
    <3> QED
      BY <3>1 DEF sizes
  <2> DEFINE lo == p.size
             hi == q.size
             least == [r \in Replies |-> lo * units[r]]
             greatest == [r \in Replies |-> hi * units[r]]
  <2>4. p \in Replies /\ q \in Replies /\ lo \in Nat \ {0} /\ hi \in Nat
    BY SeenType, ReplyFields
  <2>5. ASSUME NEW r \in Replies
        PROVE  /\ units[r] \in Int /\ units[r] >= 0 /\ bytes[r] \in Int
               /\ least[r] \in Int /\ greatest[r] \in Int
               /\ least[r] <= bytes[r] /\ bytes[r] <= greatest[r]
    <3>1. a[r] \in Nat /\ r.size \in Nat /\ units[r] = a[r] /\ bytes[r] = a[r] * r.size
      BY ReplyFields DEF Counts, One, SizeOf
    <3>2. least[r] = lo * a[r] /\ greatest[r] = hi * a[r]
      BY <3>1
    <3>3. CASE a[r] = 0
      BY <2>4, <3>1, <3>2, <3>3
    <3>4. CASE a[r] > 0
      <4>1. lo <= r.size /\ r.size <= hi
        BY <2>2, <2>3, <3>4 DEF Seen
      <4> HIDE DEF lo, hi, least, greatest, units, bytes
      <4>2. lo * a[r] <= r.size * a[r] /\ r.size * a[r] <= hi * a[r]
        BY <2>4, <3>1, <4>1
      <4> QED
        BY <2>4, <3>1, <3>2, <4>2
    <3> QED
      BY <3>1, <3>3, <3>4
  <2>6. units[p] >= 1
    BY <2>4 DEF Seen, One, Counts
  <2>7. /\ f.ok = SumFunctionOnSet(units, Replies)
        /\ f.bytes = SumFunctionOnSet(bytes, Replies)
    BY DEF FiguresOf, Counted, Weight
  <2>8. /\ \A r \in Replies : least[r] = lo * units[r]
        /\ \A r \in Replies : greatest[r] = hi * units[r]
    OBVIOUS
  <2> HIDE DEF units, bytes, least, greatest, lo, hi
  <2>9. IsFiniteSet(Replies)
    BY RepliesAssumption
  <2>10. SumFunctionOnSet(least, Replies) = lo * SumFunctionOnSet(units, Replies)
    BY <2>4, <2>5, <2>8, <2>9, SumScale
  <2>11. SumFunctionOnSet(greatest, Replies) = hi * SumFunctionOnSet(units, Replies)
    BY <2>4, <2>5, <2>8, <2>9, SumScale
  <2>12. SumFunctionOnSet(least, Replies) <= SumFunctionOnSet(bytes, Replies)
    BY <2>5, <2>9, SumMonotone
  <2>13. SumFunctionOnSet(bytes, Replies) <= SumFunctionOnSet(greatest, Replies)
    BY <2>5, <2>9, SumMonotone
  <2>14. SumFunctionOnSet(units, Replies) >= 1
    <3>1. SumFunctionOnSet(units, Replies)
            = units[p] + SumFunctionOnSet(units, Replies \ {p})
      BY <2>4, <2>5, <2>9, SumRemove
    <3>2. /\ SumFunctionOnSet(units, Replies \ {p}) \in Int
          /\ SumFunctionOnSet(units, Replies \ {p}) >= 0
      BY <2>5, PartsFinite, SumType
    <3>3. units[p] \in Int
      BY <2>4, <2>5
    <3> QED
      BY <2>6, <3>1, <3>2, <3>3
  <2>15. /\ f.ok \in Nat \ {0} /\ f.bytes \in Nat
         /\ lo * f.ok <= f.bytes /\ f.bytes <= hi * f.ok
    BY <2>7, <2>10, <2>11, <2>12, <2>13, <2>14 DEF Figures
  <2>16. f.bytes # 0
    <3>1. lo * f.ok >= 1
      BY <2>4, <2>15
    <3>2. lo * f.ok \in Nat
      BY <2>4, <2>15
    <3> QED
      BY <2>15, <3>1, <3>2
  <2>17. lo <= f.bytes \div f.ok /\ f.bytes \div f.ok <= hi
    BY <2>4, <2>15, DivBetween
  <2> QED
    BY <2>15, <2>16, <2>17 DEF Between, lo, hi
<1> QED
  BY <1>1, <1>2

\* The average so far is between two replies of the totals, and was never begun
\* if they have none.
AvgInv ==
  IF Seen(told) = {} THEN totals.avg.interval = 0
                     ELSE Between(totals.avg.val, told)

LEMMA AvgInit == Init => AvgInv
BY DEF Init, AvgInv, Seen, NoReplies, NoTotals

LEMMA NextBetween ==
  ASSUME NEW avg \in [val : Nat, interval : Nat], NEW x \in Nat,
         NEW lo \in Nat, NEW hi \in Nat, lo <= x, x <= hi,
         avg.interval = 0 \/ (lo <= avg.val /\ avg.val <= hi)
  PROVE  lo <= NextAvg(avg, x).val /\ NextAvg(avg, x).val <= hi
<1> DEFINE n == avg.interval
           v == avg.val
           y == v * n + x
<1>1. n \in Nat /\ v \in Nat /\ y \in Nat /\ n + 1 \in Nat \ {0}
  OBVIOUS
<1>2. NextAvg(avg, x).val = y \div (n + 1)
  BY NextAvgType
<1>3. n = 0 \/ (lo <= v /\ v <= hi)
  OBVIOUS
<1> HIDE DEF n, v
<1>4. lo * n <= v * n /\ v * n <= hi * n
  <2>1. CASE n = 0
    BY <1>1, <2>1
  <2>2. CASE n # 0
    BY <1>1, <1>3, <2>2
  <2> QED
    BY <2>1, <2>2
<1>5. lo * (n + 1) = lo * n + lo /\ hi * (n + 1) = hi * n + hi
  BY <1>1
<1>6. lo * n \in Nat /\ hi * n \in Nat /\ v * n \in Nat
  BY <1>1
<1>7. lo * (n + 1) <= y /\ y <= hi * (n + 1)
  BY <1>4, <1>5, <1>6
<1> HIDE DEF y
<1> QED
  BY <1>1, <1>2, <1>7, DivBetween

LEMMA AvgStep == TypeOK /\ FigureInv /\ AvgInv /\ [Next]_vars => AvgInv'
<1> SUFFICES ASSUME TypeOK, FigureInv, AvgInv, [Next]_vars PROVE AvgInv'
  OBVIOUS
<1>1. CASE UNCHANGED <<totals, told>>
  BY <1>1 DEF AvgInv
<1>2. ASSUME NEW g \in Gens, Report(g), Completes(g) PROVE AvgInv'
  <2> DEFINE f == Aggregated(summary, report[g])
             b == Joined(batch, carried[g])
             x == f.bytes \div f.ok
  <2>1. f \in Figures /\ b \in Counts /\ FiguresOf(f, b)
    BY AggregatedFields, JoinedType, AggregatedOf DEF TypeOK, FigureInv
  <2>2. totals \in TotalFigures /\ told \in Counts
    BY DEF TypeOK, TotalFigures
  <2>3. totals' = TotalsAfter(totals, f) /\ told' = Joined(told, b)
    BY <1>2 DEF Completes
  <2> HIDE DEF f, b
  <2>4. Seen(told') = Seen(told) \cup Seen(b)
    <3>1. \A r \in Replies : told[r] \in Nat /\ b[r] \in Nat
      BY <2>1, <2>2 DEF Counts
    <3> QED
      BY <2>3, <3>1 DEF Seen, Joined
  <2>5. totals'.avg = IF f.bytes # 0 /\ f.ok # 0 THEN NextAvg(totals.avg, x)
                                                 ELSE totals.avg
    BY <2>1, <2>2, <2>3, TotalsFields
  <2>6. CASE Seen(b) = {}
    <3>1. f.ok = 0
      BY <2>1, <2>6, MeanBetween
    <3>2. totals'.avg = totals.avg
      BY <2>5, <3>1
    <3>3. Seen(told') = Seen(told)
      BY <2>4, <2>6
    <3> QED
      BY <3>2, <3>3 DEF AvgInv, Between
  <2>7. CASE Seen(b) # {}
    <3>1. f.ok # 0 /\ f.bytes # 0 /\ Between(x, b)
      BY <2>1, <2>7, MeanBetween
    <3>2. totals'.avg = NextAvg(totals.avg, x)
      BY <2>5, <3>1
    <3>3. totals.avg \in [val : Nat, interval : Nat] /\ x \in Nat
      <4>1. f.bytes \in Nat /\ f.ok \in Nat \ {0}
        BY <2>1, <3>1 DEF Figures
      <4> QED
        BY <2>2, <4>1 DEF TotalFigures
    <3>4. PICK p \in Seen(b), q \in Seen(b) : p.size <= x /\ x <= q.size
      BY <3>1 DEF Between
    <3>5. \A r \in Seen(told) \cup Seen(b) : r.size \in Nat
      BY SeenType, ReplyFields
    <3> HIDE DEF x
    <3>6. CASE Seen(told) = {}
      <4>1. totals.avg.interval = 0
        BY <3>6 DEF AvgInv
      <4>2. p.size <= totals'.avg.val /\ totals'.avg.val <= q.size
        BY <3>2, <3>3, <3>4, <3>5, <4>1, NextBetween
      <4> QED
        BY <2>4, <2>7, <4>2 DEF AvgInv, Between
    <3>7. CASE Seen(told) # {}
      <4>1. PICK s \in Seen(told), t \in Seen(told) :
              s.size <= totals.avg.val /\ totals.avg.val <= t.size
        BY <3>7 DEF AvgInv, Between
      <4>2. totals.avg.val \in Nat
        BY <3>3
      <4>3. PICK l \in {p, s} : l.size <= x /\ l.size <= totals.avg.val
        <5>1. CASE p.size <= s.size
          BY <3>3, <3>4, <3>5, <4>1, <4>2, <5>1
        <5>2. CASE s.size <= p.size
          BY <3>3, <3>4, <3>5, <4>1, <4>2, <5>2
        <5> QED
          BY <3>5, <5>1, <5>2
      <4>4. PICK h \in {q, t} : x <= h.size /\ totals.avg.val <= h.size
        <5>1. CASE q.size <= t.size
          BY <3>3, <3>4, <3>5, <4>1, <4>2, <5>1
        <5>2. CASE t.size <= q.size
          BY <3>3, <3>4, <3>5, <4>1, <4>2, <5>2
        <5> QED
          BY <3>5, <5>1, <5>2
      <4>5. l \in Seen(told') /\ h \in Seen(told') /\ l.size \in Nat /\ h.size \in Nat
        BY <2>4, <3>5
      <4>6. l.size <= totals'.avg.val /\ totals'.avg.val <= h.size
        BY <3>2, <3>3, <4>3, <4>4, <4>5, NextBetween
      <4> QED
        BY <4>5, <4>6 DEF AvgInv, Between
    <3> QED
      BY <3>6, <3>7
  <2> QED
    BY <2>6, <2>7
<1>3. UNCHANGED <<totals, told>> \/ \E g \in Gens : Report(g) /\ Completes(g)
  <2>1. ASSUME NEW g \in Gens, Report(g)
        PROVE  UNCHANGED <<totals, told>> \/ Completes(g)
    BY <2>1, ReportCases DEF GoesOn
  <2> QED
    BY <2>1 DEF Next, Tick, Refill, Send, Expire, Recv, Load, vars
<1> QED
  BY <1>1, <1>2, <1>3

LEMMA AvgImplies == TypeOK /\ AvgInv => AvgWithin
<1> SUFFICES ASSUME TypeOK, AvgInv, Seen(told) # {}
             PROVE  LET sizes == {r.size : r \in Seen(told)}
                    IN  totals.avg.val \in Min(sizes)..Max(sizes)
  BY DEF AvgWithin
<1> DEFINE sizes == {r.size : r \in Seen(told)}
           v == totals.avg.val
<1>1. IsFiniteSet(sizes) /\ sizes \subseteq Int /\ sizes # {}
  <2>1. Seen(told) \in SUBSET Replies
    BY SeenType
  <2>2. IsFiniteSet(sizes) /\ sizes \subseteq Nat
    BY <2>1, ImagesFinite
  <2>3. sizes # {}
    OBVIOUS
  <2> QED
    BY <2>2, <2>3
<1>2. PICK l \in sizes, h \in sizes : l <= v /\ v <= h
  BY DEF AvgInv, Between
<1>3. v \in Int
  BY DEF TypeOK
<1> HIDE DEF sizes, v
<1>4. /\ Min(sizes) \in sizes /\ \A x \in sizes : Min(sizes) <= x
      /\ Max(sizes) \in sizes /\ \A x \in sizes : x <= Max(sizes)
  BY <1>1, Extremes
<1>5. Min(sizes) \in Int /\ Max(sizes) \in Int /\ l \in Int /\ h \in Int
  BY <1>1, <1>4
<1>6. v \in Min(sizes)..Max(sizes)
  BY <1>2, <1>3, <1>4, <1>5
<1> QED
  BY <1>6 DEF sizes, v

\* However many batches it has averaged, and however often its division has
\* truncated, the average size stays between the smallest and the largest reply
\* (util.rs, MovingAvg::next, and the guard of its call in StatsTotals::update).
THEOREM AverageStaysWithin == Spec => []AvgWithin
BY FigureInvariance, AvgInit, AvgStep, AvgImplies, PTL DEF Spec
=============================================================================
