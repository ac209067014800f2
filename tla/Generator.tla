----------------------------- MODULE Generator -----------------------------
(***************************************************************************)
(* One nailgun generator (bin/src/gen.rs): three tokio tasks that share a  *)
(* Store behind a mutex and two atomic counters.                           *)
(*                                                                         *)
(*   - the sender task (bin/src/sender.rs) takes batches of free DNS ids   *)
(*     from the pool, records each as in flight, and sends it;             *)
(*   - the generator task selects among replies, a one second report timer *)
(*     and the stop condition, and drains what is in flight before it      *)
(*     returns;                                                            *)
(*   - the cleanup task returns the ids of timed out queries to the pool.  *)
(*                                                                         *)
(* A step of this module is what a task does between two points at which   *)
(* another task may see or change something it uses: an await, an atomic   *)
(* access, or the release of the store's mutex.                            *)
(*                                                                         *)
(* A definition named D_Word, just before D, is D as a plausible bug would *)
(* have it: it replaces D to see that a property depends on it.            *)
(***************************************************************************)
EXTENDS Integers, Sequences, FiniteSets, Functions

CONSTANTS
  PoolIds,     \* the ids Store::new puts in the pool (0..65534 in the code)
  StrangerIds, \* ids a frame may carry that the pool never held (65535)
  Configs,     \* the configurations a run considers
  BatchSize,   \* Config::batch_size
  MaxQueries,  \* bound: queries issued in a behaviour
  MaxFrames    \* bound: frames that reach the socket in a behaviour

ASSUME PoolAssumption ==
  /\ IsFiniteSet(PoolIds)
  /\ IsFiniteSet(StrangerIds)
  /\ PoolIds \cap StrangerIds = {}

ASSUME ConfigAssumption ==
  Configs \subseteq [timeout  : Nat,
                     protocol : {"udp", "tcp", "doh"},
                     limited  : BOOLEAN,          \* is there a rate limiter?
                     workers  : Nat \ {0}]        \* threads of the runtime

ASSUME BoundAssumption ==
  /\ BatchSize \in Nat \ {0}
  /\ MaxQueries \in Nat
  /\ MaxFrames \in Nat

VARIABLES
  config,      \* the generator's configuration, chosen once
  ids,         \* Store.ids: the queue of free ids
  in_flight,   \* Store.in_flight: id -> age of the query, capped at the timeout
  sent,        \* AtomicStore.sent
  timed_out,   \* AtomicStore.timed_out
  sender,      \* where the sender task is
  batch,       \* the ids it popped and has not issued yet
  popped,      \* pops made in the current batch
  aborting,    \* abort() reached the sender while it was being polled
  gen,         \* where the generator task is
  closing,     \* the generator took the stop branch of its select
  waited,      \* how long wait_in_flight has waited, capped past the timeout
  ok_recv,     \* StatsTracker.ok_recv
  report,      \* the StatsInterval under construction
  cleanup,     \* the cleanup task
  notified,    \* the shutdown broadcast was sent
  inbox        \* frames in the socket, not yet read: id -> how many

VARIABLES      \* history: what happened, seen by no task
  issued,      \* inserts into in_flight
  sends,       \* queries handed to the transport
  late,        \* those of them handed over after the stop
  answered,    \* queries removed from in_flight by a reply
  forgotten,   \* the rest of its batch that the sender took with it
  expired,     \* queries removed from in_flight by clear_timeouts
  strays,      \* replies whose id was not in flight
  arrivals,    \* frames that reached the socket
  totals       \* sum of the reports sent to the collector

store == <<ids, in_flight>>
counters == <<sent, timed_out>>
senderVars == <<sender, batch, popped, aborting, forgotten>>
genVars == <<gen, closing, waited, ok_recv, report>>
envVars == <<notified, inbox, arrivals>>
history == <<issued, sends, late, answered, expired, strays, totals>>
vars == <<config, store, counters, senderVars, genVars, cleanup, envVars,
          history>>

WireIds == PoolIds \cup StrangerIds

(***************************************************************************)
(* The tasks.  "yield", "next" (only with a rate limiter) and "send" are   *)
(* awaits of the sender; "select", "wait" and "send" those of the          *)
(* generator.  At any other place a task is in the middle of a poll and    *)
(* keeps its worker thread.                                                *)
(***************************************************************************)
SenderDead == {"finished", "aborted"}
SenderMidPoll == \/ sender \in {"popping", "count"}
                 \/ sender = "next" /\ ~config.limited
SenderAwaits(pc) == \/ pc \in {"yield", "send"}
                    \/ pc = "next" /\ config.limited

GenOver == {"done", "ended", "failed"}
GenMidPoll == gen \in {"check", "log", "load_timeouts", "load_sent",
                       "reset_sent", "reset_timeouts"}

MidPoll == {t \in {"sender", "gen"} :
              IF t = "sender" THEN SenderMidPoll ELSE GenMidPoll}

\* A task takes a step if a worker thread is left for it.
Runs(t) == Cardinality(MidPoll \ {t}) < config.workers

\* The store's mutex is held across the pops of a batch, and by
\* wait_in_flight between clear_timeouts and the test of its loop.
LockFree == sender # "popping" /\ gen # "check"

-----------------------------------------------------------------------------
(* The store *)

\* The orders in which a set may be listed: a shuffle, or a hash table's order.
Orders(S) == Bijection(1..Cardinality(S), S)

Removed_Kept(S) == in_flight
Removed(S) == [id \in DOMAIN in_flight \ S |-> in_flight[id]]

Inserted(id) ==
  [i \in DOMAIN in_flight \cup {id} |-> IF i = id THEN 0 ELSE in_flight[i]]

TimedOut_Reversed == {id \in DOMAIN in_flight : in_flight[id] < config.timeout}
TimedOut == {id \in DOMAIN in_flight : in_flight[id] >= config.timeout}

ReturnIds_Lost(S) == UNCHANGED ids
ReturnIds_All(S) == \E order \in Orders(DOMAIN in_flight) : ids' = ids \o order
ReturnIds(S) == \E order \in Orders(S) : ids' = ids \o order

\* Store::clear_timeouts, under the lock.
ClearTimeouts ==
  /\ in_flight' = Removed(TimedOut)
  /\ timed_out' = timed_out + Cardinality(TimedOut)
  /\ expired' = expired + Cardinality(TimedOut)
  /\ ReturnIds(TimedOut)

ResetSent_Missing == UNCHANGED sent
ResetSent == sent' = 0

ResetTimedOut_Missing == UNCHANGED timed_out
ResetTimedOut == timed_out' = 0

-----------------------------------------------------------------------------
(* The sender task *)

\* The sender goes on with the rest of its batch, or drops it as it ends: the
\* ids that it popped are then in no place of the store.
LivesOn(pc, rest) == sender' = pc /\ batch' = rest /\ UNCHANGED forgotten
Dies(pc, rest) == sender' = pc /\ batch' = <<>> /\ forgotten' = rest

SenderGoes_Deaf(pc, rest) == LivesOn(pc, rest)

\* An aborted task that is being polled goes on until an await does not
\* complete at once; yield_now never does.
SenderGoes(pc, rest) ==
  \/ LivesOn(pc, rest) /\ ~(aborting /\ pc = "yield")
  \/ Dies("aborted", rest) /\ aborting /\ SenderAwaits(pc)

\* The task is polled again after yield_now and locks the store.
SenderWake ==
  /\ Runs("sender")
  /\ sender = "yield"
  /\ LockFree
  /\ sender' = "popping"
  /\ batch' = <<>>
  /\ UNCHANGED <<config, store, counters, popped, aborting, forgotten, genVars,
                 cleanup, envVars, history>>

BatchFull_OffByOne == popped > BatchSize
BatchFull == popped = BatchSize

\* One pop_front: an id that is still in flight is dropped from the pool.
SenderPop ==
  /\ Runs("sender")
  /\ sender = "popping"
  /\ ~BatchFull
  /\ ids # <<>>
  /\ ids' = Tail(ids)
  /\ batch' = IF Head(ids) \in DOMAIN in_flight THEN batch
                                                ELSE Append(batch, Head(ids))
  /\ popped' = popped + 1
  /\ UNCHANGED <<config, in_flight, counters, sender, aborting, forgotten,
                 genVars, cleanup, envVars, history>>

\* The batch is complete, or the pool is empty and the other pops find nothing.
SenderPopped ==
  /\ Runs("sender")
  /\ sender = "popping"
  /\ BatchFull \/ ids = <<>>
  /\ popped' = 0
  /\ SenderGoes(IF batch = <<>> THEN "yield" ELSE "next", batch)
  /\ UNCHANGED <<config, store, counters, aborting, genVars, cleanup, envVars,
                 history>>

\* The limiter lets the query pass, a message is built, the id is recorded.
SenderIssue ==
  /\ Runs("sender")
  /\ sender = "next"
  /\ LockFree
  /\ issued < MaxQueries
  /\ in_flight' = Inserted(Head(batch))
  /\ issued' = issued + 1
  /\ SenderGoes("send", Tail(batch))
  /\ UNCHANGED <<config, ids, counters, popped, aborting, genVars, cleanup,
                 envVars, sends, late, answered, expired, strays, totals>>

\* next_msg has no more messages: the task ends and its batch with it.
SenderDry ==
  /\ Runs("sender")
  /\ sender = "next"
  /\ Dies("finished", batch)
  /\ UNCHANGED <<config, store, counters, popped, aborting, genVars, cleanup,
                 envVars, history>>

\* The transport takes the message.
SenderSend ==
  /\ Runs("sender")
  /\ sender = "send"
  /\ sender' = "count"
  /\ sends' = sends + 1
  /\ late' = IF closing THEN late + 1 ELSE late
  /\ UNCHANGED <<config, store, counters, batch, popped, aborting, forgotten,
                 genVars, cleanup, envVars, issued, answered, expired, strays, totals>>

\* The transport refuses it: the task ends, the query stays in flight.
SenderFail ==
  /\ Runs("sender")
  /\ sender = "send"
  /\ Dies("finished", batch)
  /\ UNCHANGED <<config, store, counters, popped, aborting, genVars, cleanup,
                 envVars, history>>

SenderCount ==
  /\ Runs("sender")
  /\ sender = "count"
  /\ sent' = sent + 1
  /\ SenderGoes(IF batch = <<>> THEN "yield" ELSE "next", batch)
  /\ UNCHANGED <<config, store, timed_out, popped, aborting, genVars, cleanup,
                 envVars, history>>

SenderNext == \/ SenderWake \/ SenderPop \/ SenderPopped \/ SenderIssue
              \/ SenderDry \/ SenderSend \/ SenderFail \/ SenderCount

-----------------------------------------------------------------------------
(* The cleanup task *)

CleanupTick ==
  /\ Runs("cleanup")
  /\ cleanup = "live"
  /\ config.timeout > 0
  /\ LockFree
  /\ ClearTimeouts
  /\ UNCHANGED <<config, sent, senderVars, genVars, cleanup, envVars, issued,
                 sends, late, answered, strays, totals>>

\* time::interval refuses a period of zero.
CleanupPanics ==
  /\ Runs("cleanup")
  /\ cleanup = "live"
  /\ config.timeout = 0
  /\ cleanup' = "finished"
  /\ UNCHANGED <<config, store, counters, senderVars, genVars, envVars,
                 history>>

CleanupNext == CleanupTick \/ CleanupPanics

-----------------------------------------------------------------------------
(* The generator task *)

ReadFrame(id) ==
  /\ Runs("gen")
  /\ gen = "select"
  /\ inbox[id] > 0
  /\ inbox' = [inbox EXCEPT ![id] = @ - 1]

\* The id of every readable frame goes back to the pool; if it was in flight
\* the query is answered.
Settle(id) ==
  /\ LockFree
  /\ ids' = Append(ids, id)
  /\ in_flight' = Removed({id})
  /\ strays' = IF id \in DOMAIN in_flight THEN strays ELSE strays + 1

GenRecv(id) ==
  LET known == IF id \in DOMAIN in_flight THEN 1 ELSE 0 IN
  /\ ReadFrame(id)
  /\ Settle(id)
  /\ ok_recv' = ok_recv + known
  /\ answered' = answered + known
  /\ UNCHANGED <<config, counters, senderVars, gen, closing, waited, report,
                 cleanup, notified, arrivals, issued, sends, late, expired,
                 totals>>

\* A frame too short to hold an rcode: the panic comes after the store was
\* updated, and ends the generator task alone.
GenRecvCut(id) ==
  /\ ReadFrame(id)
  /\ id \in DOMAIN in_flight
  /\ Settle(id)
  /\ gen' = "failed"
  /\ answered' = answered + 1
  /\ UNCHANGED <<config, counters, senderVars, closing, waited, ok_recv, report,
                 cleanup, notified, arrivals, issued, sends, late, expired,
                 totals>>

\* A frame too short to hold an id: the panic comes first.
GenRecvStub(id) ==
  /\ ReadFrame(id)
  /\ gen' = "failed"
  /\ UNCHANGED <<config, store, counters, senderVars, closing, waited, ok_recv,
                 report, cleanup, notified, arrivals, history>>

\* The reader yields an error: the frame is gone, and no query is settled.
GenRecvError(id) ==
  /\ ReadFrame(id)
  /\ UNCHANGED <<config, store, counters, senderVars, genVars, cleanup, notified,
                 arrivals, history>>

\* The peer closed the stream: the generator returns at once, and drops the
\* handles of the two other tasks without aborting them.
GenEnds ==
  /\ Runs("gen")
  /\ gen = "select"
  /\ config.protocol # "udp"
  /\ gen' = "ended"
  /\ UNCHANGED <<config, store, counters, senderVars, closing, waited, ok_recv,
                 report, cleanup, envVars, history>>

StopRequested_Deaf == sender = "finished" \/ cleanup = "finished"
StopRequested == notified \/ sender = "finished" \/ cleanup = "finished"

AbortSender_Missing == UNCHANGED <<sender, batch, forgotten, aborting>>

\* abort() cancels a sender that is parked at an await; one that is being
\* polled on another thread is only marked.
AbortSender ==
  \/ /\ sender \in SenderDead
     /\ UNCHANGED <<sender, batch, forgotten, aborting>>
  \/ /\ SenderAwaits(sender)
     /\ Dies("aborted", batch)
     /\ UNCHANGED aborting
  \/ /\ sender \notin SenderDead
     /\ config.workers > 1
     /\ aborting' = TRUE
     /\ UNCHANGED <<sender, batch, forgotten>>

GenStop ==
  /\ Runs("gen")
  /\ gen = "select"
  /\ StopRequested
  /\ AbortSender
  /\ gen' = "wait"
  /\ closing' = TRUE
  /\ UNCHANGED <<config, store, counters, popped, waited, ok_recv, report, cleanup,
                 envVars, history>>

\* wait_in_flight, every 10 ms: clear the timeouts, then test for the end.
GenWaitClear ==
  /\ Runs("gen")
  /\ gen = "wait"
  /\ LockFree
  /\ ClearTimeouts
  /\ gen' = "check"
  /\ UNCHANGED <<config, sent, senderVars, closing, waited, ok_recv, report,
                 cleanup, envVars, issued, sends, late, answered, strays,
                 totals>>

WaitOver_AtOnce == TRUE
WaitOver == DOMAIN in_flight = {} \/ waited > config.timeout

GenWaitCheck ==
  /\ Runs("gen")
  /\ gen = "check"
  /\ gen' = IF WaitOver THEN "log" ELSE "wait"
  /\ UNCHANGED <<config, store, counters, senderVars, closing, waited, ok_recv,
                 report, cleanup, envVars, history>>

InFlightNow_Swapped == Len(ids)
InFlightNow == Cardinality(DOMAIN in_flight)

\* The timer fires, or the final report is due: how many are in flight?
GenLog ==
  /\ Runs("gen")
  /\ gen \in {"select", "log"}
  /\ LockFree
  /\ gen' = "load_timeouts"
  /\ report' = [report EXCEPT !.in_flight = InFlightNow]
  /\ UNCHANGED <<config, store, counters, senderVars, closing, waited, ok_recv,
                 cleanup, envVars, history>>

\* StatsTracker::interval reads the two counters, then resets them.
GenLoadTimeouts ==
  /\ Runs("gen")
  /\ gen = "load_timeouts"
  /\ gen' = "load_sent"
  /\ report' = [report EXCEPT !.timeouts = timed_out]
  /\ UNCHANGED <<config, store, counters, senderVars, closing, waited, ok_recv,
                 cleanup, envVars, history>>

GenLoadSent ==
  /\ Runs("gen")
  /\ gen = "load_sent"
  /\ gen' = "reset_sent"
  /\ report' = [report EXCEPT !.sent = sent, !.ok_recv = ok_recv]
  /\ ok_recv' = 0
  /\ UNCHANGED <<config, store, counters, senderVars, closing, waited, cleanup,
                 envVars, history>>

GenResetSent ==
  /\ Runs("gen")
  /\ gen = "reset_sent"
  /\ gen' = "reset_timeouts"
  /\ ResetSent
  /\ UNCHANGED <<config, store, timed_out, senderVars, closing, waited, ok_recv,
                 report, cleanup, envVars, history>>

GenResetTimeouts ==
  /\ Runs("gen")
  /\ gen = "reset_timeouts"
  /\ gen' = "send"
  /\ ResetTimedOut
  /\ UNCHANGED <<config, store, sent, senderVars, closing, waited, ok_recv,
                 report, cleanup, envVars, history>>

NoReport == [sent |-> 0, timeouts |-> 0, ok_recv |-> 0, in_flight |-> 0]

AfterReport_NoReturn == "select"
AfterReport == IF closing THEN "done" ELSE "select"

\* The collector takes the report; after the last one the generator aborts
\* the cleanup task and returns.
GenSend ==
  /\ Runs("gen")
  /\ gen = "send"
  /\ totals' = [f \in DOMAIN totals |-> totals[f] + report[f]]
  /\ report' = NoReport
  /\ gen' = AfterReport
  /\ cleanup' = IF closing /\ cleanup = "live" THEN "aborted" ELSE cleanup
  /\ UNCHANGED <<config, store, counters, senderVars, closing, waited, ok_recv,
                 envVars, issued, sends, late, answered, expired, strays>>

\* What a readable frame may lead to.
GenReads(id) == \/ GenRecv(id) \/ GenRecvCut(id)
                \/ GenRecvStub(id) \/ GenRecvError(id)

GenNext ==
  \/ \E id \in WireIds : GenReads(id)
  \/ GenEnds \/ GenStop \/ GenWaitClear \/ GenWaitCheck
  \/ GenLog \/ GenLoadTimeouts \/ GenLoadSent
  \/ GenResetSent \/ GenResetTimeouts \/ GenSend

-----------------------------------------------------------------------------
(* The environment: time, the shutdown broadcast, the network *)

Tick ==
  /\ in_flight' = [id \in DOMAIN in_flight |->
                     IF in_flight[id] < config.timeout THEN in_flight[id] + 1
                                                       ELSE in_flight[id]]
  /\ waited' = IF gen \in {"wait", "check"} /\ waited <= config.timeout
                 THEN waited + 1 ELSE waited
  /\ UNCHANGED <<config, ids, counters, senderVars, gen, closing, ok_recv, report,
                 cleanup, envVars, history>>

Notify ==
  /\ ~notified
  /\ notified' = TRUE
  /\ UNCHANGED <<config, store, counters, senderVars, genVars, cleanup, inbox,
                 arrivals, history>>

\* Any frame may arrive: an answer, a late or a second one, or one to a query
\* never made.
Arrive(id) ==
  /\ arrivals < MaxFrames
  /\ inbox' = [inbox EXCEPT ![id] = @ + 1]
  /\ arrivals' = arrivals + 1
  /\ UNCHANGED <<config, store, counters, senderVars, genVars, cleanup, notified,
                 history>>

EnvNext == Tick \/ Notify \/ \E id \in WireIds : Arrive(id)

-----------------------------------------------------------------------------
Init ==
  /\ config \in Configs
  /\ ids \in Orders(PoolIds)
  /\ in_flight = [id \in {} |-> 0]
  /\ sent = 0 /\ timed_out = 0
  /\ sender = "yield" /\ batch = <<>> /\ popped = 0 /\ aborting = FALSE
  /\ forgotten = <<>>
  /\ gen = "select" /\ closing = FALSE /\ waited = 0
  /\ ok_recv = 0
  /\ report = NoReport
  /\ cleanup = "live"
  /\ notified = FALSE
  /\ inbox = [id \in WireIds |-> 0]
  /\ issued = 0 /\ sends = 0 /\ late = 0
  /\ answered = 0 /\ expired = 0 /\ strays = 0 /\ arrivals = 0
  /\ totals = [sent |-> 0, timeouts |-> 0, ok_recv |-> 0]

Next == SenderNext \/ CleanupNext \/ GenNext \/ EnvNext

Spec == Init /\ [][Next]_vars

\* Time passes; a task that can go on is eventually scheduled and gets the
\* mutex (tokio's queues and parking_lot's locks are fair), and select picks
\* among its ready branches at random.  Nothing is assumed of the transport,
\* the rate limiter or the network: a sender may be stuck at an await for ever.
SenderRunsOn == \/ SenderWake \/ SenderPop \/ SenderPopped \/ SenderCount
                \/ (SenderIssue \/ SenderDry) /\ ~config.limited

Fairness ==
  /\ WF_vars(Tick)
  /\ SF_vars(SenderRunsOn)
  /\ SF_vars(CleanupNext)
  /\ SF_vars(GenStop)
  /\ SF_vars(gen # "select" /\ GenNext)
  /\ SF_vars(\E id \in WireIds : GenReads(id))

FairSpec == Spec /\ Fairness

-----------------------------------------------------------------------------
(* Properties *)

ReportType == [sent : Nat, timeouts : Nat, ok_recv : Nat, in_flight : Nat]

StoreType ==
  /\ ids \in Seq(WireIds)
  /\ DOMAIN in_flight \subseteq WireIds
  /\ in_flight \in [DOMAIN in_flight -> 0..config.timeout]
  /\ sent \in Nat /\ timed_out \in Nat
  /\ cleanup \in {"live", "finished", "aborted"}

SenderType ==
  /\ sender \in {"yield", "popping", "next", "send", "count", "finished",
                 "aborted"}
  /\ batch \in Seq(WireIds) /\ forgotten \in Seq(WireIds)
  /\ popped \in 0..BatchSize
  /\ aborting \in BOOLEAN

GenType ==
  /\ gen \in {"select", "wait", "check", "log", "load_timeouts", "load_sent",
              "reset_sent", "reset_timeouts", "send", "done", "ended", "failed"}
  /\ closing \in BOOLEAN
  /\ waited \in 0..(config.timeout + 1)
  /\ ok_recv \in Nat
  /\ report \in ReportType

EnvType ==
  /\ notified \in BOOLEAN
  /\ inbox \in [WireIds -> Nat]
  /\ arrivals \in Nat

HistoryType ==
  /\ issued \in Nat /\ sends \in Nat /\ late \in Nat
  /\ answered \in Nat /\ expired \in Nat /\ strays \in Nat
  /\ totals \in [sent : Nat, timeouts : Nat, ok_recv : Nat]

\* Every variable has its type; the age of a query never exceeds the cap, and
\* a batch has no more pops than its size.
TypeOK ==
  /\ config \in Configs
  /\ StoreType /\ SenderType /\ GenType /\ EnvType /\ HistoryType

\* No id leaks: whatever three tasks do to the pool, an id it was made with is
\* free, or in the sender's batch, or in flight, as long as there is a sender;
\* what leaves the store is the rest of the one batch the sender ended with
\* (store.rs, sender.rs 41-68).
IdsConserved ==
  /\ PoolIds \subseteq Range(ids) \cup Range(batch) \cup Range(forgotten)
                       \cup DOMAIN in_flight
  /\ sender \notin SenderDead => forgotten = <<>>

\* As long as every reply is to a query in flight, no id is in two places or
\* twice in one, so the insert of sender.rs 61 never overwrites a query.
UniqueIds ==
  strays = 0 =>
    /\ IsInjective(ids)
    /\ IsInjective(batch)
    /\ Range(ids) \cap Range(batch) = {}
    /\ Range(ids) \cap DOMAIN in_flight = {}
    /\ Range(batch) \cap DOMAIN in_flight = {}

\* gen.rs 99 pushes the id of every frame, asked for or not: the store grows
\* by at most one id for each frame that answers nothing in flight.
PoolBound ==
  Len(ids) + Len(batch) + Cardinality(DOMAIN in_flight)
    <= Cardinality(PoolIds) + strays

\* Each query ends once: it is answered, or timed out, or still in flight, but
\* for those whose place another query with the same id took (sender.rs 61).  An
\* id gets into the pool while it is in flight only by a reply that answered
\* nothing (gen.rs 99), and each of those costs at most one query.
Overwritten == issued - answered - expired - Cardinality(DOMAIN in_flight)

SettledOnce == Overwritten \in 0..strays

\* What the counters and an unsent report still hold.
UnreportedSent ==
  sent + IF gen = "reset_sent" THEN 0 ELSE report.sent
UnreportedTimeouts ==
  timed_out + IF gen \in {"load_sent", "reset_sent", "reset_timeouts"}
                THEN 0 ELSE report.timeouts
Counted == sends - IF sender = "count" THEN 1 ELSE 0

\* On any number of threads: loading the counters and storing zero to them
\* later (stats.rs 84-103) may lose counts, and never reports one twice.
TotalsNeverOvershoot ==
  /\ totals.sent + UnreportedSent <= Counted
  /\ totals.timeouts + UnreportedTimeouts <= expired

\* On one thread nothing is lost: the reports, with what is not yet reported,
\* are what happened, and the last one leaves no query sent and no reply out.
ReportsExact ==
  config.workers = 1 =>
    /\ totals.sent + UnreportedSent = Counted
    /\ totals.timeouts + UnreportedTimeouts = expired
    /\ gen # "failed" =>
         totals.ok_recv + ok_recv + report.ok_recv = answered
    /\ gen = "done" => totals.sent = sends /\ totals.ok_recv = answered

\* On one thread a report adds up with those before it: every query sent is
\* answered, timed out or in flight, but for the one being sent.
ReportAddsUp ==
  config.workers = 1 /\ strays = 0 /\ gen = "send" =>
    totals.ok_recv + report.ok_recv + totals.timeouts + report.timeouts
      + report.in_flight - (totals.sent + report.sent) \in {0, 1}

\* abort() (gen.rs 131) silences the sender: at once on one thread; on several
\* threads a sender caught in the middle of a poll finishes at most one batch.
LateSendsBounded ==
  late <= IF config.workers = 1 THEN 0 ELSE BatchSize

\* On one thread the drain waits long enough: once wait_in_flight returns, a
\* query it leaves in flight is one whose timeout has passed.
DrainLeavesExpired ==
  config.workers = 1 /\ closing /\ gen \notin {"wait", "check"} =>
    \A id \in DOMAIN in_flight : in_flight[id] >= config.timeout

\* A shutdown notice ends the generator, however the select picks, whatever
\* is in flight and whether or not the sender is stuck.
StopsOnNotice == notified ~> gen \in GenOver

\* The generator task is over and so is the cleanup task.
Deserted == gen \in GenOver /\ cleanup # "live"

\* A query does not stay in flight: it is answered or timed out, unless the two
\* tasks that clear the store are over.
QueriesSettle ==
  \A id \in WireIds :
    id \in DOMAIN in_flight ~> id \notin DOMAIN in_flight \/ Deserted

\* A sender that finds the pool empty does not starve, with the same exception.
PoolRefills ==
  ids = <<>> /\ sender = "yield"
    ~> ids # <<>> \/ sender \in SenderDead \/ Deserted

\* On any number of threads, with late, doubled and invented replies, the three
\* tasks keep the promise of module Ledger.
L == INSTANCE Ledger WITH
       Ids <- WireIds,
       outstanding <- DOMAIN in_flight,
       clean <- strays = 0,
       handed <- sends,
       told <- [sent |-> totals.sent, timeouts |-> totals.timeouts]

ImplementsLedger == L!Spec

\* The phase module Runner sees: log and the steps of a report are one, before
\* the stop branch or after the drain.
ReportSteps == {"log", "load_timeouts", "load_sent", "reset_sent",
                "reset_timeouts", "send"}

Phase ==
  CASE gen = "select" -> "running"
    [] gen \in ReportSteps /\ ~closing -> "reporting"
    [] gen \in {"wait", "check"} -> "draining"
    [] gen \in ReportSteps /\ closing -> "final"
    [] gen \in {"done", "ended"} -> "over"
    [] gen = "failed" -> "panicked"

Life == INSTANCE Lifecycle WITH
          Tasks <- {"gen"},
          phases <- [t \in {"gen"} |-> Phase]

\* From its select loop on, the generator lives the life that module Runner
\* takes for granted: it leaves a report, and the drain, whatever its sender,
\* its cleanup task and the network do.
ImplementsLifecycle == Life!Spec

\* gen.rs 132, "wait for remaining in flight messages or timeouts": a reply
\* that is in the socket before its query has timed out is read by the drain.
DrainReadsReplies ==
  \A id \in PoolIds :
    /\ gen = "wait" /\ id \in DOMAIN in_flight /\ inbox[id] > 0
    /\ in_flight[id] < config.timeout
    ~> inbox[id] = 0
=============================================================================
