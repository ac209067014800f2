------------------------ MODULE GeneratorReportProofs ------------------------
(***************************************************************************)
(* Theorems about the reports, the stop and the drain of module Generator, *)
(* for every pool, every configuration and every bound.                    *)
(***************************************************************************)
EXTENDS GeneratorProofs

USE DEF store, counters, senderVars, genVars, envVars, history

-----------------------------------------------------------------------------
(* On one thread no task runs while another is in the middle of a poll *)

SingleThread == config.workers = 1

LEMMA RunsAlone ==
  ASSUME SingleThread
  PROVE  /\ Runs("sender") => ~GenMidPoll
         /\ Runs("gen") => ~SenderMidPoll
         /\ Runs("cleanup") => ~GenMidPoll /\ ~SenderMidPoll
<1>1. IsFiniteSet({"sender", "gen"})
  <2>1. IsFiniteSet({"sender"})
    BY FS_Singleton
  <2>2. {"sender", "gen"} = {"sender"} \cup {"gen"}
    OBVIOUS
  <2> QED
    BY <2>1, <2>2, FS_AddElement
<1>2. ASSUME NEW t, NEW u \in {"sender", "gen"}, t # u, Runs(t) PROVE u \notin MidPoll
  <2>1. IsFiniteSet(MidPoll \ {t})
    BY <1>1, FS_Subset DEF MidPoll
  <2>2. Cardinality(MidPoll \ {t}) \in Nat /\ Cardinality(MidPoll \ {t}) < 1
    BY <1>2, <2>1, FS_CardinalityType DEF Runs, SingleThread
  <2>3. MidPoll \ {t} = {}
    BY <2>1, <2>2, FS_EmptySet
  <2> QED
    BY <1>2, <2>3
<1>3. "sender" \in MidPoll <=> SenderMidPoll
  BY DEF MidPoll
<1>4. "gen" \in MidPoll <=> GenMidPoll
  BY DEF MidPoll
<1> QED
  BY <1>2, <1>3, <1>4

LEMMA ConfigKept == [Next]_vars => config' = config
BY DEF Next, SenderNext, SenderWake, SenderPop, SenderPopped, SenderIssue,
       SenderDry, SenderSend, SenderFail, SenderCount, CleanupNext,
       CleanupTick, CleanupPanics, GenNext, GenReads, GenRecv, GenRecvCut,
       GenRecvStub, GenRecvError, GenEnds, GenStop, GenWaitClear,
       GenWaitCheck, GenLog, GenLoadTimeouts, GenLoadSent, GenResetSent,
       GenResetTimeouts, GenSend, EnvNext, Tick, Notify, Arrive, vars

-----------------------------------------------------------------------------
(* The inductive invariants *)

\* A field of the report is zero until the step that loads it, and GenSend
\* clears them all.
ReportFresh ==
  /\ gen \notin {"load_sent", "reset_sent", "reset_timeouts", "send"}
       => report.timeouts = 0
  /\ gen \notin {"reset_sent", "reset_timeouts", "send"}
       => report.sent = 0 /\ report.ok_recv = 0

\* A counter has not lost what was loaded from it and is yet to be reset; on one
\* thread it has not gained anything either.
ResetPending ==
  /\ gen = "reset_sent" =>
       report.sent <= sent /\ (SingleThread => report.sent = sent)
  /\ gen \in {"load_sent", "reset_sent", "reset_timeouts"} =>
       /\ report.timeouts <= timed_out
       /\ SingleThread => report.timeouts = timed_out

\* Every answered query is in the statistics of the tracker, in the report or
\* in the totals, on any number of threads.
RepliesReported ==
  gen # "failed" => totals.ok_recv + ok_recv + report.ok_recv = answered

\* On one thread the two counters that are loaded and reset lose nothing.
CountsExact ==
  SingleThread =>
    /\ totals.sent + UnreportedSent = Counted
    /\ totals.timeouts + UnreportedTimeouts = expired

ReportInv ==
  /\ ReportFresh /\ ResetPending /\ RepliesReported
  /\ TotalsNeverOvershoot /\ CountsExact

\* Tokio polls one task at a time on one thread.
OnePoll == SingleThread => ~SenderMidPoll \/ ~GenMidPoll

\* A query is handed to the transport at most once after it was issued; the one
\* for which that has not happened is the sender's last.
Handed ==
  /\ sends <= issued /\ issued <= sends + 1
  /\ sender = "send" => issued = sends + 1
  /\ sender \in {"yield", "popping", "next", "count"} => issued = sends

\* On one thread neither the store nor a counter that was loaded and reset
\* changes while a report is made.
Loading == {"load_timeouts", "load_sent", "reset_sent", "reset_timeouts"}

LoadedAlone ==
  SingleThread =>
    /\ gen \in Loading => report.in_flight = Cardinality(DOMAIN in_flight)
    /\ gen \in {"reset_sent", "reset_timeouts"} => ok_recv = 0
    /\ gen = "reset_timeouts" => sent = 0

\* The sends the sender can still make of its batch.
Left == Len(batch) + IF sender = "send" THEN 1 ELSE 0

BatchBound ==
  /\ sender # "popping" => popped = 0
  /\ sender = "popping" => Len(batch) <= popped
  /\ Left <= BatchSize

\* The generator stops once, leaving its select loop for good, and the wait of
\* the drain starts at zero.
Phased ==
  /\ gen \in {"select", "wait", "check", "done"} => (closing <=> gen # "select")
  /\ ~closing => waited = 0

\* Once the generator has stopped, the sender is dead, or marked to die at its
\* next await, with at most the rest of one batch to send.
Silenced ==
  /\ ~closing => late = 0
  /\ closing /\ sender \notin SenderDead =>
       /\ ~SingleThread /\ aborting
       /\ late + Left <= BatchSize
       /\ sender \in {"yield", "popping"} => late = 0
  /\ LateSendsBounded

\* On one thread a query in flight is as old as the wait of the drain is long.
DrainInv ==
  SingleThread /\ closing =>
    \A id \in DOMAIN in_flight :
      \/ in_flight[id] >= config.timeout
      \/ gen \in {"wait", "check"} /\ in_flight[id] >= waited

-----------------------------------------------------------------------------
(* The reports *)

reportVars == <<config, sent, timed_out, ok_recv, report, totals, sends,
                answered, expired>>

\* The places of the generator at which no report is under way.
Idle == {"select", "wait", "check", "log", "done", "ended", "failed"}

\* A step that neither moves the report on nor changes what is reported.
LEMMA NotReported ==
  ASSUME ReportInv, UNCHANGED reportVars,
         sender' = "count" <=> sender = "count",
         gen' = gen \/ (gen \in Idle \ {"failed"} /\ gen' \in Idle)
  PROVE  ReportInv'
BY DEF ReportInv, ReportFresh, ResetPending, RepliesReported, Idle, reportVars,
       TotalsNeverOvershoot, CountsExact, UnreportedSent, UnreportedTimeouts,
       Counted, SingleThread

\* A sweep of the store adds what it removes to the counter of timeouts; on one
\* thread it does not come between the load and the reset of that counter.
LEMMA SweepReported ==
  ASSUME TypeInv, ReportInv, ClearTimeouts, SingleThread => ~GenMidPoll,
         UNCHANGED <<config, sent, ok_recv, report, totals, sends, answered, sender>>,
         gen' = gen \/ (gen \in Idle \ {"failed"} /\ gen' \in Idle)
  PROVE  ReportInv'
<1> DEFINE n == Cardinality(TimedOut)
<1>1. /\ n \in Nat /\ timed_out' = timed_out + n /\ expired' = expired + n
      /\ timed_out \in Nat /\ expired \in Nat
      /\ totals.timeouts \in Nat /\ report.timeouts \in Nat
  BY TimedOutType DEF ClearTimeouts, TypeInv, TypeOK, StoreType, HistoryType,
                      GenType, ReportType
<1> HIDE DEF n
<1> QED
  BY <1>1 DEF ReportInv, ReportFresh, ResetPending, RepliesReported, Idle,
              TotalsNeverOvershoot, CountsExact, UnreportedSent,
              UnreportedTimeouts, Counted, SingleThread, GenMidPoll

LEMMA ReportStep == TypeInv /\ ReportInv /\ [Next]_vars => ReportInv'
<1> SUFFICES ASSUME TypeInv, ReportInv, [Next]_vars PROVE ReportInv'
  OBVIOUS
<1> USE DEF reportVars
<1>1. /\ sent \in Nat /\ timed_out \in Nat /\ ok_recv \in Nat
      /\ sends \in Nat /\ answered \in Nat /\ expired \in Nat
      /\ report \in ReportType
      /\ totals \in [sent : Nat, timeouts : Nat, ok_recv : Nat]
  BY DEF TypeInv, TypeOK, StoreType, GenType, HistoryType
<1>2. CASE SenderWake \/ SenderPop \/ SenderDry \/ SenderFail
  BY <1>2, NotReported DEF SenderWake, SenderPop, SenderDry, SenderFail, Dies
<1>3. CASE SenderPopped \/ SenderIssue
  BY <1>3, NotReported DEF SenderPopped, SenderIssue, SenderGoes, LivesOn, Dies
<1>4. CASE CleanupPanics \/ EnvNext
  BY <1>4, NotReported DEF CleanupPanics, EnvNext, Tick, Notify, Arrive
<1>5. CASE GenStop
  BY <1>5, NotReported DEF GenStop, AbortSender, Dies, Idle, SenderAwaits
<1>6. CASE GenEnds \/ GenWaitCheck
  BY <1>6, NotReported DEF GenEnds, GenWaitCheck, Idle
<1>7. ASSUME NEW id \in WireIds, GenRecvStub(id) \/ GenRecvError(id)
      PROVE  ReportInv'
  BY <1>7, NotReported DEF GenRecvStub, GenRecvError, ReadFrame, Idle
<1>8. CASE CleanupTick
  BY <1>8, SweepReported, RunsAlone DEF CleanupTick
<1>9. CASE GenWaitClear
  BY <1>9, SweepReported DEF GenWaitClear, GenMidPoll, Idle
<1> USE DEF ReportInv, ReportFresh, ResetPending, RepliesReported,
            TotalsNeverOvershoot, CountsExact, UnreportedSent,
            UnreportedTimeouts, Counted, SingleThread, ReportType
<1>10. CASE SenderSend
  BY <1>1, <1>10 DEF SenderSend
<1>11. CASE SenderCount
  <2>1. /\ SingleThread => ~GenMidPoll
        /\ sender = "count" /\ sender' # "count" /\ sent' = sent + 1
        /\ UNCHANGED <<config, timed_out, ok_recv, report, totals, sends,
                       answered, expired, gen>>
    BY <1>11, RunsAlone DEF SenderCount, SenderGoes, LivesOn, Dies
  <2> QED
    BY <1>1, <2>1 DEF GenMidPoll
<1>12. ASSUME NEW id \in WireIds, GenRecv(id) PROVE ReportInv'
  <2>1. PICK n \in {0, 1} : /\ ok_recv' = ok_recv + n
                            /\ answered' = answered + n
    BY <1>12 DEF GenRecv
  <2> QED
    BY <1>1, <1>12, <2>1 DEF GenRecv
<1>13. ASSUME NEW id \in WireIds, GenRecvCut(id) PROVE ReportInv'
  BY <1>1, <1>13 DEF GenRecvCut, ReadFrame
<1>14. CASE GenLog
  BY <1>1, <1>14 DEF GenLog
<1>15. CASE GenLoadTimeouts
  BY <1>1, <1>15 DEF GenLoadTimeouts
<1>16. CASE GenLoadSent
  BY <1>1, <1>16 DEF GenLoadSent
<1>17. CASE GenResetSent
  BY <1>1, <1>17 DEF GenResetSent, ResetSent
<1>18. CASE GenResetTimeouts
  BY <1>1, <1>18 DEF GenResetTimeouts, ResetTimedOut
<1>19. CASE GenSend
  <2>1. /\ totals'.sent = totals.sent + report.sent
        /\ totals'.timeouts = totals.timeouts + report.timeouts
        /\ totals'.ok_recv = totals.ok_recv + report.ok_recv
        /\ report'.sent = 0 /\ report'.timeouts = 0 /\ report'.ok_recv = 0
    BY <1>1, <1>19 DEF GenSend, NoReport
  <2>2. /\ gen = "send" /\ gen' \in {"done", "select"}
        /\ UNCHANGED <<config, sent, timed_out, ok_recv, sends, answered,
                       expired, sender>>
    BY <1>19 DEF GenSend, AfterReport
  <2> QED
    BY <1>1, <2>1, <2>2
<1>20. CASE UNCHANGED vars
  BY <1>20, NotReported DEF vars
<1> QED
  BY <1>2, <1>3, <1>4, <1>5, <1>6, <1>7, <1>8, <1>9, <1>10, <1>11, <1>12,
     <1>13, <1>14, <1>15, <1>16, <1>17, <1>18, <1>19, <1>20
  DEF Next, SenderNext, CleanupNext, GenNext, GenReads

LEMMA ReportInvariance == Spec => [](TypeInv /\ BatchStarts /\ ReportInv)
<1>1. Init => ReportInv
  BY DEF Init, NoReport, ReportInv, ReportFresh, ResetPending, RepliesReported,
         TotalsNeverOvershoot, CountsExact, UnreportedSent,
         UnreportedTimeouts, Counted
<1> QED
  BY <1>1, ReportStep, BatchInvariance, PTL DEF Spec

\* stats.rs 84-103 loads the counters and resets them later, while the sender
\* and the cleanup task go on counting: on any number of threads the reports
\* never add up to more queries or timeouts than there were.
THEOREM ReportsNeverOvershoot == Spec => []TotalsNeverOvershoot
<1>1. ReportInv => TotalsNeverOvershoot
  BY DEF ReportInv
<1> QED
  BY <1>1, ReportInvariance, PTL

-----------------------------------------------------------------------------
(* What the sender has issued and handed over *)

\* The only steps that issue a query or hand one over are the sender's; the stop
\* of the generator kills it, or leaves it where it is.
LEMMA OtherSteps ==
  ASSUME [Next]_vars, ~SenderNext
  PROVE  /\ UNCHANGED <<config, popped, issued, sends, late>>
         /\ \/ UNCHANGED <<sender, batch, aborting>>
            \/ GenStop
<1>1. CASE CleanupNext \/ EnvNext
  BY <1>1 DEF CleanupNext, CleanupTick, CleanupPanics, EnvNext, Tick, Notify,
              Arrive
<1>2. CASE GenStop
  BY <1>2 DEF GenStop
<1>3. ASSUME NEW id \in WireIds, GenReads(id)
      PROVE  UNCHANGED <<config, senderVars, issued, sends, late>>
  BY <1>3 DEF GenReads, GenRecv, GenRecvCut, GenRecvStub, GenRecvError
<1>4. CASE GenEnds \/ GenWaitClear \/ GenWaitCheck \/ GenLog \/ GenLoadTimeouts
           \/ GenLoadSent \/ GenResetSent \/ GenResetTimeouts \/ GenSend
  BY <1>4 DEF GenEnds, GenWaitClear, GenWaitCheck, GenLog, GenLoadTimeouts,
              GenLoadSent, GenResetSent, GenResetTimeouts, GenSend
<1>5. CASE UNCHANGED vars
  BY <1>5 DEF vars
<1> QED
  BY <1>1, <1>2, <1>3, <1>4, <1>5 DEF Next, GenNext

LEMMA HandedStep == TypeInv /\ Handed /\ [Next]_vars => Handed'
<1> SUFFICES ASSUME TypeInv, Handed, [Next]_vars PROVE Handed'
  OBVIOUS
<1> USE DEF Handed
<1>1. issued \in Nat /\ sends \in Nat
  BY DEF TypeInv, TypeOK, HistoryType
<1>2. CASE SenderWake \/ SenderPop \/ SenderDry \/ SenderFail
  BY <1>1, <1>2 DEF SenderWake, SenderPop, SenderDry, SenderFail, Dies
<1>3. CASE SenderPopped \/ SenderCount
  BY <1>1, <1>3 DEF SenderPopped, SenderCount, SenderGoes, LivesOn, Dies
<1>4. CASE SenderIssue
  BY <1>1, <1>4 DEF SenderIssue, SenderGoes, LivesOn, Dies
<1>5. CASE SenderSend
  BY <1>1, <1>5 DEF SenderSend
<1>6. CASE ~SenderNext
  BY <1>1, <1>6, OtherSteps DEF GenStop, AbortSender, Dies
<1> QED
  BY <1>2, <1>3, <1>4, <1>5, <1>6 DEF SenderNext

LEMMA OnePollStep == OnePoll /\ [Next]_vars => OnePoll'
<1> SUFFICES ASSUME OnePoll, [Next]_vars, SingleThread'
             PROVE  ~SenderMidPoll' \/ ~GenMidPoll'
  BY DEF OnePoll
<1>1. config' = config /\ SingleThread
  BY ConfigKept DEF SingleThread
<1>2. CASE SenderNext
  <2>1. Runs("sender") /\ gen' = gen
    BY <1>2 DEF SenderNext, SenderWake, SenderPop, SenderPopped, SenderIssue,
                SenderDry, SenderSend, SenderFail, SenderCount
  <2> QED
    BY <1>1, <2>1, RunsAlone DEF GenMidPoll
<1>3. CASE GenNext
  <2>1. Runs("gen")
    BY <1>3 DEF GenNext, GenReads, GenRecv, GenRecvCut, GenRecvStub, GenRecvError,
                ReadFrame, GenEnds, GenStop, GenWaitClear, GenWaitCheck, GenLog,
                GenLoadTimeouts, GenLoadSent, GenResetSent, GenResetTimeouts,
                GenSend
  <2>2. sender' = sender \/ sender' = "aborted"
    BY <1>3 DEF GenNext, GenReads, GenRecv, GenRecvCut, GenRecvStub, GenRecvError,
                GenEnds, GenStop, AbortSender, Dies, GenWaitClear, GenWaitCheck, GenLog,
                GenLoadTimeouts, GenLoadSent, GenResetSent, GenResetTimeouts,
                GenSend
  <2> QED
    BY <1>1, <2>1, <2>2, RunsAlone DEF SenderMidPoll
<1>4. CASE CleanupNext \/ EnvNext \/ UNCHANGED vars
  <2>1. UNCHANGED <<config, sender, gen>>
    BY <1>4 DEF CleanupNext, CleanupTick, CleanupPanics, EnvNext, Tick, Notify,
                Arrive, vars
  <2> QED
    BY <2>1 DEF OnePoll, SingleThread, SenderMidPoll, GenMidPoll
<1> QED
  BY <1>2, <1>3, <1>4 DEF Next

-----------------------------------------------------------------------------
(* A report adds up *)

LEMMA LoadedAloneStep == TypeInv /\ LoadedAlone /\ [Next]_vars => LoadedAlone'
<1> SUFFICES ASSUME TypeInv, LoadedAlone, [Next]_vars, SingleThread'
             PROVE  /\ gen' \in Loading =>
                         report'.in_flight = Cardinality(DOMAIN in_flight')
                    /\ gen' \in {"reset_sent", "reset_timeouts"} => ok_recv' = 0
                    /\ gen' = "reset_timeouts" => sent' = 0
  BY DEF LoadedAlone
<1> USE DEF Loading
<1>1. SingleThread
  BY ConfigKept DEF SingleThread
<1>2. report \in ReportType
  BY DEF TypeInv, TypeOK, GenType
<1>3. /\ gen \in Loading => report.in_flight = Cardinality(DOMAIN in_flight)
      /\ gen \in {"reset_sent", "reset_timeouts"} => ok_recv = 0
      /\ gen = "reset_timeouts" => sent = 0
  BY <1>1 DEF LoadedAlone
<1>4. CASE SenderNext
  BY <1>1, <1>4, RunsAlone
  DEF GenMidPoll, SenderNext, SenderWake, SenderPop, SenderPopped, SenderIssue,
      SenderDry, SenderSend, SenderFail, SenderCount
<1>5. CASE CleanupNext
  BY <1>1, <1>5, RunsAlone DEF GenMidPoll, CleanupNext, CleanupTick, CleanupPanics
<1>6. CASE Tick
  <2>1. /\ DOMAIN in_flight' = DOMAIN in_flight
        /\ UNCHANGED <<gen, report, ok_recv, sent>>
    BY <1>6 DEF Tick
  <2> QED
    BY <1>3, <2>1
<1>7. CASE Notify \/ (\E id \in WireIds : Arrive(id)) \/ UNCHANGED vars
  BY <1>3, <1>7 DEF Notify, Arrive, vars
<1>8. CASE GenLog
  BY <1>2, <1>8 DEF GenLog, InFlightNow, ReportType
<1>9. CASE GenLoadTimeouts \/ GenLoadSent \/ GenResetSent
  BY <1>2, <1>3, <1>9
  DEF GenLoadTimeouts, GenLoadSent, GenResetSent, ResetSent, ReportType
<1>10. CASE GenEnds \/ GenStop \/ GenWaitClear \/ GenWaitCheck
            \/ GenResetTimeouts \/ GenSend
  BY <1>10 DEF GenEnds, GenStop, GenWaitClear, GenWaitCheck, GenResetTimeouts,
               GenSend, AfterReport
<1>11. ASSUME NEW id \in WireIds, GenReads(id)
       PROVE  gen' \notin Loading
  BY <1>11 DEF GenReads, GenRecv, GenRecvCut, GenRecvStub, GenRecvError,
               ReadFrame
<1> QED
  BY <1>4, <1>5, <1>6, <1>7, <1>8, <1>9, <1>10, <1>11 DEF Next, GenNext, EnvNext

\* Strays are counted up only, so a state without any follows one without any.
LEMMA StillClean ==
  ASSUME TypeInv, BatchStarts, [Next]_vars, strays' = 0
  PROVE  strays = 0
BY StoreSteps, StraysStep DEF TypeInv, TypeOK, HistoryType

\* The last load of a report: the books of the store, the counters and the
\* totals are those of one moment.
LEMMA AddsUpStep ==
  ASSUME TypeInv, BatchStarts, SettledOnce, ReportInv, Handed, OnePoll,
         LoadedAlone, ReportAddsUp, [Next]_vars
  PROVE  ReportAddsUp'
<1> SUFFICES ASSUME SingleThread', strays' = 0, gen' = "send"
             PROVE  totals'.ok_recv + report'.ok_recv + totals'.timeouts
                      + report'.timeouts + report'.in_flight
                      - (totals'.sent + report'.sent) \in {0, 1}
  BY DEF ReportAddsUp, SingleThread
<1>1. SingleThread /\ strays = 0
  BY ConfigKept, StillClean DEF SingleThread
<1>2. CASE GenResetTimeouts
  <2>1. /\ gen = "reset_timeouts" /\ UNCHANGED <<report, totals>>
    BY <1>2 DEF GenResetTimeouts
  <2>2. /\ issued \in Nat /\ sends \in Nat /\ answered \in Nat /\ expired \in Nat
        /\ report.ok_recv \in Nat /\ report.timeouts \in Nat
        /\ report.sent \in Nat /\ report.in_flight \in Nat
        /\ totals.ok_recv \in Nat /\ totals.timeouts \in Nat
        /\ totals.sent \in Nat
    BY DEF TypeInv, TypeOK, GenType, HistoryType, ReportType
  <2>3. sender # "count"
    BY <1>1, <2>1 DEF OnePoll, SenderMidPoll, GenMidPoll
  <2>4. totals.sent + report.sent = sends
    BY <1>1, <2>1, <2>2, <2>3
    DEF ReportInv, CountsExact, UnreportedSent, Counted, LoadedAlone, SingleThread
  <2>5. totals.timeouts + report.timeouts = expired
    BY <1>1, <2>1, <2>2
    DEF ReportInv, CountsExact, ResetPending, UnreportedTimeouts, SingleThread
  <2>6. totals.ok_recv + report.ok_recv = answered
    BY <1>1, <2>1, <2>2 DEF ReportInv, RepliesReported, LoadedAlone
  <2>7. issued = answered + expired + report.in_flight
    <3>1. /\ Overwritten = 0
          /\ report.in_flight = Cardinality(DOMAIN in_flight)
      BY <1>1, <2>1 DEF SettledOnce, LoadedAlone, Loading
    <3> QED
      BY <2>2, <3>1 DEF Overwritten
  <2>8. issued - sends \in {0, 1}
    BY <2>2 DEF Handed
  <2> QED
    BY <2>1, <2>2, <2>4, <2>5, <2>6, <2>7, <2>8
<1>3. CASE ~GenResetTimeouts
  <2>1. gen = "send" /\ UNCHANGED <<report, totals>>
    BY <1>3 DEF Next, SenderNext, SenderWake, SenderPop, SenderPopped,
                SenderIssue, SenderDry, SenderSend, SenderFail, SenderCount,
                CleanupNext, CleanupTick, CleanupPanics, GenNext, GenReads,
                GenRecv, GenRecvCut, GenRecvStub, GenRecvError, ReadFrame, GenEnds,
                GenStop, GenWaitClear, GenWaitCheck, GenLog, GenLoadTimeouts,
                GenLoadSent, GenResetSent, GenSend, AfterReport, EnvNext, Tick,
                Notify, Arrive, vars
  <2> QED
    BY <1>1, <2>1 DEF ReportAddsUp, SingleThread
<1> QED
  BY <1>2, <1>3

\* On a runtime of one thread the figures of a report agree with one another:
\* what was sent so far was answered, timed out or is in flight.
THEOREM EachReportAddsUp == Spec => []ReportAddsUp
<1>1. Init => Handed /\ OnePoll /\ LoadedAlone /\ ReportAddsUp
  BY DEF Init, Handed, OnePoll, LoadedAlone, Loading, GenMidPoll, ReportAddsUp
<1>2. Spec => []SettledOnce
  BY EachQuerySettledOnce
<1> QED
  BY <1>1, <1>2, ReportInvariance, HandedStep, OnePollStep, LoadedAloneStep,
     AddsUpStep, PTL DEF Spec

-----------------------------------------------------------------------------
(* The stop *)

LEMMA BatchBoundStep == TypeInv /\ BatchBound /\ [Next]_vars => BatchBound'
<1> SUFFICES ASSUME TypeInv, BatchBound, [Next]_vars PROVE BatchBound'
  OBVIOUS
<1> USE BoundAssumption DEF BatchBound, Left
<1>1. /\ batch \in Seq(WireIds) /\ Len(batch) \in Nat /\ popped \in 0..BatchSize
  BY DEF TypeInv, TypeOK, SenderType
<1>2. CASE SenderWake
  BY <1>1, <1>2 DEF SenderWake
<1>3. CASE SenderPop
  <2>1. /\ sender = "popping" /\ sender' = "popping" /\ popped' = popped + 1
        /\ popped # BatchSize /\ ids # <<>>
    BY <1>3 DEF SenderPop, BatchFull
  <2>2. Head(ids) \in WireIds
    BY <2>1, RangeTail DEF TypeInv, TypeOK, StoreType
  <2>3. Len(batch') \in {Len(batch), Len(batch) + 1}
    BY <1>1, <1>3, <2>2, RangeAppend DEF SenderPop
  <2> QED
    BY <1>1, <2>1, <2>3
<1>4. CASE SenderPopped \/ SenderCount
  BY <1>1, <1>4 DEF SenderPopped, SenderCount, SenderGoes, LivesOn, Dies
<1>5. CASE SenderIssue
  <2>1. batch # <<>>
    BY <1>5 DEF SenderIssue, TypeInv
  <2>2. Len(Tail(batch)) = Len(batch) - 1
    BY <1>1, <2>1, RangeTail
  <2>3. /\ sender = "next" /\ popped' = popped
        /\ \/ sender' = "send" /\ Len(batch') = Len(batch) - 1
           \/ sender' = "aborted" /\ Len(batch') = 0
    BY <1>5, <2>2 DEF SenderIssue, SenderGoes, LivesOn, Dies
  <2> QED
    BY <1>1, <2>3
<1>6. CASE SenderDry \/ SenderSend \/ SenderFail
  BY <1>1, <1>6 DEF SenderDry, SenderSend, SenderFail, Dies
<1>7. CASE ~SenderNext
  <2>1. /\ popped' = popped
        /\ \/ UNCHANGED <<sender, batch>>
           \/ sender' = "aborted" /\ batch' = <<>> /\ sender # "popping"
    BY <1>7, OtherSteps DEF GenStop, AbortSender, Dies, SenderAwaits
  <2>2. CASE UNCHANGED <<sender, batch>>
    BY <2>1, <2>2
  <2>3. CASE sender' = "aborted" /\ batch' = <<>> /\ sender # "popping"
    BY <1>1, <2>1, <2>3
  <2> QED
    BY <2>1, <2>2, <2>3
<1> QED
  BY <1>2, <1>3, <1>4, <1>5, <1>6, <1>7 DEF SenderNext

LEMMA PhasedStep == TypeInv /\ Phased /\ [Next]_vars => Phased'
<1> SUFFICES ASSUME TypeInv, Phased, [Next]_vars PROVE Phased'
  OBVIOUS
<1> USE DEF Phased
<1>1. closing \in BOOLEAN
  BY DEF TypeInv, TypeOK, GenType
<1>2. CASE SenderNext \/ CleanupNext
  BY <1>2 DEF SenderNext, SenderWake, SenderPop, SenderPopped, SenderIssue,
              SenderDry, SenderSend, SenderFail, SenderCount, CleanupNext,
              CleanupTick, CleanupPanics
<1>3. CASE EnvNext \/ UNCHANGED vars
  BY <1>1, <1>3 DEF EnvNext, Tick, Notify, Arrive, vars
<1>4. CASE GenStop
  BY <1>4 DEF GenStop
<1>5. CASE GenSend
  BY <1>1, <1>5 DEF GenSend, AfterReport
<1>6. CASE GenEnds \/ GenWaitClear \/ GenWaitCheck \/ GenLog \/ GenLoadTimeouts
           \/ GenLoadSent \/ GenResetSent \/ GenResetTimeouts
  BY <1>1, <1>6 DEF GenEnds, GenWaitClear, GenWaitCheck, GenLog,
                    GenLoadTimeouts, GenLoadSent, GenResetSent, GenResetTimeouts
<1>7. ASSUME NEW id \in WireIds, GenReads(id) PROVE Phased'
  BY <1>1, <1>7 DEF GenReads, GenRecv, GenRecvCut, GenRecvStub, GenRecvError
<1> QED
  BY <1>2, <1>3, <1>4, <1>5, <1>6, <1>7 DEF Next, GenNext

\* The generator can stop once, and every step keeps the choice.
LEMMA ClosingSteps ==
  ASSUME [Next]_vars
  PROVE  closing' = closing \/ GenStop
BY DEF Next, SenderNext, SenderWake, SenderPop, SenderPopped, SenderIssue,
       SenderDry, SenderSend, SenderFail, SenderCount, CleanupNext,
       CleanupTick, CleanupPanics, GenNext, GenReads, GenRecv, GenRecvCut,
       GenRecvStub, GenRecvError, GenEnds, GenWaitClear, GenWaitCheck, GenLog,
       GenLoadTimeouts, GenLoadSent, GenResetSent, GenResetTimeouts, GenSend,
       EnvNext, Tick, Notify, Arrive, vars

LEMMA SilencedStep ==
  TypeInv /\ BatchBound /\ Phased /\ Silenced /\ [Next]_vars => Silenced'
<1> SUFFICES ASSUME TypeInv, BatchBound, Phased, Silenced, [Next]_vars
             PROVE  Silenced'
  OBVIOUS
<1> USE BoundAssumption DEF Silenced, Left, SenderDead
<1>1. /\ batch \in Seq(WireIds) /\ Len(batch) \in Nat /\ popped \in 0..BatchSize
      /\ late \in Nat /\ closing \in BOOLEAN /\ aborting \in BOOLEAN
      /\ sender \in {"yield", "popping", "next", "send", "count", "finished",
                     "aborted"}
  BY DEF TypeInv, TypeOK, SenderType, HistoryType, GenType
<1>2. config' = config /\ (SingleThread' <=> SingleThread)
  BY ConfigKept DEF SingleThread
<1>3. BatchBound'
  BY BatchBoundStep
<1>4. CASE SenderNext
  <2>1. closing' = closing /\ aborting' = aborting
    BY <1>4 DEF SenderNext, SenderWake, SenderPop, SenderPopped, SenderIssue,
                SenderDry, SenderSend, SenderFail, SenderCount
  <2>2. CASE SenderWake
    BY <1>1, <1>2, <1>3, <2>1, <2>2 DEF SenderWake, BatchBound, LateSendsBounded, SingleThread
  <2>3. CASE SenderPop
    BY <1>1, <1>2, <1>3, <2>1, <2>3 DEF SenderPop, BatchBound, LateSendsBounded, SingleThread
  <2>4. CASE SenderPopped
    BY <1>1, <1>2, <2>1, <2>4 DEF SenderPopped, SenderGoes, LivesOn, Dies, LateSendsBounded, SingleThread
  <2>5. CASE SenderIssue
    <3>1. batch # <<>>
      BY <2>5 DEF SenderIssue, TypeInv
    <3>2. Len(Tail(batch)) = Len(batch) - 1
      BY <1>1, <3>1, RangeTail
    <3>3. /\ sender = "next" /\ late' = late
          /\ \/ sender' = "send" /\ Len(batch') = Len(batch) - 1
             \/ sender' = "aborted" /\ Len(batch') = 0
      BY <2>5, <3>2 DEF SenderIssue, SenderGoes, LivesOn, Dies
    <3> QED
      BY <1>1, <1>2, <2>1, <3>3 DEF LateSendsBounded, SingleThread
  <2>6. CASE SenderDry \/ SenderFail
    BY <1>1, <1>2, <2>1, <2>6 DEF SenderDry, SenderFail, Dies, LateSendsBounded, SingleThread
  <2>7. CASE SenderSend
    BY <1>1, <1>2, <2>1, <2>7 DEF SenderSend, LateSendsBounded, SingleThread
  <2>8. CASE SenderCount
    BY <1>1, <1>2, <2>1, <2>8 DEF SenderCount, SenderGoes, LivesOn, Dies, LateSendsBounded, SingleThread
  <2> QED
    BY <1>4, <2>2, <2>3, <2>4, <2>5, <2>6, <2>7, <2>8 DEF SenderNext
<1>5. CASE GenStop
  <2>1. gen = "select" /\ ~closing /\ late = 0 /\ late' = 0 /\ closing'
    BY <1>1, <1>5 DEF GenStop, Phased
  <2>2. SingleThread => sender' \in SenderDead
    <3> SUFFICES ASSUME SingleThread PROVE sender' \in SenderDead
      OBVIOUS
    <3>1. ~SenderMidPoll
      BY <1>5, RunsAlone DEF GenStop
    <3> QED
      BY <1>1, <1>5, <3>1 DEF GenStop, AbortSender, Dies, SenderAwaits, SenderMidPoll, SingleThread
  <2>3. sender' \in SenderDead \/ aborting'
    BY <1>5, Zenon DEF GenStop, AbortSender, Dies, SenderDead
  <2> QED
    BY <1>1, <1>2, <1>3, <2>1, <2>2, <2>3 DEF LateSendsBounded, BatchBound, SingleThread
<1>6. CASE ~SenderNext /\ ~GenStop
  BY <1>2, <1>6, OtherSteps, ClosingSteps DEF LateSendsBounded, SingleThread
<1> QED
  BY <1>4, <1>5, <1>6

LEMMA StopInvariance ==
  Spec => [](TypeInv /\ BatchStarts /\ BatchBound /\ Phased /\ Silenced)
<1>1. Init => BatchBound /\ Phased /\ Silenced
  BY BoundAssumption
  DEF Init, BatchBound, Left, Phased, Silenced, LateSendsBounded
<1> QED
  BY <1>1, BatchInvariance, BatchBoundStep, PhasedStep, SilencedStep, PTL
  DEF Spec

\* gen.rs 131 aborts the sender: on one thread it sends nothing more, on several
\* it finishes at most the batch it is caught in.
THEOREM StopSilencesSender == Spec => []LateSendsBounded
<1>1. Silenced => LateSendsBounded
  BY DEF Silenced
<1> QED
  BY <1>1, StopInvariance, PTL

-----------------------------------------------------------------------------
(* The last report *)

\* On one thread the last report leaves nothing in the counters, and after it
\* nothing is sent or read any more.
LastReport ==
  SingleThread =>
    /\ closing /\ gen = "send" => sent = 0 /\ ok_recv = 0
    /\ gen = "done" => totals.sent = sends /\ totals.ok_recv = answered

\* With the sender dead, a generator that only has its report to hand over, or
\* is done, counts nothing.
LEMMA NothingCounted ==
  ASSUME [Next]_vars, sender \in SenderDead, gen \in {"send", "done"}, ~GenSend
  PROVE  UNCHANGED <<gen, closing, sent, ok_recv, totals, sends, answered>>
<1>1. CASE SenderNext
  BY <1>1 DEF SenderDead, SenderNext, SenderWake, SenderPop, SenderPopped,
              SenderIssue, SenderDry, SenderSend, SenderFail, SenderCount
<1>2. CASE GenNext
  BY <1>2 DEF GenNext, GenReads, GenRecv, GenRecvCut, GenRecvStub, GenRecvError,
              ReadFrame, GenEnds, GenStop, GenWaitClear, GenWaitCheck, GenLog,
              GenLoadTimeouts, GenLoadSent, GenResetSent, GenResetTimeouts
<1>3. CASE CleanupNext \/ EnvNext \/ UNCHANGED vars
  BY <1>3 DEF CleanupNext, CleanupTick, CleanupPanics, ClearTimeouts, EnvNext, Tick,
              Notify, Arrive, vars
<1> QED
  BY <1>1, <1>2, <1>3 DEF Next

LEMMA LastReportStep ==
  TypeInv /\ ReportInv /\ LoadedAlone /\ Phased /\ Silenced /\ LastReport
    /\ [Next]_vars => LastReport'
<1> SUFFICES ASSUME TypeInv, ReportInv, LoadedAlone, Phased, Silenced, LastReport,
                    [Next]_vars, SingleThread'
             PROVE  /\ closing' /\ gen' = "send" => sent' = 0 /\ ok_recv' = 0
                    /\ gen' = "done" =>
                         totals'.sent = sends' /\ totals'.ok_recv = answered'
  BY DEF LastReport
<1>1. SingleThread
  BY ConfigKept DEF SingleThread
<1>2. /\ sent \in Nat /\ ok_recv \in Nat /\ report \in ReportType
      /\ totals \in [sent : Nat, timeouts : Nat, ok_recv : Nat]
      /\ sends \in Nat /\ answered \in Nat /\ closing \in BOOLEAN
  BY DEF TypeInv, TypeOK, StoreType, GenType, HistoryType
<1>3. CASE GenResetTimeouts
  BY <1>1, <1>3 DEF GenResetTimeouts, LoadedAlone
<1>4. CASE GenSend
  <2>1. /\ gen = "send" /\ gen' \in {"done", "select"}
        /\ gen' = "done" => closing
        /\ UNCHANGED <<sends, answered>>
        /\ totals'.sent = totals.sent + report.sent
        /\ totals'.ok_recv = totals.ok_recv + report.ok_recv
    BY <1>2, <1>4 DEF GenSend, AfterReport
  <2>2. closing => sent = 0 /\ ok_recv = 0 /\ sender # "count"
    BY <1>1, <2>1 DEF LastReport, Silenced, SenderDead
  <2>3. closing => /\ totals.sent + report.sent = sends
                   /\ totals.ok_recv + report.ok_recv = answered
    BY <1>1, <1>2, <2>1, <2>2
    DEF ReportInv, CountsExact, RepliesReported, UnreportedSent, Counted, ReportType
  <2> QED
    BY <2>1, <2>3
<1>5. CASE (gen = "done" \/ (gen = "send" /\ closing)) /\ ~GenSend
  <2>1. closing /\ sender \in SenderDead
    BY <1>1, <1>2, <1>5 DEF Phased, Silenced
  <2>2. UNCHANGED <<gen, closing, sent, ok_recv, totals, sends, answered>>
    BY <1>5, <2>1, NothingCounted
  <2> QED
    BY <1>1, <2>2 DEF LastReport
<1>6. CASE gen # "done" /\ ~(gen = "send" /\ closing) /\ ~GenSend /\ ~GenResetTimeouts
  BY <1>6 DEF Next, SenderNext, SenderWake, SenderPop, SenderPopped, SenderIssue,
              SenderDry, SenderSend, SenderFail, SenderCount, CleanupNext,
              CleanupTick, CleanupPanics, GenNext, GenReads, GenRecv, GenRecvCut,
              GenRecvStub, GenRecvError, ReadFrame, GenEnds, GenStop, GenWaitClear,
              GenWaitCheck, GenLog, GenLoadTimeouts, GenLoadSent, GenResetSent,
              EnvNext, Tick, Notify, Arrive, vars
<1> QED
  BY <1>3, <1>4, <1>5, <1>6

\* On a runtime of one thread that load and reset lose nothing, and the last
\* report, after the drain, leaves nothing unreported.
THEOREM ReportsLoseNothing == Spec => []ReportsExact
<1>1. Init => LoadedAlone /\ LastReport
  BY DEF Init, LoadedAlone, Loading, LastReport
<1>2. ReportInv /\ LastReport => ReportsExact
  BY DEF ReportInv, CountsExact, RepliesReported, LastReport, ReportsExact, SingleThread
<1> QED
  BY <1>1, <1>2, ReportInvariance, StopInvariance, LoadedAloneStep,
     LastReportStep, PTL DEF Spec

-----------------------------------------------------------------------------
(* The drain *)

LEMMA DrainStep ==
  TypeInv /\ Phased /\ Silenced /\ DrainInv /\ [Next]_vars => DrainInv'
<1> SUFFICES ASSUME TypeInv, Phased, Silenced, DrainInv, [Next]_vars,
                    SingleThread', closing', NEW id \in DOMAIN in_flight'
             PROVE  \/ in_flight'[id] >= config'.timeout
                    \/ /\ gen' \in {"wait", "check"}
                       /\ in_flight'[id] >= waited'
  BY DEF DrainInv
<1>1. config' = config /\ SingleThread
  BY ConfigKept DEF SingleThread
<1>2. /\ config.timeout \in Nat /\ waited \in Nat
      /\ \A i \in DOMAIN in_flight : in_flight[i] \in 0..config.timeout
  BY ConfigFields DEF TypeInv, TypeOK, StoreType, GenType
<1>3. CASE GenStop
  <2>1. gen' = "wait" /\ waited' = 0 /\ in_flight' = in_flight
    BY <1>3 DEF GenStop, Phased
  <2> QED
    BY <1>2, <2>1
<1>4. CASE ~GenStop
  <2>1. closing /\ sender \in SenderDead
    BY <1>1, <1>4, ClosingSteps DEF Silenced
  <2>2. ASSUME NEW i \in DOMAIN in_flight
        PROVE  \/ in_flight[i] >= config.timeout
               \/ gen \in {"wait", "check"} /\ in_flight[i] >= waited
    BY <1>1, <2>1 DEF DrainInv
  <2>3. CASE Tick
    <3>1. /\ id \in DOMAIN in_flight
          /\ in_flight'[id] = IF in_flight[id] < config.timeout
                                THEN in_flight[id] + 1 ELSE in_flight[id]
          /\ gen' = gen /\ waited' \in {waited, waited + 1}
      BY <2>3 DEF Tick
    <3> QED
      BY <1>1, <1>2, <2>2, <3>1
  <2>4. CASE CleanupTick
    <3>1. id \in DOMAIN in_flight /\ in_flight'[id] = in_flight[id]
      BY <2>4 DEF CleanupTick, ClearTimeouts, Removed
    <3> QED
      BY <1>1, <2>2, <2>4, <3>1 DEF CleanupTick
  <2>5. CASE GenWaitClear
    <3>1. id \in DOMAIN in_flight /\ in_flight'[id] = in_flight[id]
      BY <2>5 DEF GenWaitClear, ClearTimeouts, Removed
    <3> QED
      BY <1>1, <2>2, <2>5, <3>1 DEF GenWaitClear
  <2>6. CASE GenWaitCheck
    <3>1. /\ in_flight' = in_flight /\ waited' = waited
          /\ gen' = "wait" \/ waited > config.timeout
      BY <2>6 DEF GenWaitCheck, WaitOver
    <3> QED
      BY <1>1, <1>2, <2>2, <3>1
  <2>7. CASE SenderNext
    BY <2>1, <2>7 DEF SenderDead, SenderNext, SenderWake, SenderPop, SenderPopped,
                      SenderIssue, SenderDry, SenderSend, SenderFail, SenderCount
  <2>8. CASE GenEnds \/ \E i \in WireIds : GenReads(i)
    BY <2>1, <2>8 DEF Phased, GenEnds, GenReads, GenRecv, GenRecvCut, GenRecvStub,
                      GenRecvError, ReadFrame
  <2>9. CASE GenLog \/ GenLoadTimeouts \/ GenLoadSent \/ GenResetSent
             \/ GenResetTimeouts \/ GenSend
    BY <1>1, <2>1, <2>2, <2>9
    DEF Phased, GenLog, GenLoadTimeouts, GenLoadSent, GenResetSent,
        GenResetTimeouts, GenSend
  <2>10. CASE CleanupPanics \/ Notify \/ (\E i \in WireIds : Arrive(i))
              \/ UNCHANGED vars
    BY <1>1, <2>2, <2>10 DEF CleanupPanics, Notify, Arrive, vars
  <2> QED
    BY <1>4, <2>3, <2>4, <2>5, <2>6, <2>7, <2>8, <2>9, <2>10
    DEF Next, CleanupNext, GenNext, EnvNext
<1> QED
  BY <1>3, <1>4

\* gen.rs 150-168, on a runtime of one thread: when wait_in_flight returns, every
\* query it leaves in flight has been there for its whole timeout.
THEOREM DrainWaitsLongEnough == Spec => []DrainLeavesExpired
<1>1. Init => DrainInv
  BY DEF Init, DrainInv
<1>2. DrainInv => DrainLeavesExpired
  BY DEF DrainInv, DrainLeavesExpired, SingleThread
<1> QED
  BY <1>1, <1>2, StopInvariance, DrainStep, PTL DEF Spec
=============================================================================
