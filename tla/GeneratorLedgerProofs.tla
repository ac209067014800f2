------------------------ MODULE GeneratorLedgerProofs ------------------------
(***************************************************************************)
(* Module Generator implements modules Ledger and, but for its liveness,   *)
(* Lifecycle, for every pool, every configuration and every bound.         *)
(***************************************************************************)
EXTENDS GeneratorReportProofs

USE DEF store, counters, senderVars, genVars, envVars, history

-----------------------------------------------------------------------------
(* The promise to the queries *)

\* What the steps that a Ledger does not see leave alone.
ledgerVars == <<DOMAIN in_flight, strays, issued, sends, answered, expired,
                totals>>

LEMMA LedgerStutter ==
  ASSUME UNCHANGED ledgerVars
  PROVE  UNCHANGED L!vars
BY DEF ledgerVars, L!vars

LEMMA LedgerInit == Init => L!Init
BY DEF Init, L!Init

\* The insert of a query, sender.rs 61: while the pool is clean its id is free.
LEMMA LedgerIssue ==
  ASSUME TypeInv, UniqueIds, SenderIssue
  PROVE  \E id \in WireIds : L!Issue(id)
<1> DEFINE id == Head(batch)
<1>1. batch # <<>> /\ batch \in Seq(WireIds)
  BY DEF SenderIssue, TypeInv, TypeOK, SenderType
<1>2. id \in WireIds /\ id \in Range(batch)
  BY <1>1, RangeTail
<1>3. strays = 0 => id \notin DOMAIN in_flight
  BY <1>2 DEF UniqueIds
<1>4. /\ DOMAIN in_flight' = DOMAIN in_flight \cup {id}
      /\ issued' = issued + 1
      /\ UNCHANGED <<strays, sends, answered, expired, totals>>
  BY DEF SenderIssue, Inserted
<1> HIDE DEF id
<1>5. L!Issue(id)
  BY <1>3, <1>4 DEF L!Issue
<1> QED
  BY <1>2, <1>5

LEMMA LedgerHand == Handed /\ TypeInv /\ SenderSend => L!Hand
BY DEF Handed, TypeInv, TypeOK, HistoryType, SenderSend, L!Hand

\* A frame for a query in flight, or for none.
LEMMA LedgerSettle ==
  ASSUME TypeInv, NEW id \in WireIds, Settle(id),
         answered' = answered + IF id \in DOMAIN in_flight THEN 1 ELSE 0,
         UNCHANGED <<issued, sends, expired, totals>>
  PROVE  L!Answer(id) \/ L!Stray
<1>1. DOMAIN in_flight' = DOMAIN in_flight \ {id}
  BY RemovedType DEF Settle, TypeInv, TypeOK
<1>2. strays \in Nat /\ answered \in Nat
  BY DEF TypeInv, TypeOK, HistoryType
<1>3. CASE id \in DOMAIN in_flight
  <2>1. strays' = strays /\ answered' = answered + 1
    BY <1>3 DEF Settle
  <2> QED
    BY <1>1, <1>3, <2>1 DEF L!Answer
<1>4. CASE id \notin DOMAIN in_flight
  <2>1. strays' # 0 /\ answered' = answered
    BY <1>2, <1>4 DEF Settle
  <2>2. DOMAIN in_flight' = DOMAIN in_flight
    BY <1>1, <1>4
  <2> QED
    BY <2>1, <2>2 DEF L!Stray
<1> QED
  BY <1>3, <1>4

\* Module Ledger counts with the operator of FiniteSets that this module counts
\* with.
LEMMA SameCardinality ==
  ASSUME NEW S
  PROVE  L!Cardinality(S) = Cardinality(S)
BY Zenon DEF Cardinality, L!Cardinality

\* A sweep, by the cleanup task or by the drain.
LEMMA LedgerExpire ==
  ASSUME TypeInv, ClearTimeouts,
         UNCHANGED <<strays, issued, sends, answered, totals>>
  PROVE  \E S \in SUBSET DOMAIN in_flight : L!Expire(S)
<1>1. StoreType
  BY DEF TypeInv, TypeOK
<1>2. /\ TimedOut \in SUBSET DOMAIN in_flight
      /\ DOMAIN in_flight' = DOMAIN in_flight \ TimedOut
      /\ expired' = expired + Cardinality(TimedOut)
  BY <1>1, TimedOutType, RemovedType DEF ClearTimeouts
<1>3. L!Expire(TimedOut)
  BY <1>2, SameCardinality DEF L!Expire
<1> QED
  BY <1>2, <1>3

LEMMA LedgerReport ==
  ASSUME TypeInv, TypeInv', TotalsNeverOvershoot', GenSend
  PROVE  L!Report
<1>1. /\ report.sent \in Nat /\ report.timeouts \in Nat
      /\ totals \in [sent : Nat, timeouts : Nat, ok_recv : Nat]
  BY DEF TypeInv, TypeOK, GenType, HistoryType, ReportType
<1>2. /\ totals'.sent = totals.sent + report.sent
      /\ totals'.timeouts = totals.timeouts + report.timeouts
      /\ UNCHANGED <<in_flight, strays, issued, sends, answered, expired>>
  BY <1>1 DEF GenSend
<1>3. /\ sent' \in Nat /\ timed_out' \in Nat
      /\ report'.sent \in Nat /\ report'.timeouts \in Nat
      /\ totals'.sent \in Nat /\ totals'.timeouts \in Nat
      /\ sends' \in Nat /\ expired' \in Nat
  BY DEF TypeInv, TypeOK, StoreType, GenType, HistoryType, ReportType
<1>4. totals'.sent <= sends' /\ totals'.timeouts <= expired'
  BY <1>3 DEF TotalsNeverOvershoot, UnreportedSent, UnreportedTimeouts, Counted
<1> QED
  BY <1>1, <1>2, <1>4 DEF L!Report

LEMMA LedgerStep ==
  ASSUME TypeInv, TypeInv', UniqueIds, Handed, TotalsNeverOvershoot', [Next]_vars
  PROVE  [L!Next]_(L!vars)
<1> USE DEF ledgerVars
<1>1. CASE SenderIssue
  BY <1>1, LedgerIssue DEF L!Next
<1>2. CASE SenderSend
  BY <1>2, LedgerHand DEF L!Next
<1>3. CASE SenderWake \/ SenderPop \/ SenderPopped \/ SenderDry \/ SenderFail
           \/ SenderCount
  BY <1>3, LedgerStutter DEF SenderWake, SenderPop, SenderPopped, SenderDry,
                             SenderFail, SenderCount
<1>4. CASE CleanupTick \/ GenWaitClear
  BY <1>4, LedgerExpire DEF CleanupTick, GenWaitClear, L!Next
<1>5. ASSUME NEW id \in WireIds, GenReads(id) PROVE [L!Next]_(L!vars)
  <2>1. CASE GenRecv(id)
    BY <2>1, LedgerSettle DEF GenRecv, L!Next
  <2>2. CASE GenRecvCut(id)
    BY <2>2, LedgerSettle DEF GenRecvCut, L!Next
  <2>3. CASE GenRecvStub(id) \/ GenRecvError(id)
    BY <2>3, LedgerStutter DEF GenRecvStub, GenRecvError
  <2> QED
    BY <1>5, <2>1, <2>2, <2>3 DEF GenReads
<1>6. CASE GenSend
  BY <1>6, LedgerReport DEF L!Next
<1>7. CASE GenEnds \/ GenStop \/ GenWaitCheck \/ GenLog \/ GenLoadTimeouts
           \/ GenLoadSent \/ GenResetSent \/ GenResetTimeouts
  BY <1>7, LedgerStutter DEF GenEnds, GenStop, GenWaitCheck, GenLog, GenLoadTimeouts,
                             GenLoadSent, GenResetSent, GenResetTimeouts
<1>8. CASE CleanupPanics \/ EnvNext \/ UNCHANGED vars
  BY <1>8, LedgerStutter DEF CleanupPanics, EnvNext, Tick, Notify, Arrive, vars
<1> QED
  BY <1>1, <1>2, <1>3, <1>4, <1>5, <1>6, <1>7, <1>8
  DEF Next, SenderNext, CleanupNext, GenNext

\* gen.rs, sender.rs and store.rs keep the promise of module Ledger, on any
\* number of threads and whatever frames arrive: no id serves two queries while
\* every reply answers a query in flight, a query ends once, only a query that
\* was recorded is sent, and no report invents one.
THEOREM KeepsLedger == Spec => ImplementsLedger
<1>1. Init => Handed
  BY DEF Init, Handed
<1>2. ReportInv => TotalsNeverOvershoot
  BY DEF ReportInv
<1> QED
  BY <1>1, <1>2, LedgerInit, LedgerStep, HandedStep, UniqueInvariance,
     ReportInvariance, PTL DEF Spec, ImplementsLedger, L!Spec

-----------------------------------------------------------------------------
(* The phases that module Runner takes for granted *)

\* Where the generator is decides its phase, with the choice of the stop branch
\* to tell an interval's report from the last one.
LEMMA PhaseOf ==
  ASSUME GenType
  PROVE  /\ gen = "select" => Phase = "running"
         /\ gen \in ReportSteps =>
              Phase = IF closing THEN "final" ELSE "reporting"
         /\ gen \in {"wait", "check"} => Phase = "draining"
         /\ gen \in {"done", "ended"} => Phase = "over"
         /\ gen = "failed" => Phase = "panicked"
BY Zenon DEF GenType, Phase, ReportSteps

\* The pairs of phases that a step of the generator may join.
Moved ==
  \/ Phase' = Phase
  \/ Phase = "running" /\ Phase' \in {"reporting", "draining", "over", "panicked"}
  \/ Phase = "reporting" /\ Phase' = "running"
  \/ Phase = "draining" /\ Phase' = "final"
  \/ Phase = "final" /\ Phase' = "over"

LEMMA PhaseStep == TypeInv /\ TypeInv' /\ Phased /\ [Next]_vars => Moved
<1> SUFFICES ASSUME TypeInv, TypeInv', Phased, [Next]_vars PROVE Moved
  OBVIOUS
<1>1. GenType /\ GenType' /\ closing \in BOOLEAN
  BY DEF TypeInv, TypeOK, GenType
<1>2. /\ gen = "select" => Phase = "running"
      /\ gen \in ReportSteps => Phase = IF closing THEN "final" ELSE "reporting"
      /\ gen \in {"wait", "check"} => Phase = "draining"
  BY <1>1, PhaseOf
<1>3. /\ gen' = "select" => Phase' = "running"
      /\ gen' \in ReportSteps => Phase' = IF closing' THEN "final" ELSE "reporting"
      /\ gen' \in {"wait", "check"} => Phase' = "draining"
      /\ gen' \in {"done", "ended"} => Phase' = "over"
      /\ gen' = "failed" => Phase' = "panicked"
  BY <1>1, Zenon DEF GenType, Phase, ReportSteps
<1> USE DEF Moved
<1>4. CASE UNCHANGED <<gen, closing>>
  BY <1>4 DEF Phase, ReportSteps
<1>5. CASE GenEnds \/ GenStop \/ \E id \in WireIds : GenReads(id)
  BY <1>2, <1>3, <1>5 DEF GenEnds, GenStop, GenReads, GenRecv, GenRecvCut,
                          GenRecvStub, GenRecvError, ReadFrame
<1>6. CASE GenWaitClear
  BY <1>2, <1>3, <1>6 DEF GenWaitClear
<1>7. CASE GenWaitCheck
  BY <1>1, <1>2, <1>3, <1>7 DEF GenWaitCheck, Phased, ReportSteps
<1>8. CASE GenLog
  BY <1>1, <1>2, <1>3, <1>8 DEF GenLog, Phased, ReportSteps
<1>9. CASE GenLoadTimeouts \/ GenLoadSent \/ GenResetSent \/ GenResetTimeouts
  BY <1>2, <1>3, <1>9 DEF GenLoadTimeouts, GenLoadSent, GenResetSent,
                          GenResetTimeouts, ReportSteps
<1>10. CASE GenSend
  BY <1>2, <1>3, <1>10 DEF GenSend, AfterReport, ReportSteps
<1>11. CASE SenderNext \/ CleanupNext \/ EnvNext \/ UNCHANGED vars
  <2>1. UNCHANGED <<gen, closing>>
    BY <1>11 DEF SenderNext, SenderWake, SenderPop, SenderPopped, SenderIssue,
                 SenderDry, SenderSend, SenderFail, SenderCount, CleanupNext,
                 CleanupTick, CleanupPanics, EnvNext, Tick, Notify, Arrive, vars
  <2> QED
    BY <1>4, <2>1
<1> QED
  BY <1>5, <1>6, <1>7, <1>8, <1>9, <1>10, <1>11 DEF Next, GenNext

\* From its select loop on, a generator only goes through the phases of module
\* Lifecycle, each after those that may precede it: its last report comes after
\* the drain, and nothing after a panic.
THEOREM KeepsPhases == Spec => Life!Moves
<1>1. Init => Life!Init
  <2> SUFFICES ASSUME Init PROVE Life!Init
    OBVIOUS
  <2>1. Phase = "running"
    BY InitTypeInv, PhaseOf DEF Init, TypeInv, TypeOK
  <2> QED
    BY <2>1 DEF Life!Init
<1>2. Moved => [Life!Next]_([t \in {"gen"} |-> Phase])
  BY DEF Moved, Life!Next, Life!After
<1> QED
  BY <1>1, <1>2, PhaseStep, StopInvariance, PTL DEF Spec, Life!Moves
=============================================================================
