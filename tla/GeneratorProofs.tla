--------------------------- MODULE GeneratorProofs ---------------------------
(***************************************************************************)
(* Theorems about module Generator, for every pool, every configuration    *)
(* and every bound.                                                        *)
(***************************************************************************)
EXTENDS Generator, DataLemmas, FiniteSetTheorems, SequenceTheorems, TLAPS

USE DEF store, counters, senderVars, genVars, envVars, history

-----------------------------------------------------------------------------
(* Type correctness *)

\* The sender has a batch to go on with when it comes to the limiter.
TypeInv ==
  /\ TypeOK
  /\ sender = "next" => batch # <<>>

\* What the assumptions say of the chosen configuration.
LEMMA ConfigFields ==
  ASSUME config \in Configs
  PROVE  /\ config.timeout \in Nat
         /\ config.workers \in Nat \ {0}
         /\ config.limited \in BOOLEAN
BY ConfigAssumption

\* A set of ids that can be in flight is finite.
LEMMA InFlightFinite ==
  ASSUME NEW S \in SUBSET WireIds
  PROVE  IsFiniteSet(S) /\ Cardinality(S) \in Nat
<1>1. IsFiniteSet(WireIds)
  BY PoolAssumption, FS_Union DEF WireIds
<1>2. IsFiniteSet(S)
  BY <1>1, FS_Subset
<1> QED
  BY <1>2, FS_CardinalityType

\* An order of a set of ids is a sequence of them.
LEMMA OrderIsSeq ==
  ASSUME NEW S \in SUBSET WireIds, NEW order \in Orders(S)
  PROVE  /\ order \in Seq(WireIds)
         /\ Len(order) = Cardinality(S)
         /\ Range(order) = S
         /\ IsInjective(order)
<1>1. Cardinality(S) \in Nat
  BY InFlightFinite
<1>2. /\ order \in [1..Cardinality(S) -> S]
      /\ IsInjective(order)
      /\ \A t \in S : \E i \in 1..Cardinality(S) : order[i] = t
  BY DEF Orders, Bijection, Injection, Surjection
<1>3. order \in [1..Cardinality(S) -> WireIds]
  BY <1>2
<1>4. order \in Seq(WireIds) /\ Len(order) = Cardinality(S)
  BY <1>1, <1>3
<1>5. Range(order) = S
  BY <1>2 DEF Range
<1> QED
  BY <1>2, <1>4, <1>5

LEMMA InitTypeInv == Init => TypeInv
<1> SUFFICES ASSUME Init PROVE TypeInv
  OBVIOUS
<1> USE DEF Init
<1>1. config \in Configs /\ config.timeout \in Nat
  BY ConfigFields
<1>2. ids \in Seq(WireIds)
  BY OrderIsSeq DEF WireIds
<1>3. StoreType
  BY <1>1, <1>2 DEF StoreType
<1>4. SenderType
  <2>1. /\ batch \in Seq(WireIds) /\ forgotten \in Seq(WireIds)
        /\ popped \in 0..BatchSize
    BY BoundAssumption
  <2>2. aborting \in BOOLEAN
    BY Zenon
  <2> QED
    BY <2>1, <2>2 DEF SenderType
<1>5. GenType
  <2>1. waited \in 0..(config.timeout + 1)
    BY <1>1
  <2>2. closing \in BOOLEAN
    BY Zenon
  <2>3. report \in ReportType
    BY DEF ReportType, NoReport
  <2> QED
    BY <2>1, <2>2, <2>3 DEF GenType
<1>6. EnvType
  BY DEF EnvType
<1>7. HistoryType
  BY DEF HistoryType
<1> QED
  BY <1>1, <1>3, <1>4, <1>5, <1>6, <1>7 DEF TypeInv, TypeOK

-----------------------------------------------------------------------------
(* What the operators of the store preserve *)

LEMMA RemovedType ==
  ASSUME StoreType, NEW S
  PROVE  /\ DOMAIN Removed(S) = DOMAIN in_flight \ S
         /\ Removed(S) \in [DOMAIN in_flight \ S -> 0..config.timeout]
BY DEF StoreType, Removed

\* What the sender keeps of a batch, and what it drops, is a sequence of ids.
LEMMA RestType ==
  ASSUME SenderType, NEW rest \in Seq(WireIds),
         \/ UNCHANGED <<batch, forgotten>>
         \/ batch' = rest /\ forgotten' = forgotten
         \/ batch' = <<>> /\ forgotten' = rest
  PROVE  batch' \in Seq(WireIds) /\ forgotten' \in Seq(WireIds)
<1>1. batch \in Seq(WireIds) /\ forgotten \in Seq(WireIds)
  BY DEF SenderType
<1>2. <<>> \in Seq(WireIds)
  OBVIOUS
<1> QED
  BY <1>1, <1>2

LEMMA InsertedType ==
  ASSUME StoreType, config.timeout \in Nat, NEW id \in WireIds
  PROVE  /\ DOMAIN Inserted(id) = DOMAIN in_flight \cup {id}
         /\ Inserted(id) \in [DOMAIN in_flight \cup {id} -> 0..config.timeout]
BY DEF StoreType, Inserted

LEMMA TimedOutType ==
  ASSUME StoreType
  PROVE  /\ TimedOut \in SUBSET WireIds
         /\ TimedOut \subseteq DOMAIN in_flight
         /\ Cardinality(TimedOut) \in Nat
<1>1. TimedOut \subseteq DOMAIN in_flight
  BY DEF TimedOut
<1>2. TimedOut \in SUBSET WireIds
  BY <1>1 DEF StoreType
<1> QED
  BY <1>1, <1>2, InFlightFinite

\* clear_timeouts keeps the types of all it writes.
LEMMA ClearTimeoutsType ==
  ASSUME StoreType, expired \in Nat, ClearTimeouts
  PROVE  /\ ids' \in Seq(WireIds)
         /\ DOMAIN in_flight' \subseteq WireIds
         /\ in_flight' \in [DOMAIN in_flight' -> 0..config.timeout]
         /\ timed_out' \in Nat
         /\ expired' \in Nat
<1>1. PICK order \in Orders(TimedOut) : ids' = ids \o order
  BY DEF ClearTimeouts, ReturnIds
<1>2. order \in Seq(WireIds)
  BY TimedOutType, OrderIsSeq
<1>3. ids' \in Seq(WireIds)
  BY <1>1, <1>2 DEF StoreType
<1>4. in_flight' = Removed(TimedOut)
  BY DEF ClearTimeouts
<1>5. DOMAIN in_flight' = DOMAIN in_flight \ TimedOut
  BY <1>4, RemovedType
<1>6. in_flight' \in [DOMAIN in_flight' -> 0..config.timeout]
  BY <1>4, <1>5, RemovedType
<1>7. timed_out' \in Nat /\ expired' \in Nat
  BY TimedOutType DEF ClearTimeouts, StoreType
<1> QED
  BY <1>3, <1>5, <1>6, <1>7 DEF StoreType

\* The store after a frame's id went back to the pool.
LEMMA SettleType ==
  ASSUME StoreType, NEW id \in WireIds, Settle(id), strays \in Nat
  PROVE  /\ ids' \in Seq(WireIds)
         /\ DOMAIN in_flight' \subseteq WireIds
         /\ in_flight' \in [DOMAIN in_flight' -> 0..config.timeout]
         /\ strays' \in Nat
<1>1. ids' \in Seq(WireIds) /\ strays' \in Nat
  BY DEF Settle, StoreType
<1>2. in_flight' = Removed({id})
  BY DEF Settle
<1>3. DOMAIN in_flight' = DOMAIN in_flight \ {id}
  BY <1>2, RemovedType
<1>4. in_flight' \in [DOMAIN in_flight' -> 0..config.timeout]
  BY <1>2, <1>3, RemovedType
<1> QED
  BY <1>1, <1>3, <1>4 DEF StoreType

-----------------------------------------------------------------------------
(* A part of the state that a step leaves alone keeps its type *)

LEMMA SameStore ==
  ASSUME StoreType, UNCHANGED <<config, store, counters, cleanup>>
  PROVE  StoreType'
BY DEF StoreType

LEMMA SameSender ==
  ASSUME SenderType, UNCHANGED senderVars
  PROVE  SenderType'
BY DEF SenderType

LEMMA SameGen ==
  ASSUME GenType, UNCHANGED <<config, genVars>>
  PROVE  GenType'
BY DEF GenType

LEMMA SameEnv ==
  ASSUME EnvType, UNCHANGED envVars
  PROVE  EnvType'
BY DEF EnvType

LEMMA SameHistory ==
  ASSUME HistoryType, UNCHANGED history
  PROVE  HistoryType'
BY DEF HistoryType

-----------------------------------------------------------------------------
(* The steps of the sender *)

LEMMA SenderTypeInv == TypeInv /\ SenderNext => TypeInv'
<1> SUFFICES ASSUME TypeInv, SenderNext PROVE TypeInv'
  OBVIOUS
<1>1. /\ config \in Configs /\ config.timeout \in Nat
      /\ StoreType /\ SenderType /\ GenType /\ EnvType /\ HistoryType
      /\ sender = "next" => batch # <<>>
  BY ConfigFields DEF TypeInv, TypeOK
<1>2. UNCHANGED <<config, cleanup, genVars, envVars>>
  BY DEF SenderNext, SenderWake, SenderPop, SenderPopped, SenderIssue,
         SenderDry, SenderSend, SenderFail, SenderCount
<1>3. config' \in Configs /\ GenType' /\ EnvType'
  BY <1>1, <1>2, SameGen, SameEnv
<1> SUFFICES /\ StoreType' /\ SenderType' /\ HistoryType'
             /\ sender' = "next" => batch' # <<>>
  BY <1>3 DEF TypeInv, TypeOK
<1>4. CASE SenderWake
  <2>1. SenderType' /\ sender' # "next"
    BY <1>1, <1>4 DEF SenderWake, SenderType
  <2> QED
    BY <1>1, <1>4, <2>1, SameStore, SameHistory DEF SenderWake
<1>5. CASE SenderPop
  <2>1. /\ Head(ids) \in WireIds /\ Tail(ids) \in Seq(WireIds)
    BY <1>1, <1>5 DEF SenderPop, StoreType
  <2>2. StoreType'
    BY <1>1, <1>2, <1>5, <2>1 DEF SenderPop, StoreType
  <2>3. batch' \in Seq(WireIds)
    BY <1>1, <1>5, <2>1 DEF SenderPop, SenderType
  <2>4. popped' \in 0..BatchSize
    BY <1>1, <1>5, BoundAssumption DEF SenderPop, SenderType, BatchFull
  <2>5. SenderType' /\ sender' # "next"
    BY <1>1, <1>5, <2>3, <2>4 DEF SenderPop, SenderType
  <2> QED
    BY <1>1, <1>5, <2>2, <2>5, SameHistory DEF SenderPop
<1>6. CASE SenderPopped
  <2>1. /\ popped' = 0 /\ aborting' = aborting
        /\ sender' \in {"yield", "next", "aborted"}
        /\ \/ batch' = batch /\ forgotten' = forgotten
           \/ batch' = <<>> /\ forgotten' = batch
        /\ sender' = "next" => batch' # <<>>
    BY <1>6 DEF SenderPopped, SenderGoes, LivesOn, Dies
  <2>2. batch' \in Seq(WireIds) /\ forgotten' \in Seq(WireIds)
    BY <1>1, <2>1, RestType DEF SenderType
  <2>3. aborting' \in BOOLEAN
    BY <1>1, <2>1, Zenon DEF SenderType
  <2>4. SenderType'
    BY <1>1, <2>1, <2>2, <2>3, BoundAssumption DEF SenderType
  <2> QED
    BY <1>1, <1>6, <2>1, <2>4, SameStore, SameHistory DEF SenderPopped
<1>7. CASE SenderIssue
  <2>1. Head(batch) \in WireIds /\ Tail(batch) \in Seq(WireIds)
    BY <1>1, <1>7 DEF SenderIssue, SenderType
  <2>2. /\ in_flight' = Inserted(Head(batch))
        /\ sender' \in {"send", "aborted"}
        /\ \/ batch' = Tail(batch) /\ forgotten' = forgotten
           \/ batch' = <<>> /\ forgotten' = Tail(batch)
        /\ UNCHANGED <<ids, counters, popped, aborting>>
    BY <1>7 DEF SenderIssue, SenderGoes, LivesOn, Dies
  <2>3. StoreType'
    BY <1>1, <1>2, <2>1, <2>2, InsertedType DEF StoreType
  <2>4. batch' \in Seq(WireIds) /\ forgotten' \in Seq(WireIds)
    BY <1>1, <2>1, <2>2, RestType
  <2>5. aborting' \in BOOLEAN
    BY <1>1, <2>2, Zenon DEF SenderType
  <2>6. SenderType'
    BY <1>1, <2>2, <2>4, <2>5 DEF SenderType
  <2>7. HistoryType'
    BY <1>1, <1>7 DEF SenderIssue, HistoryType
  <2> QED
    BY <2>2, <2>3, <2>6, <2>7
<1>8. CASE SenderDry
  <2>1. SenderType' /\ sender' # "next"
    BY <1>1, <1>8 DEF SenderDry, Dies, SenderType
  <2> QED
    BY <1>1, <1>8, <2>1, SameStore, SameHistory DEF SenderDry
<1>9. CASE SenderSend
  <2>1. SenderType' /\ sender' # "next"
    BY <1>1, <1>9 DEF SenderSend, SenderType
  <2>2. HistoryType'
    BY <1>1, <1>9 DEF SenderSend, HistoryType
  <2> QED
    BY <1>1, <1>9, <2>1, <2>2, SameStore DEF SenderSend
<1>10. CASE SenderFail
  <2>1. SenderType' /\ sender' # "next"
    BY <1>1, <1>10 DEF SenderFail, Dies, SenderType
  <2> QED
    BY <1>1, <1>10, <2>1, SameStore, SameHistory DEF SenderFail
<1>11. CASE SenderCount
  <2>1. /\ UNCHANGED <<popped, aborting>>
        /\ sender' \in {"yield", "next", "aborted"}
        /\ \/ batch' = batch /\ forgotten' = forgotten
           \/ batch' = <<>> /\ forgotten' = batch
        /\ sender' = "next" => batch' # <<>>
    BY <1>11 DEF SenderCount, SenderGoes, LivesOn, Dies
  <2>2. batch' \in Seq(WireIds) /\ forgotten' \in Seq(WireIds)
    BY <1>1, <2>1, RestType DEF SenderType
  <2>3. aborting' \in BOOLEAN
    BY <1>1, <2>1, Zenon DEF SenderType
  <2>4. SenderType'
    BY <1>1, <2>1, <2>2, <2>3 DEF SenderType
  <2>5. StoreType'
    BY <1>1, <1>11 DEF SenderCount, StoreType
  <2> QED
    BY <1>1, <1>11, <2>1, <2>4, <2>5, SameHistory DEF SenderCount
<1> QED
  BY <1>4, <1>5, <1>6, <1>7, <1>8, <1>9, <1>10, <1>11 DEF SenderNext

-----------------------------------------------------------------------------
(* The steps of the cleanup task and of the environment *)

LEMMA CleanupTypeInv == TypeInv /\ CleanupNext => TypeInv'
<1> SUFFICES ASSUME TypeInv, CleanupNext PROVE TypeInv'
  OBVIOUS
<1>1. /\ config \in Configs
      /\ StoreType /\ SenderType /\ GenType /\ EnvType /\ HistoryType
      /\ sender = "next" => batch # <<>>
  BY DEF TypeInv, TypeOK
<1>2. UNCHANGED <<config, senderVars, genVars, envVars>>
  BY DEF CleanupNext, CleanupTick, CleanupPanics
<1>3. /\ config' \in Configs /\ SenderType' /\ GenType' /\ EnvType'
      /\ sender' = "next" => batch' # <<>>
  BY <1>1, <1>2, SameSender, SameGen, SameEnv
<1>4. CASE CleanupTick
  <2>1. /\ ids' \in Seq(WireIds)
        /\ DOMAIN in_flight' \subseteq WireIds
        /\ in_flight' \in [DOMAIN in_flight' -> 0..config.timeout]
        /\ timed_out' \in Nat /\ expired' \in Nat
    BY <1>1, <1>4, ClearTimeoutsType DEF CleanupTick, HistoryType
  <2>2. StoreType'
    BY <1>1, <1>4, <2>1 DEF CleanupTick, StoreType
  <2>3. HistoryType'
    BY <1>1, <1>4, <2>1 DEF CleanupTick, HistoryType
  <2> QED
    BY <1>3, <2>2, <2>3 DEF TypeInv, TypeOK
<1>5. CASE CleanupPanics
  <2>1. StoreType'
    BY <1>1, <1>5 DEF CleanupPanics, StoreType
  <2> QED
    BY <1>1, <1>3, <1>5, <2>1, SameHistory DEF CleanupPanics, TypeInv, TypeOK
<1> QED
  BY <1>4, <1>5 DEF CleanupNext

LEMMA EnvTypeInv == TypeInv /\ EnvNext => TypeInv'
<1> SUFFICES ASSUME TypeInv, EnvNext PROVE TypeInv'
  OBVIOUS
<1>1. /\ config \in Configs /\ config.timeout \in Nat
      /\ StoreType /\ SenderType /\ GenType /\ EnvType /\ HistoryType
      /\ sender = "next" => batch # <<>>
  BY ConfigFields DEF TypeInv, TypeOK
<1>2. UNCHANGED <<config, senderVars, history>>
  BY DEF EnvNext, Tick, Notify, Arrive
<1>3. /\ config' \in Configs /\ SenderType' /\ HistoryType'
      /\ sender' = "next" => batch' # <<>>
  BY <1>1, <1>2, SameSender, SameHistory
<1>4. CASE Tick
  <2>1. /\ DOMAIN in_flight' = DOMAIN in_flight
        /\ in_flight' \in [DOMAIN in_flight -> 0..config.timeout]
    BY <1>1, <1>4 DEF Tick, StoreType
  <2>2. StoreType'
    BY <1>1, <1>4, <2>1 DEF Tick, StoreType
  <2>3. waited' \in 0..(config.timeout + 1)
    BY <1>1, <1>4 DEF Tick, GenType
  <2>4. GenType'
    BY <1>1, <1>4, <2>3 DEF Tick, GenType
  <2> QED
    BY <1>1, <1>3, <1>4, <2>2, <2>4, SameEnv DEF Tick, TypeInv, TypeOK
<1>5. CASE Notify
  <2>1. notified' \in BOOLEAN
    BY <1>5, Zenon DEF Notify
  <2>2. EnvType'
    BY <1>1, <1>5, <2>1 DEF Notify, EnvType
  <2> QED
    BY <1>1, <1>3, <1>5, <2>2, SameStore, SameGen DEF Notify, TypeInv, TypeOK
<1>6. ASSUME NEW id \in WireIds, Arrive(id) PROVE TypeInv'
  <2>1. EnvType'
    BY <1>1, <1>6 DEF Arrive, EnvType
  <2> QED
    BY <1>1, <1>3, <1>6, <2>1, SameStore, SameGen DEF Arrive, TypeInv, TypeOK
<1> QED
  BY <1>4, <1>5, <1>6 DEF EnvNext

-----------------------------------------------------------------------------
(* The steps of the generator *)

LEMMA GenTypeInv == TypeInv /\ GenNext => TypeInv'
<1> SUFFICES ASSUME TypeInv, GenNext PROVE TypeInv'
  OBVIOUS
<1>1. /\ config \in Configs /\ config.timeout \in Nat
      /\ StoreType /\ SenderType /\ GenType /\ EnvType /\ HistoryType
      /\ sender = "next" => batch # <<>>
  BY ConfigFields DEF TypeInv, TypeOK
<1>2. ASSUME NEW id \in WireIds, ReadFrame(id), UNCHANGED <<notified, arrivals>>
      PROVE  EnvType'
  BY <1>1, <1>2 DEF ReadFrame, EnvType
<1>3. ASSUME NEW id \in WireIds, GenRecv(id) PROVE TypeInv'
  <2>1. StoreType'
    BY <1>1, <1>3, SettleType DEF GenRecv, StoreType, HistoryType
  <2>2. GenType'
    BY <1>1, <1>3 DEF GenRecv, GenType
  <2>3. strays' \in Nat
    BY <1>1, <1>3, SettleType DEF GenRecv, HistoryType
  <2>4. HistoryType'
    BY <1>1, <1>3, <2>3 DEF GenRecv, HistoryType
  <2> QED
    BY <1>1, <1>2, <1>3, <2>1, <2>2, <2>4, SameSender
    DEF GenRecv, TypeInv, TypeOK
<1>4. ASSUME NEW id \in WireIds, GenRecvCut(id) PROVE TypeInv'
  <2>1. StoreType'
    BY <1>1, <1>4, SettleType DEF GenRecvCut, StoreType, HistoryType
  <2>2. GenType'
    BY <1>1, <1>4 DEF GenRecvCut, GenType
  <2>3. strays' \in Nat
    BY <1>1, <1>4, SettleType DEF GenRecvCut, HistoryType
  <2>4. HistoryType'
    BY <1>1, <1>4, <2>3 DEF GenRecvCut, HistoryType
  <2> QED
    BY <1>1, <1>2, <1>4, <2>1, <2>2, <2>4, SameSender
    DEF GenRecvCut, TypeInv, TypeOK
<1>5. ASSUME NEW id \in WireIds, GenRecvStub(id) PROVE TypeInv'
  <2>1. GenType'
    BY <1>1, <1>5 DEF GenRecvStub, GenType
  <2> QED
    BY <1>1, <1>2, <1>5, <2>1, SameStore, SameSender, SameHistory
    DEF GenRecvStub, TypeInv, TypeOK
<1>6. ASSUME NEW id \in WireIds, GenRecvError(id) PROVE TypeInv'
  BY <1>1, <1>2, <1>6, SameStore, SameSender, SameGen, SameHistory
  DEF GenRecvError, TypeInv, TypeOK
<1>7. CASE GenEnds
  <2>1. GenType'
    BY <1>1, <1>7 DEF GenEnds, GenType
  <2> QED
    BY <1>1, <1>7, <2>1, SameStore, SameSender, SameEnv, SameHistory
    DEF GenEnds, TypeInv, TypeOK
<1>8. CASE GenStop
  <2>1. GenType'
    <3>1. closing' \in BOOLEAN
      BY <1>8, Zenon DEF GenStop
    <3> QED
      BY <1>1, <1>8, <3>1 DEF GenStop, GenType
  <2>2. /\ \/ UNCHANGED <<sender, batch, forgotten>>
           \/ sender' = "aborted" /\ batch' = <<>> /\ forgotten' = batch
        /\ UNCHANGED popped
    BY <1>8 DEF GenStop, AbortSender, Dies
  <2>3. aborting' \in BOOLEAN
    BY <1>1, <1>8, Zenon DEF GenStop, AbortSender, SenderType
  <2>4. batch' \in Seq(WireIds) /\ forgotten' \in Seq(WireIds)
    BY <1>1, <2>2, RestType DEF SenderType
  <2>5. SenderType' /\ (sender' = "next" => batch' # <<>>)
    BY <1>1, <2>2, <2>3, <2>4 DEF SenderType
  <2> QED
    BY <1>1, <1>8, <2>1, <2>5, SameStore, SameEnv, SameHistory
    DEF GenStop, TypeInv, TypeOK
<1>9. CASE GenWaitClear
  <2>1. /\ ids' \in Seq(WireIds)
        /\ DOMAIN in_flight' \subseteq WireIds
        /\ in_flight' \in [DOMAIN in_flight' -> 0..config.timeout]
        /\ timed_out' \in Nat /\ expired' \in Nat
    BY <1>1, <1>9, ClearTimeoutsType DEF GenWaitClear, HistoryType
  <2>2. StoreType'
    BY <1>1, <1>9, <2>1 DEF GenWaitClear, StoreType
  <2>3. HistoryType'
    BY <1>1, <1>9, <2>1 DEF GenWaitClear, HistoryType
  <2>4. GenType'
    BY <1>1, <1>9 DEF GenWaitClear, GenType
  <2> QED
    BY <1>1, <1>9, <2>2, <2>3, <2>4, SameSender, SameEnv
    DEF GenWaitClear, TypeInv, TypeOK
<1>10. CASE GenWaitCheck
  <2>1. GenType'
    BY <1>1, <1>10 DEF GenWaitCheck, GenType
  <2> QED
    BY <1>1, <1>10, <2>1, SameStore, SameSender, SameEnv, SameHistory
    DEF GenWaitCheck, TypeInv, TypeOK
<1>11. CASE GenLog
  <2>1. InFlightNow \in Nat
    BY <1>1, InFlightFinite DEF InFlightNow, StoreType
  <2>2. report' \in ReportType
    BY <1>1, <1>11, <2>1 DEF GenLog, GenType, ReportType
  <2>3. GenType'
    BY <1>1, <1>11, <2>2 DEF GenLog, GenType
  <2> QED
    BY <1>1, <1>11, <2>3, SameStore, SameSender, SameEnv, SameHistory
    DEF GenLog, TypeInv, TypeOK
<1>12. CASE GenLoadTimeouts
  <2>1. report' \in ReportType
    BY <1>1, <1>12 DEF GenLoadTimeouts, GenType, StoreType, ReportType
  <2>2. GenType'
    BY <1>1, <1>12, <2>1 DEF GenLoadTimeouts, GenType
  <2> QED
    BY <1>1, <1>12, <2>2, SameStore, SameSender, SameEnv, SameHistory
    DEF GenLoadTimeouts, TypeInv, TypeOK
<1>13. CASE GenLoadSent
  <2>1. report' \in ReportType
    BY <1>1, <1>13 DEF GenLoadSent, GenType, StoreType, ReportType
  <2>2. GenType'
    BY <1>1, <1>13, <2>1 DEF GenLoadSent, GenType
  <2> QED
    BY <1>1, <1>13, <2>2, SameStore, SameSender, SameEnv, SameHistory
    DEF GenLoadSent, TypeInv, TypeOK
<1>14. CASE GenResetSent
  <2>1. GenType'
    BY <1>1, <1>14 DEF GenResetSent, GenType
  <2>2. StoreType'
    BY <1>1, <1>14 DEF GenResetSent, ResetSent, StoreType
  <2> QED
    BY <1>1, <1>14, <2>1, <2>2, SameSender, SameEnv, SameHistory
    DEF GenResetSent, TypeInv, TypeOK
<1>15. CASE GenResetTimeouts
  <2>1. GenType'
    BY <1>1, <1>15 DEF GenResetTimeouts, GenType
  <2>2. StoreType'
    BY <1>1, <1>15 DEF GenResetTimeouts, ResetTimedOut, StoreType
  <2> QED
    BY <1>1, <1>15, <2>1, <2>2, SameSender, SameEnv, SameHistory
    DEF GenResetTimeouts, TypeInv, TypeOK
<1>16. CASE GenSend
  <2>1. report' \in ReportType
    BY <1>16 DEF GenSend, NoReport, ReportType
  <2>2. GenType'
    BY <1>1, <1>16, <2>1 DEF GenSend, AfterReport, GenType
  <2>3. StoreType'
    BY <1>1, <1>16 DEF GenSend, StoreType
  <2>4. totals' \in [sent : Nat, timeouts : Nat, ok_recv : Nat]
    BY <1>1, <1>16 DEF GenSend, GenType, HistoryType, ReportType
  <2>5. HistoryType'
    BY <1>1, <1>16, <2>4 DEF GenSend, HistoryType
  <2> QED
    BY <1>1, <1>16, <2>2, <2>3, <2>5, SameSender, SameEnv
    DEF GenSend, TypeInv, TypeOK
<1> QED
  BY <1>3, <1>4, <1>5, <1>6, <1>7, <1>8, <1>9, <1>10, <1>11, <1>12, <1>13,
     <1>14, <1>15, <1>16 DEF GenNext, GenReads

LEMMA NextTypeInv == TypeInv /\ [Next]_vars => TypeInv'
<1> SUFFICES ASSUME TypeInv, [Next]_vars PROVE TypeInv'
  OBVIOUS
<1>1. CASE Next
  BY <1>1, SenderTypeInv, CleanupTypeInv, GenTypeInv, EnvTypeInv DEF Next
<1>2. CASE UNCHANGED vars
  BY <1>2, SameStore, SameSender, SameGen, SameEnv, SameHistory
  DEF vars, TypeInv, TypeOK
<1> QED
  BY <1>1, <1>2

LEMMA TypeInvariance == Spec => []TypeInv
BY InitTypeInv, NextTypeInv, PTL DEF Spec

\* Every reachable state has the declared types, for every pool, batch size and
\* set of configurations.
THEOREM TypeCorrect == Spec => []TypeOK
<1>1. TypeInv => TypeOK
  BY DEF TypeInv
<1> QED
  BY <1>1, TypeInvariance, PTL

-----------------------------------------------------------------------------
(* The steps of the store: all that a step can do to the ids *)

\* The sender begins a batch with none of the last one left, and has forgotten
\* none while it lives.
BatchStarts ==
  /\ sender = "yield" => batch = <<>>
  /\ sender \notin SenderDead => forgotten = <<>>

\* The rest of the batch stays with the sender, or is dropped as it dies.
Rests(rest) ==
  \/ batch' = rest /\ forgotten' = forgotten
  \/ batch' = <<>> /\ forgotten = <<>> /\ forgotten' = rest

Pops ==
  /\ ids # <<>> /\ ids' = Tail(ids)
  /\ batch' = IF Head(ids) \in DOMAIN in_flight THEN batch
                                                ELSE Append(batch, Head(ids))
  /\ UNCHANGED <<forgotten, in_flight, strays, issued, answered, expired>>

Issues ==
  /\ batch # <<>> /\ Rests(Tail(batch))
  /\ in_flight' = Inserted(Head(batch))
  /\ issued' = issued + 1
  /\ UNCHANGED <<ids, strays, answered, expired>>

Clears == ClearTimeouts /\ UNCHANGED <<batch, forgotten, strays, issued, answered>>

Settles(id) ==
  /\ Settle(id)
  /\ answered' = answered + IF id \in DOMAIN in_flight THEN 1 ELSE 0
  /\ UNCHANGED <<batch, forgotten, issued, expired>>

KeepsIds ==
  /\ DOMAIN in_flight' = DOMAIN in_flight
  /\ Rests(batch)
  /\ UNCHANGED <<ids, strays, issued, answered, expired>>

StoreStep ==
  Pops \/ Issues \/ Clears \/ (\E id \in WireIds : Settles(id)) \/ KeepsIds

LEMMA StoreSteps == TypeInv /\ BatchStarts /\ [Next]_vars => StoreStep
<1> SUFFICES ASSUME TypeInv, BatchStarts, [Next]_vars PROVE StoreStep
  OBVIOUS
<1>1. CASE SenderWake
  BY <1>1 DEF SenderWake, BatchStarts, StoreStep, KeepsIds, Rests
<1>2. CASE SenderPop
  BY <1>2 DEF SenderPop, StoreStep, Pops
<1>3. CASE SenderIssue
  <2>1. Rests(Tail(batch)) /\ batch # <<>>
    BY <1>3 DEF SenderIssue, SenderGoes, LivesOn, Dies, Rests, BatchStarts, SenderDead,
                TypeInv
  <2> QED
    BY <1>3, <2>1 DEF SenderIssue, StoreStep, Issues
<1>4. CASE SenderPopped \/ SenderDry \/ SenderSend \/ SenderFail \/ SenderCount
  <2>1. Rests(batch)
    BY <1>4 DEF SenderPopped, SenderDry, SenderSend, SenderFail, SenderCount,
                SenderGoes, LivesOn, Dies, Rests, BatchStarts, SenderDead
  <2> QED
    BY <1>4, <2>1 DEF SenderPopped, SenderDry, SenderSend, SenderFail, SenderCount,
                      StoreStep, KeepsIds
<1>5. CASE CleanupTick \/ GenWaitClear
  BY <1>5 DEF CleanupTick, GenWaitClear, StoreStep, Clears
<1>6. CASE CleanupPanics
  BY <1>6 DEF CleanupPanics, StoreStep, KeepsIds, Rests
<1>7. ASSUME NEW id \in WireIds, GenRecv(id) PROVE StoreStep
  BY <1>7 DEF GenRecv, StoreStep, Settles
<1>8. ASSUME NEW id \in WireIds, GenRecvCut(id) PROVE StoreStep
  BY <1>8 DEF GenRecvCut, StoreStep, Settles
<1>9. ASSUME NEW id \in WireIds, GenRecvStub(id) \/ GenRecvError(id) \/ Arrive(id)
      PROVE  StoreStep
  BY <1>9 DEF GenRecvStub, GenRecvError, Arrive, StoreStep, KeepsIds, Rests
<1>10. CASE GenEnds \/ GenStop \/ GenWaitCheck \/ GenLog \/ GenLoadTimeouts
  <2>1. Rests(batch)
    BY <1>10 DEF GenEnds, GenStop, AbortSender, SenderAwaits, Dies, GenWaitCheck,
                 GenLog, GenLoadTimeouts, Rests, BatchStarts, SenderDead
  <2> QED
    BY <1>10, <2>1 DEF GenEnds, GenStop, GenWaitCheck, GenLog, GenLoadTimeouts,
                       StoreStep, KeepsIds
<1>11. CASE GenLoadSent \/ GenResetSent \/ GenResetTimeouts \/ GenSend \/ Notify
  BY <1>11 DEF GenLoadSent, GenResetSent, GenResetTimeouts, GenSend, Notify,
               StoreStep, KeepsIds, Rests
<1>12. CASE Tick
  BY <1>12 DEF Tick, StoreStep, KeepsIds, Rests
<1>13. CASE UNCHANGED vars
  BY <1>13 DEF vars, StoreStep, KeepsIds, Rests
<1> QED
  BY <1>1, <1>2, <1>3, <1>4, <1>5, <1>6, <1>7, <1>8, <1>9, <1>10, <1>11,
     <1>12, <1>13 DEF Next, SenderNext, CleanupNext, GenNext, GenReads, EnvNext

LEMMA BatchStartsStep == TypeInv /\ BatchStarts /\ [Next]_vars => BatchStarts'
<1> SUFFICES ASSUME BatchStarts, [Next]_vars PROVE BatchStarts'
  OBVIOUS
<1> USE DEF BatchStarts, SenderDead
<1>1. CASE SenderWake \/ SenderPop \/ SenderDry \/ SenderSend \/ SenderFail
  BY <1>1 DEF SenderWake, SenderPop, SenderDry, SenderSend, SenderFail, Dies
<1>2. CASE SenderPopped \/ SenderCount
  BY <1>2 DEF SenderPopped, SenderCount, SenderGoes, LivesOn, Dies
<1>3. CASE SenderIssue
  BY <1>3 DEF SenderIssue, SenderGoes, LivesOn, Dies
<1>4. CASE CleanupNext \/ EnvNext
  BY <1>4 DEF CleanupNext, CleanupTick, CleanupPanics, EnvNext, Tick, Notify,
              Arrive
<1>5. CASE GenStop
  BY <1>5 DEF GenStop, AbortSender, Dies
<1>6. ASSUME NEW id \in WireIds,
             GenRecv(id) \/ GenRecvCut(id) \/ GenRecvStub(id) \/ GenRecvError(id)
      PROVE  BatchStarts'
  BY <1>6 DEF GenRecv, GenRecvCut, GenRecvStub, GenRecvError
<1>7. CASE GenEnds \/ GenWaitClear \/ GenWaitCheck \/ GenLog \/ GenLoadTimeouts
           \/ GenLoadSent \/ GenResetSent \/ GenResetTimeouts \/ GenSend
  BY <1>7 DEF GenEnds, GenWaitClear, GenWaitCheck, GenLog, GenLoadTimeouts,
              GenLoadSent, GenResetSent, GenResetTimeouts, GenSend
<1>8. CASE UNCHANGED vars
  BY <1>8 DEF vars
<1> QED
  BY <1>1, <1>2, <1>3, <1>4, <1>5, <1>6, <1>7, <1>8
  DEF Next, SenderNext, GenNext, GenReads

LEMMA BatchInvariance == Spec => [](TypeInv /\ BatchStarts)
<1>1. Init => BatchStarts
  BY DEF Init, BatchStarts
<1> QED
  BY <1>1, TypeInvariance, InitTypeInv, NextTypeInv, BatchStartsStep, PTL
  DEF Spec

-----------------------------------------------------------------------------
(* No id is lost *)

\* What Clears does to the queue: a suffix with the elements of TimedOut.
LEMMA ClearsEffect ==
  ASSUME TypeInv, Clears
  PROVE  \E order \in Seq(WireIds) :
           /\ ids' = ids \o order
           /\ Range(order) = TimedOut /\ IsInjective(order)
           /\ Len(order) = Cardinality(TimedOut)
           /\ DOMAIN in_flight' = DOMAIN in_flight \ TimedOut
           /\ expired' = expired + Cardinality(TimedOut)
<1>1. StoreType
  BY DEF TypeInv, TypeOK
<1>2. PICK order \in Orders(TimedOut) : ids' = ids \o order
  BY DEF Clears, ClearTimeouts, ReturnIds
<1>3. /\ order \in Seq(WireIds) /\ Len(order) = Cardinality(TimedOut)
      /\ Range(order) = TimedOut /\ IsInjective(order)
  BY <1>1, <1>2, TimedOutType, OrderIsSeq
<1>4. /\ DOMAIN in_flight' = DOMAIN in_flight \ TimedOut
      /\ expired' = expired + Cardinality(TimedOut)
  BY <1>1, RemovedType DEF Clears, ClearTimeouts
<1> QED
  BY <1>2, <1>3, <1>4

\* An id of the pool is in one of the four places it may be in.
Held ==
  PoolIds \subseteq Range(ids) \cup Range(batch) \cup Range(forgotten)
                       \cup DOMAIN in_flight

\* Whether it stays with the sender or not, the rest of a batch has the same ids.
LEMMA RestsEffect ==
  ASSUME NEW rest \in Seq(WireIds), forgotten \in Seq(WireIds), Rests(rest)
  PROVE  /\ Range(batch') \cup Range(forgotten') = Range(rest) \cup Range(forgotten)
         /\ Len(batch') + Len(forgotten') = Len(rest) + Len(forgotten)
         /\ Range(batch') \subseteq Range(rest)
         /\ IsInjective(rest) => IsInjective(batch')
         /\ Len(batch') \in Nat /\ Len(forgotten') \in Nat
<1>1. /\ Range(<<>>) = {} /\ IsInjective(<<>>) /\ Len(<<>>) = 0
      /\ Len(rest) \in Nat /\ Len(forgotten) \in Nat
  BY DEF Range, IsInjective
<1>2. CASE batch' = rest /\ forgotten' = forgotten
  BY <1>1, <1>2
<1>3. CASE batch' = <<>> /\ forgotten = <<>> /\ forgotten' = rest
  BY <1>1, <1>3
<1> QED
  BY <1>2, <1>3 DEF Rests

LEMMA ConservedStep == TypeInv /\ Held /\ StoreStep => Held'
<1> SUFFICES ASSUME TypeInv, Held, StoreStep PROVE Held'
  OBVIOUS
<1>1. StoreType /\ SenderType
  BY DEF TypeInv, TypeOK
<1>2. /\ ids \in Seq(WireIds) /\ batch \in Seq(WireIds)
      /\ forgotten \in Seq(WireIds)
  BY <1>1 DEF StoreType, SenderType
<1>3. CASE Pops
  <2>1. Head(ids) \in WireIds /\ Range(ids) = {Head(ids)} \cup Range(ids')
    BY <1>2, <1>3, RangeTail DEF Pops
  <2>2. CASE Head(ids) \in DOMAIN in_flight
    BY <1>3, <2>1, <2>2 DEF Pops, Held
  <2>3. CASE Head(ids) \notin DOMAIN in_flight
    <3>1. Range(batch') = Range(batch) \cup {Head(ids)}
      BY <1>2, <1>3, <2>1, <2>3, RangeAppend DEF Pops
    <3> QED
      BY <1>3, <2>1, <3>1 DEF Pops, Held
  <2> QED
    BY <2>2, <2>3
<1>4. CASE Issues
  <2>1. /\ Tail(batch) \in Seq(WireIds)
        /\ Range(batch) = {Head(batch)} \cup Range(Tail(batch))
    BY <1>2, <1>4, RangeTail DEF Issues
  <2>2. DOMAIN in_flight' = DOMAIN in_flight \cup {Head(batch)}
    BY <1>4 DEF Issues, Inserted
  <2>3. Range(batch') \cup Range(forgotten') = Range(Tail(batch)) \cup Range(forgotten)
    BY <1>2, <1>4, <2>1, RestsEffect DEF Issues
  <2> QED
    BY <1>4, <2>1, <2>2, <2>3 DEF Issues, Held
<1>5. CASE Clears
  <2>1. PICK order \in Seq(WireIds) :
          /\ ids' = ids \o order /\ Range(order) = TimedOut
          /\ DOMAIN in_flight' = DOMAIN in_flight \ TimedOut
    BY <1>5, ClearsEffect
  <2>2. Range(ids') = Range(ids) \cup TimedOut
    BY <1>2, <2>1, RangeConcat
  <2> QED
    BY <1>5, <2>1, <2>2 DEF Clears, Held
<1>6. ASSUME NEW id \in WireIds, Settles(id) PROVE Held'
  <2>1. Range(ids') = Range(ids) \cup {id}
    BY <1>2, <1>6, RangeAppend DEF Settles, Settle
  <2>2. DOMAIN in_flight' = DOMAIN in_flight \ {id}
    BY <1>1, <1>6, RemovedType DEF Settles, Settle
  <2> QED
    BY <1>6, <2>1, <2>2 DEF Settles, Held
<1>7. CASE KeepsIds
  BY <1>2, <1>7, RestsEffect DEF KeepsIds, Held
<1> QED
  BY <1>3, <1>4, <1>5, <1>6, <1>7 DEF StoreStep

\* The pool of the start, as the shuffle of Store::new leaves it.
LEMMA InitPool ==
  ASSUME Init
  PROVE  /\ ids \in Seq(WireIds) /\ Range(ids) = PoolIds /\ IsInjective(ids)
         /\ Len(ids) = Cardinality(PoolIds)
         /\ Range(batch) = {} /\ IsInjective(batch) /\ Len(batch) = 0
         /\ Len(forgotten) = 0
         /\ DOMAIN in_flight = {} /\ Cardinality(DOMAIN in_flight) = 0
<1>1. /\ ids \in Seq(WireIds) /\ Range(ids) = PoolIds /\ IsInjective(ids)
      /\ Len(ids) = Cardinality(PoolIds)
  BY OrderIsSeq DEF Init, WireIds
<1>2. /\ Range(batch) = {} /\ IsInjective(batch) /\ Len(batch) = 0
      /\ Len(forgotten) = 0
  BY DEF Init, Range, IsInjective
<1>3. DOMAIN in_flight = {} /\ Cardinality(DOMAIN in_flight) = 0
  BY FS_EmptySet DEF Init
<1> QED
  BY <1>1, <1>2, <1>3

LEMMA HeldInvariance == Spec => [](TypeInv /\ BatchStarts /\ Held)
<1>1. Init => Held
  BY InitPool DEF Held
<1>2. TypeInv /\ BatchStarts /\ Held /\ [Next]_vars => Held'
  BY StoreSteps, ConservedStep
<1> QED
  BY <1>1, <1>2, BatchInvariance, PTL DEF Spec

\* No interleaving of the three tasks and no stray, late or repeated reply makes
\* an id of the pool disappear; the end of the sender takes the rest of the one
\* batch it is in with it, and nothing else does.
THEOREM NoIdLost == Spec => []IdsConserved
<1>1. BatchStarts /\ Held => IdsConserved
  BY DEF BatchStarts, Held, IdsConserved
<1> QED
  BY <1>1, HeldInvariance, PTL

-----------------------------------------------------------------------------
(* No id is in two places while every reply answers a query in flight *)

\* One stray reply is enough to lose it: strays never goes back to zero.
LEMMA StraysStep ==
  ASSUME strays \in Nat, StoreStep, strays' = 0
  PROVE  strays = 0
<1>1. ASSUME NEW id, Settles(id) PROVE strays' \in {strays, strays + 1}
  BY <1>1 DEF Settles, Settle
<1>2. CASE Pops \/ Issues \/ Clears \/ KeepsIds
  BY <1>2 DEF Pops, Issues, Clears, KeepsIds
<1> QED
  BY <1>1, <1>2 DEF StoreStep

LEMMA UniqueStep == TypeInv /\ UniqueIds /\ StoreStep => UniqueIds'
<1> SUFFICES ASSUME TypeInv, UniqueIds, StoreStep, strays' = 0
             PROVE  /\ IsInjective(ids') /\ IsInjective(batch')
                    /\ Range(ids') \cap Range(batch') = {}
                    /\ Range(ids') \cap DOMAIN in_flight' = {}
                    /\ Range(batch') \cap DOMAIN in_flight' = {}
  BY DEF UniqueIds
<1>1. StoreType /\ SenderType /\ strays \in Nat
  BY DEF TypeInv, TypeOK, HistoryType
<1>2. /\ ids \in Seq(WireIds) /\ batch \in Seq(WireIds)
      /\ forgotten \in Seq(WireIds)
  BY <1>1 DEF StoreType, SenderType
<1>3. strays = 0
  BY <1>1, StraysStep
<1>4. /\ IsInjective(ids) /\ IsInjective(batch)
      /\ Range(ids) \cap Range(batch) = {}
      /\ Range(ids) \cap DOMAIN in_flight = {}
      /\ Range(batch) \cap DOMAIN in_flight = {}
  BY <1>3 DEF UniqueIds
<1>5. CASE Pops
  <2>1. /\ Head(ids) \in WireIds
        /\ Range(ids) = {Head(ids)} \cup Range(ids')
        /\ IsInjective(ids') /\ Head(ids) \notin Range(ids')
    BY <1>2, <1>4, <1>5, RangeTail DEF Pops
  <2>2. batch' = Append(batch, Head(ids)) /\ Head(ids) \notin Range(batch)
    BY <1>4, <1>5, <2>1 DEF Pops
  <2>3. Range(batch') = Range(batch) \cup {Head(ids)} /\ IsInjective(batch')
    BY <1>2, <1>4, <2>1, <2>2, RangeAppend
  <2> QED
    BY <1>4, <1>5, <2>1, <2>3 DEF Pops
<1>6. CASE Issues
  <2>1. /\ Tail(batch) \in Seq(WireIds)
        /\ Range(batch) = {Head(batch)} \cup Range(Tail(batch))
        /\ IsInjective(Tail(batch)) /\ Head(batch) \notin Range(Tail(batch))
    BY <1>2, <1>4, <1>6, RangeTail DEF Issues
  <2>2. DOMAIN in_flight' = DOMAIN in_flight \cup {Head(batch)}
    BY <1>6 DEF Issues, Inserted
  <2>3. IsInjective(batch') /\ Range(batch') \subseteq Range(Tail(batch))
    BY <1>2, <1>6, <2>1, RestsEffect DEF Issues
  <2> QED
    BY <1>4, <1>6, <2>1, <2>2, <2>3 DEF Issues
<1>7. CASE Clears
  <2>1. PICK order \in Seq(WireIds) :
          /\ ids' = ids \o order
          /\ Range(order) = TimedOut /\ IsInjective(order)
          /\ DOMAIN in_flight' = DOMAIN in_flight \ TimedOut
    BY <1>7, ClearsEffect
  <2>2. Range(ids) \cap TimedOut = {} /\ TimedOut \subseteq DOMAIN in_flight
    BY <1>1, <1>4, TimedOutType
  <2>3. Range(ids') = Range(ids) \cup TimedOut /\ IsInjective(ids')
    BY <1>2, <1>4, <2>1, <2>2, RangeConcat
  <2> QED
    BY <1>4, <1>7, <2>1, <2>2, <2>3 DEF Clears
<1>8. ASSUME NEW id \in WireIds, Settles(id)
      PROVE  /\ IsInjective(ids') /\ IsInjective(batch')
             /\ Range(ids') \cap Range(batch') = {}
             /\ Range(ids') \cap DOMAIN in_flight' = {}
             /\ Range(batch') \cap DOMAIN in_flight' = {}
  <2>1. id \in DOMAIN in_flight
    BY <1>3, <1>8 DEF Settles, Settle
  <2>2. Range(ids') = Range(ids) \cup {id} /\ IsInjective(ids')
    BY <1>2, <1>4, <1>8, <2>1, RangeAppend DEF Settles, Settle
  <2>3. DOMAIN in_flight' = DOMAIN in_flight \ {id}
    BY <1>1, <1>8, RemovedType DEF Settles, Settle
  <2> QED
    BY <1>4, <1>8, <2>1, <2>2, <2>3 DEF Settles
<1>9. CASE KeepsIds
  <2>1. IsInjective(batch') /\ Range(batch') \subseteq Range(batch)
    BY <1>2, <1>4, <1>9, RestsEffect DEF KeepsIds
  <2> QED
    BY <1>4, <1>9, <2>1 DEF KeepsIds
<1> QED
  BY <1>5, <1>6, <1>7, <1>8, <1>9 DEF StoreStep

LEMMA UniqueInvariance == Spec => [](TypeInv /\ BatchStarts /\ UniqueIds)
<1>1. Init => UniqueIds
  BY InitPool DEF UniqueIds
<1>2. TypeInv /\ BatchStarts /\ UniqueIds /\ [Next]_vars => UniqueIds'
  BY StoreSteps, UniqueStep
<1> QED
  BY <1>1, <1>2, BatchInvariance, PTL DEF Spec

\* While every reply answers a query in flight, the insert of a query finds its
\* id free and the pool holds no id twice.
THEOREM IdsUnique == Spec => []UniqueIds
BY UniqueInvariance, PTL

-----------------------------------------------------------------------------
(* Every query ends once, and the store is bounded *)

Out == Cardinality(DOMAIN in_flight)

\* The places for ids: a query that is issued and neither answered nor timed out
\* takes one, whether or not another took its place in flight, and only a reply
\* that answered nothing adds one.
Places == Len(ids) + Len(batch) + Len(forgotten) + (issued - answered - expired)

PlacesInv ==
  /\ Places <= Cardinality(PoolIds) + strays
  /\ Out <= issued - answered - expired

LEMMA PlacesStep == TypeInv /\ PlacesInv /\ StoreStep => PlacesInv'
<1> SUFFICES ASSUME TypeInv, PlacesInv, StoreStep PROVE PlacesInv'
  OBVIOUS
<1> USE DEF PlacesInv, Places
<1>1. /\ StoreType /\ SenderType /\ strays \in Nat
      /\ issued \in Nat /\ answered \in Nat /\ expired \in Nat
  BY DEF TypeInv, TypeOK, HistoryType
<1>2. /\ ids \in Seq(WireIds) /\ Len(ids) \in Nat
      /\ batch \in Seq(WireIds) /\ Len(batch) \in Nat
      /\ forgotten \in Seq(WireIds) /\ Len(forgotten) \in Nat
  BY <1>1 DEF StoreType, SenderType
<1>3. /\ DOMAIN in_flight \in SUBSET WireIds /\ IsFiniteSet(DOMAIN in_flight)
      /\ Out \in Nat
  BY <1>1, InFlightFinite DEF StoreType, Out
<1>4. Cardinality(PoolIds) \in Nat
  BY PoolAssumption, FS_CardinalityType
<1>5. CASE Pops
  <2>1. Head(ids) \in WireIds /\ Len(ids') = Len(ids) - 1
    BY <1>2, <1>5, RangeTail DEF Pops
  <2>2. Len(batch') \in {Len(batch), Len(batch) + 1}
    BY <1>2, <1>5, <2>1, RangeAppend DEF Pops
  <2>3. Out' = Out
    BY <1>5 DEF Pops, Out
  <2> QED
    BY <1>1, <1>2, <1>3, <1>4, <1>5, <2>1, <2>2, <2>3 DEF Pops
<1>6. CASE Issues
  <2>1. Tail(batch) \in Seq(WireIds) /\ Len(Tail(batch)) = Len(batch) - 1
    BY <1>2, <1>6, RangeTail DEF Issues
  <2>2. /\ Len(batch') + Len(forgotten') = Len(Tail(batch)) + Len(forgotten)
        /\ Len(batch') \in Nat /\ Len(forgotten') \in Nat
    BY <1>2, <1>6, <2>1, RestsEffect DEF Issues
  <2>3. DOMAIN in_flight' = DOMAIN in_flight \cup {Head(batch)}
    BY <1>6 DEF Issues, Inserted
  <2>4. Cardinality(DOMAIN in_flight \cup {Head(batch)}) \in {Out, Out + 1}
    BY <1>3, FS_AddElement DEF Out
  <2>5. Out' \in {Out, Out + 1}
    BY <2>3, <2>4 DEF Out
  <2> QED
    BY <1>1, <1>2, <1>3, <1>4, <1>6, <2>1, <2>2, <2>5 DEF Issues
<1>7. CASE Clears
  <2>1. PICK order \in Seq(WireIds) :
          /\ ids' = ids \o order /\ Len(order) = Cardinality(TimedOut)
          /\ DOMAIN in_flight' = DOMAIN in_flight \ TimedOut
          /\ expired' = expired + Cardinality(TimedOut)
    BY <1>7, ClearsEffect
  <2>2. TimedOut \subseteq DOMAIN in_flight /\ Cardinality(TimedOut) \in Nat
    BY <1>1, TimedOutType
  <2>3. DOMAIN in_flight \cap TimedOut = TimedOut
    BY <2>2
  <2>4. Cardinality(DOMAIN in_flight \ TimedOut) = Out - Cardinality(TimedOut)
    BY <1>3, <2>3, FS_Difference DEF Out
  <2>5. Out' = Out - Len(order) /\ Len(order) \in Nat
    BY <2>1, <2>2, <2>4 DEF Out
  <2>6. Len(ids') = Len(ids) + Len(order)
    BY <1>2, <2>1, RangeConcat
  <2> QED
    <3>1. /\ Len(batch') = Len(batch) /\ Len(forgotten') = Len(forgotten)
          /\ strays' = strays /\ issued' = issued /\ answered' = answered
          /\ expired' = expired + Len(order)
      BY <1>7, <2>1 DEF Clears
    <3>2. /\ Len(ids') + Len(batch') + Len(forgotten')
                + (issued' - answered' - expired') <= Cardinality(PoolIds) + strays'
          /\ Out' <= issued' - answered' - expired'
      BY <1>1, <1>2, <1>3, <1>4, <2>5, <2>6, <3>1
    <3> QED
      BY <3>2
<1>8. ASSUME NEW id \in WireIds, Settles(id) PROVE PlacesInv'
  <2>1. Len(ids') = Len(ids) + 1
    BY <1>2, <1>8, RangeAppend DEF Settles, Settle
  <2>2. DOMAIN in_flight' = DOMAIN in_flight \ {id}
    BY <1>1, <1>8, RemovedType DEF Settles, Settle
  <2>3. CASE id \in DOMAIN in_flight
    <3>1. Cardinality(DOMAIN in_flight \ {id}) = Out - 1
      BY <1>3, <2>3, FS_RemoveElement, Zenon DEF Out
    <3>2. Out' = Out - 1
      BY <2>2, <3>1 DEF Out
    <3>3. strays' = strays /\ answered' = answered + 1
      BY <1>8, <2>3 DEF Settles, Settle
    <3> QED
      BY <1>1, <1>2, <1>3, <1>4, <1>8, <2>1, <3>2, <3>3 DEF Settles
  <2>4. CASE id \notin DOMAIN in_flight
    <3>1. DOMAIN in_flight' = DOMAIN in_flight
      BY <2>2, <2>4
    <3>2. Out' = Out
      BY <3>1 DEF Out
    <3>3. strays' = strays + 1 /\ answered' = answered
      BY <1>1, <1>8, <2>4 DEF Settles, Settle
    <3> QED
      BY <1>1, <1>2, <1>3, <1>4, <1>8, <2>1, <3>2, <3>3 DEF Settles
  <2> QED
    BY <2>3, <2>4
<1>9. CASE KeepsIds
  <2>1. /\ Len(batch') + Len(forgotten') = Len(batch) + Len(forgotten)
        /\ Len(batch') \in Nat /\ Len(forgotten') \in Nat
    BY <1>2, <1>9, RestsEffect DEF KeepsIds
  <2>2. Out' = Out
    BY <1>9 DEF KeepsIds, Out
  <2> QED
    <3>1. /\ Len(ids') = Len(ids) /\ strays' = strays /\ issued' = issued
          /\ answered' = answered /\ expired' = expired
      BY <1>9 DEF KeepsIds
    <3>2. /\ Len(ids') + Len(batch') + Len(forgotten')
                + (issued' - answered' - expired') <= Cardinality(PoolIds) + strays'
          /\ Out' <= issued' - answered' - expired'
      BY <1>1, <1>2, <1>3, <1>4, <2>1, <2>2, <3>1
    <3> QED
      BY <3>2
<1> QED
  BY <1>5, <1>6, <1>7, <1>8, <1>9 DEF StoreStep

LEMMA PlacesInvariance == Spec => [](TypeInv /\ BatchStarts /\ PlacesInv)
<1>1. ASSUME Init PROVE PlacesInv
  <2>1. /\ strays = 0 /\ issued = 0 /\ answered = 0 /\ expired = 0
        /\ Cardinality(PoolIds) \in Nat
    BY <1>1, PoolAssumption, FS_CardinalityType DEF Init
  <2> QED
    BY <1>1, <2>1, InitPool DEF PlacesInv, Places, Out
<1>2. TypeInv /\ BatchStarts /\ PlacesInv /\ [Next]_vars => PlacesInv'
  BY StoreSteps, PlacesStep
<1> QED
  BY <1>1, <1>2, BatchInvariance, PTL DEF Spec

\* The pool's ids fit in the places that hold them.
LEMMA PoolFits ==
  ASSUME TypeInv, Held
  PROVE  Cardinality(PoolIds) <= Len(ids) + Len(batch) + Len(forgotten) + Out
<1> DEFINE A == Range(ids)
           B == Range(batch)
           C == Range(forgotten)
           D == DOMAIN in_flight
<1>1. /\ ids \in Seq(WireIds) /\ batch \in Seq(WireIds) /\ forgotten \in Seq(WireIds)
      /\ D \in SUBSET WireIds
  BY DEF TypeInv, TypeOK, StoreType, SenderType
<1>2. /\ IsFiniteSet(A) /\ Cardinality(A) <= Len(ids) /\ Cardinality(A) \in Nat
      /\ IsFiniteSet(B) /\ Cardinality(B) <= Len(batch) /\ Cardinality(B) \in Nat
      /\ IsFiniteSet(C) /\ Cardinality(C) <= Len(forgotten) /\ Cardinality(C) \in Nat
      /\ IsFiniteSet(D) /\ Cardinality(D) = Out /\ Out \in Nat
      /\ Len(ids) \in Nat /\ Len(batch) \in Nat /\ Len(forgotten) \in Nat
  BY <1>1, RangeSize, InFlightFinite, FS_CardinalityType DEF Out
<1> HIDE DEF A, B, C, D
<1>3. ASSUME NEW S, IsFiniteSet(S), NEW T, IsFiniteSet(T)
      PROVE  /\ IsFiniteSet(S \cup T)
             /\ Cardinality(S \cup T) \in Nat
             /\ Cardinality(S \cup T) <= Cardinality(S) + Cardinality(T)
  <2>1. IsFiniteSet(S \cap T)
    BY <1>3, FS_Intersection
  <2>2. /\ Cardinality(S \cap T) \in Nat
        /\ Cardinality(S) \in Nat /\ Cardinality(T) \in Nat
    BY <1>3, <2>1, FS_CardinalityType
  <2>3. /\ IsFiniteSet(S \cup T)
        /\ Cardinality(S \cup T) = Cardinality(S) + Cardinality(T) - Cardinality(S \cap T)
    BY <1>3, FS_Union
  <2>4. Cardinality(S \cup T) \in Nat
    BY <2>3, FS_CardinalityType
  <2> QED
    BY <2>2, <2>3, <2>4
<1>4. /\ IsFiniteSet(A \cup B) /\ Cardinality(A \cup B) \in Nat
      /\ Cardinality(A \cup B) <= Cardinality(A) + Cardinality(B)
  BY <1>2, <1>3
<1>5. /\ IsFiniteSet(A \cup B \cup C) /\ Cardinality(A \cup B \cup C) \in Nat
      /\ Cardinality(A \cup B \cup C) <= Cardinality(A \cup B) + Cardinality(C)
  BY <1>2, <1>3, <1>4
<1>6. /\ IsFiniteSet(A \cup B \cup C \cup D)
      /\ Cardinality(A \cup B \cup C \cup D) \in Nat
      /\ Cardinality(A \cup B \cup C \cup D) <= Cardinality(A \cup B \cup C) + Cardinality(D)
  BY <1>2, <1>3, <1>5
<1>7. PoolIds \in SUBSET (A \cup B \cup C \cup D)
  BY DEF Held, A, B, C, D
<1>8. /\ Cardinality(PoolIds) \in Nat
      /\ Cardinality(PoolIds) <= Cardinality(A \cup B \cup C \cup D)
  BY <1>6, <1>7, PoolAssumption, FS_Subset, FS_CardinalityType
<1> QED
  BY <1>2, <1>4, <1>5, <1>6, <1>8

\* The books of the store balance: a query is answered once, or timed out once,
\* or still in flight, but for those that another query overwrote, and there are
\* no more of these than replies that answered nothing.
THEOREM EachQuerySettledOnce == Spec => []SettledOnce
<1>1. ASSUME TypeInv, Held, PlacesInv PROVE SettledOnce
  <2>1. /\ issued \in Nat /\ answered \in Nat /\ expired \in Nat /\ strays \in Nat
        /\ ids \in Seq(WireIds) /\ batch \in Seq(WireIds) /\ forgotten \in Seq(WireIds)
        /\ DOMAIN in_flight \in SUBSET WireIds
    BY <1>1 DEF TypeInv, TypeOK, HistoryType, StoreType, SenderType
  <2>2. Out \in Nat /\ Cardinality(PoolIds) \in Nat
    BY <2>1, InFlightFinite, PoolAssumption, FS_CardinalityType DEF Out
  <2>3. Cardinality(PoolIds) <= Len(ids) + Len(batch) + Len(forgotten) + Out
    BY <1>1, PoolFits
  <2>4. Overwritten = issued - answered - expired - Out
    BY DEF Overwritten, Out
  <2> QED
    BY <1>1, <2>1, <2>2, <2>3, <2>4 DEF PlacesInv, Places, SettledOnce
<1> QED
  BY <1>1, HeldInvariance, PlacesInvariance, PTL

\* The memory of a generator is bounded by the pool and the frames that
\* answered nothing: no other event makes the store grow.
THEOREM StoreBounded == Spec => []PoolBound
<1>1. ASSUME TypeInv, PlacesInv PROVE PoolBound
  <2>1. /\ issued \in Nat /\ answered \in Nat /\ expired \in Nat /\ strays \in Nat
        /\ ids \in Seq(WireIds) /\ batch \in Seq(WireIds) /\ forgotten \in Seq(WireIds)
        /\ DOMAIN in_flight \in SUBSET WireIds
    BY <1>1 DEF TypeInv, TypeOK, HistoryType, StoreType, SenderType
  <2>2. Out \in Nat /\ Cardinality(PoolIds) \in Nat
    BY <2>1, InFlightFinite, PoolAssumption, FS_CardinalityType DEF Out
  <2>3. Len(ids) + Len(batch) + Out <= Cardinality(PoolIds) + strays
    BY <1>1, <2>1, <2>2 DEF PlacesInv, Places
  <2> QED
    BY <2>3 DEF PoolBound, Out
<1> QED
  BY <1>1, PlacesInvariance, PTL
=============================================================================
