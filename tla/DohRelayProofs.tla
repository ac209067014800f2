--------------------------- MODULE DohRelayProofs ---------------------------
(***************************************************************************)
(* Theorems about module DohRelay, for every capacity and every number of  *)
(* messages.                                                               *)
(***************************************************************************)
EXTENDS DohRelay, DataLemmas, FiniteSetTheorems, SequenceTheorems, TLAPS

USE DEF sendVars, requests, genVars

-----------------------------------------------------------------------------
(* Type correctness *)

LEMMA InitType == Init => TypeOK
<1> SUFFICES ASSUME Init PROVE TypeOK
  OBVIOUS
<1>1. accepted \in 0..MaxSends
  BY MaxSendsAssumption DEF Init
<1>2. /\ tx \in Seq(Msgs) /\ Len(tx) <= Capacity
      /\ resp \in Seq(Msgs) /\ Len(resp) <= Capacity
      /\ delivered \in Seq(Msgs)
  BY CapacityAssumption DEF Init
<1> QED
  BY <1>1, <1>2 DEF Init, TypeOK

\* What is left of the second channel when its reader is dropped.
LEMMA LeftoverType ==
  ASSUME TypeOK
  PROVE  /\ Range(resp) \subseteq Msgs
         /\ resp # <<>> => Range(Tail(resp)) \subseteq Msgs
<1>1. ASSUME NEW q \in Seq(Msgs) PROVE Range(q) \subseteq Msgs
  BY <1>1 DEF Range
<1>2. resp # <<>> => Tail(resp) \in Seq(Msgs)
  BY DEF TypeOK
<1> QED
  BY <1>1, <1>2 DEF TypeOK

LEMMA NextType == TypeOK /\ [Next]_vars => TypeOK'
<1> SUFFICES ASSUME TypeOK, [Next]_vars PROVE TypeOK'
  OBVIOUS
<1> USE DEF TypeOK
<1>1. CASE Send
  <2>1. accepted + 1 \in 0..MaxSends /\ accepted + 1 \in Msgs
    BY <1>1, MaxSendsAssumption DEF Send, Msgs
  <2>2. Len(tx) + 1 <= Capacity
    BY <1>1, CapacityAssumption DEF Send, HasRoom
  <2> QED
    BY <1>1, <2>1, <2>2 DEF Send
<1>2. CASE SenderEnds
  BY <1>2 DEF SenderEnds
<1>3. CASE RelayTakes
  BY <1>3, CapacityAssumption DEF RelayTakes
<1>4. CASE RelayEnds
  BY <1>4 DEF RelayEnds
<1>5. ASSUME NEW m \in Msgs, RequestNext(m) PROVE TypeOK'
  <2>1. CASE RequestAnswered(m)
    BY <2>1 DEF RequestAnswered
  <2>2. CASE RequestFails(m)
    BY <2>2 DEF RequestFails
  <2>3. CASE Respond(m)
    BY <2>3, CapacityAssumption DEF Respond, HasRoom, Finished
  <2>4. CASE RespondFails(m)
    BY <2>4 DEF RespondFails, Finished
  <2> QED
    BY <1>5, <2>1, <2>2, <2>3, <2>4 DEF RequestNext
<1>6. CASE GenNext
  <2>1. CASE GenRecv
    BY <2>1, CapacityAssumption DEF GenRecv
  <2>2. CASE GenEnds \/ GenStops
    BY <2>2 DEF GenEnds, GenStops
  <2>3. CASE GenDrained
    BY <2>3, LeftoverType, CapacityAssumption DEF GenDrained
  <2>4. CASE GenPanics
    BY <2>4, LeftoverType, CapacityAssumption DEF GenPanics
  <2> QED
    BY <1>6, <2>1, <2>2, <2>3, <2>4 DEF GenNext
<1>7. CASE UNCHANGED vars
  BY <1>7 DEF vars
<1> QED
  BY <1>1, <1>2, <1>3, <1>4, <1>5, <1>6, <1>7 DEF Next

\* A channel never holds more than its capacity, and every variable keeps its
\* type (sender.rs, the two bounded channels of DohSender).
THEOREM TypeCorrect == Spec => []TypeOK
BY InitType, NextType, PTL DEF Spec

-----------------------------------------------------------------------------
(* Where each message is *)

\* The six places a message may be in share none, and together they hold all
\* the messages that the first channel took.
Placed(a, b, c, d, e, f) ==
  /\ a \cap (b \cup c \cup d \cup e \cup f) = {}
  /\ b \cap (c \cup d \cup e \cup f) = {}
  /\ c \cap (d \cup e \cup f) = {}
  /\ d \cap (e \cup f) = {}
  /\ e \cap f = {}
  /\ a \cup b \cup c \cup d \cup e \cup f = 1..accepted

Distinct == IsInjective(tx) /\ IsInjective(resp) /\ IsInjective(delivered)

OnceInv ==
  /\ Distinct
  /\ Placed(Range(tx), awaiting, answered, Range(resp), Range(delivered), lost)

LEMMA OnceInit == Init => OnceInv
BY DEF Init, OnceInv, Distinct, Placed, IsInjective, Range

\* The reader takes an answer out of its channel.
LEMMA ReaderTakes ==
  ASSUME TypeOK, OnceInv, resp # <<>>,
         delivered' = Append(delivered, Head(resp))
  PROVE  /\ IsInjective(Tail(resp)) /\ IsInjective(delivered')
         /\ Range(resp) = {Head(resp)} \cup Range(Tail(resp))
         /\ Head(resp) \notin Range(Tail(resp))
         /\ Range(delivered') = Range(delivered) \cup {Head(resp)}
<1>1. /\ Head(resp) \in Msgs
      /\ Range(resp) = {Head(resp)} \cup Range(Tail(resp))
      /\ IsInjective(Tail(resp)) /\ Head(resp) \notin Range(Tail(resp))
  BY RangeTail DEF TypeOK, OnceInv, Distinct
<1>2. Head(resp) \notin Range(delivered)
  BY <1>1 DEF OnceInv, Placed
<1> QED
  BY <1>1, <1>2, RangeAppend DEF TypeOK, OnceInv, Distinct

LEMMA OnceStep == TypeOK /\ OnceInv /\ [Next]_vars => OnceInv'
<1> SUFFICES ASSUME TypeOK, OnceInv, [Next]_vars PROVE OnceInv'
  OBVIOUS
<1>1. CASE Send
  <2>1. accepted + 1 \in Msgs /\ accepted' = accepted + 1
    BY <1>1, MaxSendsAssumption DEF Send, TypeOK, Msgs
  <2>2. accepted + 1 \notin 1..accepted /\ 1..accepted' = 1..accepted \cup {accepted + 1}
    BY <2>1 DEF TypeOK
  <2>3. /\ accepted + 1 \notin Range(tx) /\ accepted + 1 \notin awaiting
        /\ accepted + 1 \notin answered /\ accepted + 1 \notin Range(resp)
        /\ accepted + 1 \notin Range(delivered) /\ accepted + 1 \notin lost
    BY <2>2 DEF OnceInv, Placed
  <2>4. Range(tx') = Range(tx) \cup {accepted + 1} /\ IsInjective(tx')
    BY <1>1, <2>1, <2>3, RangeAppend DEF Send, TypeOK, OnceInv, Distinct
  <2>5. UNCHANGED <<awaiting, answered, resp, delivered, lost>>
    BY <1>1 DEF Send
  <2> QED
    BY <2>2, <2>3, <2>4, <2>5 DEF OnceInv, Distinct, Placed
<1>2. CASE RelayTakes
  <2>1. /\ Range(tx) = {Head(tx)} \cup Range(Tail(tx))
        /\ IsInjective(Tail(tx)) /\ Head(tx) \notin Range(Tail(tx))
    BY <1>2, RangeTail DEF RelayTakes, TypeOK, OnceInv, Distinct
  <2>2. /\ tx' = Tail(tx) /\ awaiting' = awaiting \cup {Head(tx)}
        /\ UNCHANGED <<accepted, answered, resp, delivered, lost>>
    BY <1>2 DEF RelayTakes
  <2> QED
    BY <2>1, <2>2 DEF OnceInv, Distinct, Placed
<1>3. ASSUME NEW m \in Msgs, RequestNext(m) PROVE OnceInv'
  <2>1. UNCHANGED <<accepted, tx, delivered>>
    BY <1>3 DEF RequestNext, RequestAnswered, RequestFails, Respond, RespondFails
  <2>2. CASE ~ Respond(m)
    <3>1. UNCHANGED resp
      BY <1>3, <2>2
      DEF RequestNext, RequestAnswered, RequestFails, RespondFails
    <3>2. \/ m \in awaiting /\ awaiting' = awaiting \ {m}
                            /\ answered' = answered \cup {m} /\ lost' = lost
          \/ m \in awaiting /\ awaiting' = awaiting \ {m}
                            /\ answered' = answered /\ lost' = lost \cup {m}
          \/ m \in answered /\ awaiting' = awaiting
                            /\ answered' = answered \ {m} /\ lost' = lost \cup {m}
      BY <1>3, <2>2
      DEF RequestNext, RequestAnswered, RequestFails, RespondFails, Finished
    <3> QED
      BY <2>1, <3>1, <3>2 DEF OnceInv, Distinct, Placed
  <2>3. CASE Respond(m)
    <3>1. /\ m \in answered /\ answered' = answered \ {m}
          /\ resp' = Append(resp, m) /\ UNCHANGED <<awaiting, lost>>
      BY <2>3 DEF Respond, Finished
    <3>2. m \notin Range(resp)
      BY <3>1 DEF OnceInv, Placed
    <3>3. Range(resp') = Range(resp) \cup {m} /\ IsInjective(resp')
      BY <3>1, <3>2, RangeAppend DEF TypeOK, OnceInv, Distinct
    <3> QED
      BY <2>1, <3>1, <3>3 DEF OnceInv, Distinct, Placed
  <2> QED
    BY <2>2, <2>3
<1>4. CASE GenRecv
  <2>1. /\ resp # <<>> /\ resp' = Tail(resp)
        /\ delivered' = Append(delivered, Head(resp))
        /\ UNCHANGED <<accepted, tx, awaiting, answered, lost>>
    BY <1>4 DEF GenRecv
  <2> QED
    BY <2>1, ReaderTakes DEF OnceInv, Distinct, Placed
<1>5. CASE GenPanics
  <2>1. /\ resp # <<>> /\ resp' = <<>> /\ lost' = lost \cup Range(Tail(resp))
        /\ delivered' = Append(delivered, Head(resp))
        /\ UNCHANGED <<accepted, tx, awaiting, answered>>
    BY <1>5 DEF GenPanics
  <2>2. Range(resp') = {} /\ IsInjective(resp')
    BY <2>1 DEF Range, IsInjective
  <2> QED
    BY <2>1, <2>2, ReaderTakes DEF OnceInv, Distinct, Placed
<1>6. CASE GenDrained
  <2>1. /\ resp' = <<>> /\ lost' = lost \cup Range(resp)
        /\ UNCHANGED <<accepted, tx, awaiting, answered, delivered>>
    BY <1>6 DEF GenDrained
  <2>2. Range(resp') = {} /\ IsInjective(resp')
    BY <2>1 DEF Range, IsInjective
  <2> QED
    BY <2>1, <2>2 DEF OnceInv, Distinct, Placed
<1>7. CASE SenderEnds \/ RelayEnds \/ GenEnds \/ GenStops \/ UNCHANGED vars
  <2>1. UNCHANGED <<accepted, tx, awaiting, answered, resp, delivered, lost>>
    BY <1>7 DEF SenderEnds, RelayEnds, GenEnds, GenStops, vars
  <2> QED
    BY <2>1 DEF OnceInv, Distinct, Placed
<1> QED
  BY <1>1, <1>2, <1>3, <1>4, <1>5, <1>6, <1>7 DEF Next, GenNext

\* Six sets that share none have as many elements as their union.
LEMMA PlacedCardinality ==
  ASSUME NEW a, NEW b, NEW c, NEW d, NEW e, NEW f,
         IsFiniteSet(a), IsFiniteSet(b), IsFiniteSet(c), IsFiniteSet(d),
         IsFiniteSet(e), IsFiniteSet(f), Placed(a, b, c, d, e, f)
  PROVE  Cardinality(1..accepted) =
           Cardinality(a) + Cardinality(b) + Cardinality(c) + Cardinality(d)
             + Cardinality(e) + Cardinality(f)
<1> DEFINE ef == e \cup f
           df == d \cup ef
           cf == c \cup df
           bf == b \cup cf
           af == a \cup bf
<1>1. /\ Cardinality(a) \in Nat /\ Cardinality(b) \in Nat /\ Cardinality(c) \in Nat
      /\ Cardinality(d) \in Nat /\ Cardinality(e) \in Nat /\ Cardinality(f) \in Nat
  BY FS_CardinalityType
<1>2. IsFiniteSet(ef) /\ Cardinality(ef) = Cardinality(e) + Cardinality(f)
  BY Zenon, ApartCardinality DEF Placed
<1>3. IsFiniteSet(df) /\ Cardinality(df) = Cardinality(d) + Cardinality(ef)
  <2>1. d \cap ef = {}
    BY DEF Placed
  <2> QED
    BY Zenon, <1>2, <2>1, ApartCardinality
<1>4. IsFiniteSet(cf) /\ Cardinality(cf) = Cardinality(c) + Cardinality(df)
  <2>1. c \cap df = {}
    BY DEF Placed
  <2> QED
    BY Zenon, <1>3, <2>1, ApartCardinality
<1>5. IsFiniteSet(bf) /\ Cardinality(bf) = Cardinality(b) + Cardinality(cf)
  <2>1. b \cap cf = {}
    BY DEF Placed
  <2> QED
    BY Zenon, <1>4, <2>1, ApartCardinality
<1>6. IsFiniteSet(af) /\ Cardinality(af) = Cardinality(a) + Cardinality(bf)
  <2>1. a \cap bf = {}
    BY DEF Placed
  <2> QED
    BY Zenon, <1>5, <2>1, ApartCardinality
<1>7. af = 1..accepted
  BY DEF Placed
<1> HIDE DEF af, bf, cf, df, ef
<1> QED
  BY <1>1, <1>2, <1>3, <1>4, <1>5, <1>6, <1>7

LEMMA OnceImplies == TypeOK /\ OnceInv => EachMessageOnce
<1> SUFFICES ASSUME TypeOK, OnceInv PROVE EachMessageOnce
  OBVIOUS
<1>1. Range(tx) \cup InFlight \cup Range(resp) \cup Range(delivered) \cup lost
        = 1..accepted
  BY DEF OnceInv, Placed, InFlight
<1>2. accepted \in Nat
  BY DEF TypeOK
<1>3. IsFiniteSet(1..accepted) /\ Cardinality(1..accepted) = accepted
  BY <1>2, FS_Interval
<1>4. IsFiniteSet(awaiting) /\ IsFiniteSet(answered) /\ IsFiniteSet(lost)
  <2>1. /\ awaiting \in SUBSET (1..accepted) /\ answered \in SUBSET (1..accepted)
        /\ lost \in SUBSET (1..accepted)
    BY <1>1 DEF InFlight
  <2> QED
    BY Zenon, <1>3, <2>1, FS_Subset
<1>5. /\ IsFiniteSet(Range(tx)) /\ Cardinality(Range(tx)) = Len(tx)
      /\ IsFiniteSet(Range(resp)) /\ Cardinality(Range(resp)) = Len(resp)
      /\ IsFiniteSet(Range(delivered))
      /\ Cardinality(Range(delivered)) = Len(delivered)
  BY RangeCardinality DEF TypeOK, OnceInv, Distinct
<1>6. Cardinality(1..accepted) =
        Cardinality(Range(tx)) + Cardinality(awaiting) + Cardinality(answered)
          + Cardinality(Range(resp)) + Cardinality(Range(delivered))
          + Cardinality(lost)
  <2>1. Placed(Range(tx), awaiting, answered, Range(resp), Range(delivered), lost)
    BY DEF OnceInv
  <2> QED
    BY <1>4, <1>5, <2>1, PlacedCardinality
<1> QED
  BY <1>1, <1>3, <1>5, <1>6 DEF EachMessageOnce

LEMMA OnceInvariance == Spec => [](TypeOK /\ OnceInv)
BY InitType, OnceInit, NextType, OnceStep, PTL DEF Spec

\* Through both channels, the request tasks, their failures, the drain and a
\* panic, no message is duplicated or forgotten (sender.rs, DohSender::run, and
\* the reader of gen.rs).
THEOREM MessagesConserved == Spec => []EachMessageOnce
BY OnceInvariance, OnceImplies, PTL

-----------------------------------------------------------------------------
(* The end of the stream of answers *)

\* Each end of a channel closes after those that feed it: the relay after the
\* sender, and the stream of answers after the relay and its request tasks.
EndInv ==
  /\ relay = "over" => sender = "over" /\ tx = <<>>
  /\ streamEnd => /\ gen = "over" /\ relay = "over"
                  /\ InFlight = {} /\ resp = <<>>

LEMMA EndInit == Init => EndInv
BY DEF Init, EndInv

LEMMA EndStep == TypeOK /\ EndInv /\ [Next]_vars => EndInv'
<1> SUFFICES ASSUME TypeOK, EndInv, [Next]_vars PROVE EndInv'
  OBVIOUS
<1> USE DEF EndInv, InFlight
<1>1. CASE Send \/ SenderEnds
  BY <1>1 DEF Send, SenderEnds
<1>2. CASE RelayTakes
  BY <1>2 DEF RelayTakes
<1>3. CASE RelayEnds
  BY <1>3 DEF RelayEnds, RelayStops
<1>4. ASSUME NEW m \in Msgs, RequestNext(m) PROVE EndInv'
  BY <1>4 DEF RequestNext, RequestAnswered, RequestFails, Respond, RespondFails
<1>5. CASE GenNext
  BY <1>5 DEF GenNext, GenRecv, GenEnds, GenStops, GenDrained, GenPanics, AllClosed
<1>6. CASE UNCHANGED vars
  BY <1>6 DEF vars
<1> QED
  BY <1>1, <1>2, <1>3, <1>4, <1>5, <1>6 DEF Next

LEMMA EndImplies == OnceInv /\ EndInv => EndMeansAllSettled
<1> SUFFICES ASSUME OnceInv, EndInv, streamEnd
             PROVE  sender = "over" /\ Range(delivered) \cup lost = 1..accepted
  BY DEF EndMeansAllSettled
<1>1. sender = "over" /\ tx = <<>> /\ resp = <<>> /\ awaiting \cup answered = {}
  BY DEF EndInv, InFlight
<1>2. Range(tx) = {} /\ Range(resp) = {}
  BY <1>1 DEF Range
<1> QED
  BY <1>1, <1>2 DEF OnceInv, Placed

\* A generator that reads the end of its stream has nothing left to wait for:
\* the clones of the response sender in the relay and in the request tasks keep
\* the second channel open until then (sender.rs, DohSender::run; gen.rs 93).
THEOREM EndSettlesAll == Spec => []EndMeansAllSettled
BY OnceInvariance, EndInit, EndStep, EndImplies, PTL DEF Spec
=============================================================================
