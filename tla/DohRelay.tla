------------------------------ MODULE DohRelay ------------------------------
(***************************************************************************)
(* The DoH transport of a generator (bin/src/sender.rs 148-205, and DohGen *)
(* in bin/src/gen.rs): the sender task puts messages in a bounded channel; *)
(* the relay task takes them out and spawns a task for each, which awaits  *)
(* the answer over HTTPS and puts it in a second bounded channel, the      *)
(* reader of the generator.                                                *)
(*                                                                         *)
(* A channel closes for its receiver when every sender is dropped, and for *)
(* its senders when the receiver is.  Messages are numbered in the order   *)
(* of their sends.                                                         *)
(*                                                                         *)
(* A definition named D_Word, just before D, is D as a plausible bug would *)
(* have it: it replaces D to see that a property depends on it.            *)
(***************************************************************************)
EXTENDS Integers, Sequences, FiniteSets, Functions

CONSTANTS
  Capacity,   \* of both channels (100_000 in the code)
  MaxSends    \* bound: messages of the sender

ASSUME CapacityAssumption == Capacity \in Nat \ {0}
ASSUME MaxSendsAssumption == MaxSends \in Nat

Msgs == 1..MaxSends

VARIABLES
  sender,     \* the sender task: "live" or "over"
  accepted,   \* messages the first channel has taken
  tx,         \* the first channel
  relay,      \* the task of DohSender::run: "live" or "over"
  awaiting,   \* request tasks that await their answer
  answered,   \* request tasks that wait for a place in the second channel
  resp,       \* the second channel
  gen,        \* the generator: "select", "drain" or "over"
  delivered,  \* history: the answers its reader yielded, in order
  lost,       \* history: messages whose task or channel ended without it
  streamEnd   \* history: the reader yielded None

sendVars == <<sender, accepted>>
requests == <<awaiting, answered>>
genVars == <<gen, delivered, streamEnd>>
vars == <<sendVars, tx, relay, requests, resp, genVars, lost>>

-----------------------------------------------------------------------------
(* The sender task, as its end of the channel sees it *)

HasRoom_OffByOne(channel) == Len(channel) <= Capacity
HasRoom(channel) == Len(channel) < Capacity

Send ==
  /\ sender = "live"
  /\ accepted < MaxSends
  /\ HasRoom(tx)
  /\ accepted' = accepted + 1
  /\ tx' = Append(tx, accepted + 1)
  /\ UNCHANGED <<sender, relay, requests, resp, genVars, lost>>

\* It runs out of messages, or is aborted.  Its MsgSend is dropped with it.
SenderEnds ==
  /\ sender = "live"
  /\ sender' = "over"
  /\ UNCHANGED <<accepted, tx, relay, requests, resp, genVars, lost>>

-----------------------------------------------------------------------------
(* The relay task *)

\* It does not wait for an answer before it takes the next message.
RelayMayTake_OneByOne == awaiting \cup answered = {}
RelayMayTake == TRUE

RelayTakes ==
  /\ relay = "live"
  /\ tx # <<>>
  /\ RelayMayTake
  /\ tx' = Tail(tx)
  /\ awaiting' = awaiting \cup {Head(tx)}
  /\ UNCHANGED <<sendVars, relay, answered, resp, genVars, lost>>

\* recv returns None.  The relay's own clone of the response sender is dropped.
RelayStops == sender = "over" /\ tx = <<>>

RelayEnds ==
  /\ relay = "live"
  /\ RelayStops
  /\ relay' = "over"
  /\ UNCHANGED <<sendVars, tx, requests, resp, genVars, lost>>

-----------------------------------------------------------------------------
(* A request task *)

RequestAnswered(m) ==
  /\ m \in awaiting
  /\ awaiting' = awaiting \ {m}
  /\ answered' = answered \cup {m}
  /\ UNCHANGED <<sendVars, tx, relay, resp, genVars, lost>>

\* first_answer returns an error: the task ends and says nothing.
RequestFails(m) ==
  /\ m \in awaiting
  /\ awaiting' = awaiting \ {m}
  /\ lost' = lost \cup {m}
  /\ UNCHANGED <<sendVars, tx, relay, answered, resp, genVars>>

Finished_Kept(m) == answered
Finished(m) == answered \ {m}

Respond(m) ==
  /\ m \in answered
  /\ gen # "over"
  /\ HasRoom(resp)
  /\ resp' = Append(resp, m)
  /\ answered' = Finished(m)
  /\ UNCHANGED <<sendVars, tx, relay, awaiting, genVars, lost>>

\* The reader is dropped: a send fails, one that waits for a place too.
ReaderGone_Unseen == FALSE
ReaderGone == gen = "over"

RespondFails(m) ==
  /\ m \in answered
  /\ ReaderGone
  /\ answered' = Finished(m)
  /\ lost' = lost \cup {m}
  /\ UNCHANGED <<sendVars, tx, relay, awaiting, resp, genVars>>

RequestNext(m) ==
  \/ RequestAnswered(m) \/ RequestFails(m) \/ Respond(m) \/ RespondFails(m)

-----------------------------------------------------------------------------
(* The generator task, as its end of the channel sees it *)

GenRecv ==
  /\ gen = "select"
  /\ resp # <<>>
  /\ resp' = Tail(resp)
  /\ delivered' = Append(delivered, Head(resp))
  /\ UNCHANGED <<sendVars, tx, relay, requests, gen, streamEnd, lost>>

\* Every clone of the response sender is dropped: the relay holds one, and so
\* does each request task.
AllClosed_RelayOnly == relay = "over"
AllClosed == relay = "over" /\ awaiting \cup answered = {}

\* The reader yields None: the generator returns, and the reader is dropped.
GenEnds ==
  /\ gen = "select"
  /\ resp = <<>>
  /\ AllClosed
  /\ gen' = "over"
  /\ streamEnd' = TRUE
  /\ UNCHANGED <<sendVars, tx, relay, requests, resp, delivered, lost>>

\* The stop branch: a notice, or the end of a task.  The reader is kept and not
\* polled until the drain is over.  (Generator says when the abort of the sender
\* takes effect; here SenderEnds may come at any time.)
GenStops ==
  /\ gen = "select"
  /\ gen' = "drain"
  /\ UNCHANGED <<sendVars, tx, relay, requests, resp, delivered, streamEnd, lost>>

GenDrained ==
  /\ gen = "drain"
  /\ gen' = "over"
  /\ resp' = <<>>
  /\ lost' = lost \cup Range(resp)
  /\ UNCHANGED <<sendVars, tx, relay, requests, delivered, streamEnd>>

\* An answer too short for its header: the generator panics, and the sender
\* lives on.
GenPanics ==
  /\ gen = "select"
  /\ resp # <<>>
  /\ gen' = "over"
  /\ resp' = <<>>
  /\ delivered' = Append(delivered, Head(resp))
  /\ lost' = lost \cup Range(Tail(resp))
  /\ UNCHANGED <<sendVars, tx, relay, requests, streamEnd>>

GenNext == GenRecv \/ GenEnds \/ GenStops \/ GenDrained \/ GenPanics

-----------------------------------------------------------------------------
Init ==
  /\ sender = "live" /\ accepted = 0 /\ tx = <<>>
  /\ relay = "live" /\ awaiting = {} /\ answered = {} /\ resp = <<>>
  /\ gen = "select" /\ delivered = <<>> /\ lost = {} /\ streamEnd = FALSE

Next ==
  \/ Send \/ SenderEnds
  \/ RelayTakes \/ RelayEnds
  \/ \E m \in Msgs : RequestNext(m)
  \/ GenNext

Spec == Init /\ [][Next]_vars

\* The relay and the request tasks are scheduled; the drain ends
\* (Generator!StopsOnNotice).  Nothing is assumed of the server, of the
\* sender, or of how often the generator polls its reader.
Fairness ==
  /\ WF_vars(RelayTakes \/ RelayEnds)
  /\ WF_vars(GenDrained)
  /\ \A m \in Msgs : SF_vars(Respond(m)) /\ WF_vars(RespondFails(m))

FairSpec == Spec /\ Fairness

-----------------------------------------------------------------------------
(* Properties *)

InFlight == awaiting \cup answered

\* Every variable has its type, and no channel holds more than its capacity.
TypeOK ==
  /\ sender \in {"live", "over"} /\ relay \in {"live", "over"}
  /\ gen \in {"select", "drain", "over"} /\ streamEnd \in BOOLEAN
  /\ accepted \in 0..MaxSends
  /\ tx \in Seq(Msgs) /\ Len(tx) <= Capacity
  /\ resp \in Seq(Msgs) /\ Len(resp) <= Capacity
  /\ awaiting \subseteq Msgs /\ answered \subseteq Msgs /\ lost \subseteq Msgs
  /\ delivered \in Seq(Msgs)

\* Each message the first channel took is in one place: in a channel, in a
\* request task, delivered once, or lost.  None is duplicated or forgotten.
EachMessageOnce ==
  /\ Range(tx) \cup InFlight \cup Range(resp) \cup Range(delivered) \cup lost
       = 1..accepted
  /\ Len(tx) + Cardinality(awaiting) + Cardinality(answered) + Len(resp)
       + Len(delivered) + Cardinality(lost) = accepted

\* The stream of answers ends only when there is nothing left to wait for: the
\* generator that returns on None (gen.rs 93) abandons no answer of its own
\* sender's, though it skips the drain.
EndMeansAllSettled ==
  streamEnd => /\ sender = "over"
               /\ Range(delivered) \cup lost = 1..accepted

\* The relay ends after the sender, with answers that nobody reads, a full
\* channel of answers, and a server that never answers.
RelayEndsAfterSender == sender = "over" ~> relay = "over"

\* No request task waits for a place in the channel for ever once the generator
\* is in its drain, where it reads no answers (gen.rs 129-142).
NoTaskLeftWaiting ==
  \A m \in Msgs : m \in answered /\ gen = "drain" ~> m \notin answered
=============================================================================
