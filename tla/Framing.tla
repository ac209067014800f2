------------------------------ MODULE Framing ------------------------------
(***************************************************************************)
(* The TCP transport of a generator: MsgSend::send (bin/src/sender.rs)     *)
(* writes a message as a two byte length and the message; TcpDnsCodec      *)
(* (bin/src/msg.rs), driven by tokio-util's FramedRead, cuts the peer's    *)
(* stream into frames.  The kernel takes and gives bytes in pieces of any  *)
(* size, the sender may be aborted at any await, and the peer may close    *)
(* the connection anywhere, or reset it.                                   *)
(*                                                                         *)
(* A byte is a digit below Base (256 in the code), so that the length      *)
(* field overflows at Base * Base.                                         *)
(*                                                                         *)
(* A definition named D_Word, just before D, is D as a plausible bug would *)
(* have it: it replaces D to see that a property depends on it.            *)
(***************************************************************************)
EXTENDS Integers, Sequences, SequencesExt

CONSTANTS
  Base,        \* values of a byte
  Queries,     \* messages the query source may make
  Answers,     \* messages the peer may frame
  MaxQueries,  \* bound: messages the sender begins to write
  MaxAnswers   \* bound: frames the peer writes whole

Byte == 0..(Base - 1)
MaxLength == Base * Base - 1     \* u16::MAX

ASSUME BaseAssumption == Base \in Nat \ {0, 1}
ASSUME MessageAssumption ==
  /\ Queries \subseteq Seq(Byte)
  /\ Answers \subseteq {m \in Seq(Byte) : Len(m) <= MaxLength}
ASSUME BoundAssumption == MaxQueries \in Nat /\ MaxAnswers \in Nat

VARIABLES
  writer,   \* where MsgSend::send is
  todo,     \* what the current write still has to hand to the kernel
  begun,    \* history: the messages whose writing has begun
  out,      \* the bytes the kernel took

  wire,     \* the peer's bytes the kernel has not given to the reader
  hangup,   \* "open", "closed" by the peer, or "reset"
  torn,     \* history: the peer closed in the middle of a frame
  framed,   \* history: the frames the peer has written whole

  reader,   \* the state of FramedRead
  eof,      \* its flag: the last read returned nothing
  buffer,   \* the BytesMut given to the decoder
  decoded,  \* the messages it yielded
  failed    \* history: it yielded an error

writeVars == <<writer, todo, begun, out>>
peerVars == <<wire, hangup, torn, framed>>
readVars == <<reader, eof, buffer, decoded, failed>>
vars == <<writeVars, peerVars, readVars>>

Drop(s, n) == SubSeq(s, n + 1, Len(s))

-----------------------------------------------------------------------------
(* MsgSend::send *)

\* `msg.len() as u16`, written big-endian.
Prefix_NotTruncated(m) == <<Len(m) \div Base, Len(m) % Base>>
Prefix(m) == <<(Len(m) \div Base) % Base, Len(m) % Base>>

SendBegins(m) ==
  /\ writer = "idle"
  /\ Len(begun) < MaxQueries
  /\ writer' = "prefix"
  /\ todo' = Prefix(m)
  /\ begun' = Append(begun, m)
  /\ UNCHANGED <<out, peerVars, readVars>>

\* A poll of write_u16 or write_all: the kernel takes n bytes.
SendWrites(n) ==
  /\ writer \in {"prefix", "payload"}
  /\ n <= Len(todo)
  /\ out' = out \o SubSeq(todo, 1, n)
  /\ todo' = Drop(todo, n)
  /\ UNCHANGED <<writer, begun, peerVars, readVars>>

\* write_u16 returns, and write_all starts.
SendPayload ==
  /\ writer = "prefix" /\ todo = <<>>
  /\ writer' = "payload"
  /\ todo' = Last(begun)
  /\ UNCHANGED <<begun, out, peerVars, readVars>>

SendDone ==
  /\ writer = "payload" /\ todo = <<>>
  /\ writer' = "idle"
  /\ UNCHANGED <<todo, begun, out, peerVars, readVars>>

\* The sender is aborted at an await, or a write returns an error: the task
\* ends, and what is left of the message is never written.
SenderGone_Resumes == writer' = "idle"
SenderGone == writer' = "over"

SendCut ==
  /\ writer # "over"
  /\ SenderGone
  /\ UNCHANGED <<todo, begun, out, peerVars, readVars>>

WriteNext ==
  \/ \E m \in Queries : SendBegins(m)
  \/ \E n \in 1..Len(todo) : SendWrites(n)
  \/ SendPayload \/ SendDone \/ SendCut

-----------------------------------------------------------------------------
(* The peer *)

PeerWrites(m) ==
  /\ hangup = "open"
  /\ Len(framed) < MaxAnswers
  /\ wire' = wire \o Prefix(m) \o m
  /\ framed' = Append(framed, m)
  /\ UNCHANGED <<writeVars, hangup, torn, readVars>>

\* The peer closes after n bytes of a frame, none if it is done.
PeerCloses(m, n) ==
  LET frame == Prefix(m) \o m IN
  /\ hangup = "open"
  /\ n < Len(frame)
  /\ hangup' = "closed"
  /\ wire' = wire \o SubSeq(frame, 1, n)
  /\ torn' = (n > 0)
  /\ UNCHANGED <<writeVars, framed, readVars>>

\* The connection is reset: what was not read is lost.
PeerResets ==
  /\ hangup # "reset"
  /\ hangup' = "reset"
  /\ wire' = <<>>
  /\ UNCHANGED <<writeVars, torn, framed, readVars>>

PeerNext ==
  \/ \E m \in Answers : \/ PeerWrites(m)
                        \/ \E n \in 0..(Len(m) + 1) : PeerCloses(m, n)
  \/ PeerResets

-----------------------------------------------------------------------------
(* FramedRead with TcpDnsCodec *)

\* The length that the first two bytes of the buffer announce.
Length == buffer[1] * Base + buffer[2]

\* TcpDnsCodec::decode returns a frame.
FrameReady_OffByOne == Len(buffer) >= 2 /\ Len(buffer) > 2 + Length
FrameReady == Len(buffer) >= 2 /\ Len(buffer) >= 2 + Length

Remains_Prefix == Drop(buffer, Length)
Remains == Drop(buffer, 2 + Length)

Decode ==
  /\ reader = "readable"
  /\ FrameReady
  /\ decoded' = Append(decoded, SubSeq(buffer, 3, 2 + Length))
  /\ buffer' = Remains
  /\ UNCHANGED <<writeVars, peerVars, reader, eof, failed>>

\* It returns None: FramedRead has to read more.
DecodeMore ==
  /\ reader = "readable"
  /\ ~FrameReady
  /\ ~eof
  /\ reader' = "reading"
  /\ UNCHANGED <<writeVars, peerVars, eof, buffer, decoded, failed>>

\* It returns None and there is no more: bytes that remain are an error.
Leftover_Ignored == FALSE
Leftover == buffer # <<>>

DecodeEof ==
  /\ reader = "readable"
  /\ ~FrameReady
  /\ eof
  /\ IF Leftover THEN reader' = "failed" /\ failed' = TRUE
                 ELSE reader' = "ended" /\ UNCHANGED failed
  /\ UNCHANGED <<writeVars, peerVars, eof, buffer, decoded>>

Read(n) ==
  /\ reader = "reading"
  /\ n <= Len(wire)
  /\ buffer' = buffer \o SubSeq(wire, 1, n)
  /\ wire' = Drop(wire, n)
  /\ eof' = FALSE
  /\ reader' = "readable"
  /\ UNCHANGED <<writeVars, hangup, torn, framed, decoded, failed>>

ReadEof ==
  /\ reader = "reading"
  /\ wire = <<>> /\ hangup = "closed"
  /\ eof' = TRUE
  /\ reader' = "readable"
  /\ UNCHANGED <<writeVars, peerVars, buffer, decoded, failed>>

ReadFails ==
  /\ reader = "reading"
  /\ hangup = "reset"
  /\ reader' = "failed"
  /\ failed' = TRUE
  /\ UNCHANGED <<writeVars, peerVars, eof, buffer, decoded>>

\* After an error the stream yields None.
ReaderEnds ==
  /\ reader = "failed"
  /\ reader' = "ended"
  /\ UNCHANGED <<writeVars, peerVars, eof, buffer, decoded, failed>>

ReadNext ==
  \/ Decode \/ DecodeMore \/ DecodeEof
  \/ \E n \in 1..Len(wire) : Read(n)
  \/ ReadEof \/ ReadFails \/ ReaderEnds

-----------------------------------------------------------------------------
Init ==
  /\ writer = "idle" /\ todo = <<>> /\ begun = <<>> /\ out = <<>>
  /\ wire = <<>> /\ hangup = "open" /\ torn = FALSE /\ framed = <<>>
  /\ reader = "readable" /\ eof = FALSE /\ buffer = <<>>
  /\ decoded = <<>> /\ failed = FALSE

Next == WriteNext \/ PeerNext \/ ReadNext

Spec == Init /\ [][Next]_vars

\* The generator polls its reader again and again.
Fairness == WF_vars(ReadNext)

FairSpec == Spec /\ Fairness

-----------------------------------------------------------------------------
(* Properties *)

\* Every variable has its type; the decoder never yields more than a length
\* field can announce.
TypeOK ==
  /\ writer \in {"idle", "prefix", "payload", "over"}
  /\ todo \in Seq(Byte) /\ out \in Seq(Byte) /\ begun \in Seq(Queries)
  /\ wire \in Seq(Byte) /\ buffer \in Seq(Byte)
  /\ hangup \in {"open", "closed", "reset"} /\ torn \in BOOLEAN
  /\ framed \in Seq(Answers)
  /\ reader \in {"readable", "reading", "failed", "ended"}
  /\ eof \in BOOLEAN /\ failed \in BOOLEAN
  /\ decoded \in Seq(Seq(Byte))
  /\ \A i \in DOMAIN decoded : Len(decoded[i]) <= MaxLength

\* The messages that a stream holds whole, for a reader that follows RFC 1035.
Parse(s) ==
  LET size(i) == s[i] * Base + s[i + 1]
      from[i \in 1..(Len(s) + 1)] ==
        IF i + 1 > Len(s) \/ i + 1 + size(i) > Len(s) THEN <<>>
        ELSE <<SubSeq(s, i + 2, i + 1 + size(i))>> \o from[i + 2 + size(i)]
  IN from[1]

\* The generator gets the peer's messages in their order, each once and whole,
\* however the stream is cut into reads (msg.rs 55-75).
DecodesWhatWasSent == IsPrefix(decoded, framed)

\* A stream that ends without an error was closed between two frames, and all
\* of it was decoded: a generator that sees None and no error missed nothing.
CleanEndIsWhole ==
  reader = "ended" /\ ~failed => ~torn /\ hangup # "open" /\ decoded = framed

\* The peer can read every message that was written whole, and nothing else,
\* even if the sender is aborted in the middle of a frame (sender.rs 97-101),
\* unless a message is longer than the length field can say: `as u16` then
\* announces a length that is too short, and the rest is read as frames.
PeerReadsMessages ==
  (\A i \in DOMAIN begun : Len(begun[i]) <= MaxLength) =>
    /\ IsPrefix(Parse(out), begun)
    /\ writer = "idle" => Parse(out) = begun

\* A frame is not held back: one that the peer has written whole is decoded,
\* unless the connection is reset.
WholeFramesDelivered ==
  \A i \in 1..MaxAnswers :
    Len(framed) >= i ~> Len(decoded) >= i \/ hangup = "reset"
=============================================================================
