--------------------------- MODULE FramingProofs ---------------------------
(***************************************************************************)
(* Proofs about Framing, for every base, message and number of messages.   *)
(*                                                                         *)
(* Both directions of the connection rest on one relation, Stream: a       *)
(* sequence of bytes is the frames of some messages, one after the other,  *)
(* and a rest.  What an action does to the bytes is then one of its four   *)
(* laws.  Only the last part speaks of positions in the stream: it shows   *)
(* that Parse, a reader that follows RFC 1035, finds those messages.       *)
(***************************************************************************)
EXTENDS Framing, DataLemmas, TLAPS

-----------------------------------------------------------------------------
(* Frames *)

Bytes == Seq(Byte)

Frame(m) == Prefix(m) \o m

LEMMA Bases == Base \in Nat /\ Base > 1 /\ MaxLength \in Nat
<1>1. Base \in Nat /\ Base > 1
  BY BaseAssumption
<1>2. Base * Base \in Nat /\ Base * Base > 0
  BY <1>1
<1> QED
  BY <1>1, <1>2 DEF MaxLength

\* A length that fits is what its two digits say.
LEMMA Digits ==
  ASSUME NEW n \in Nat
  PROVE  /\ (n \div Base) % Base \in Byte /\ n % Base \in Byte
         /\ n <= MaxLength => ((n \div Base) % Base) * Base + (n % Base) = n
<1>1. Base \in Nat /\ Base > 1
  BY Bases
<1>2. n \div Base \in Nat /\ n % Base \in 0..(Base - 1)
  BY <1>1
<1> DEFINE q == n \div Base
<1>3. Base * q <= n /\ n - Base * q < Base
  BY <1>1
<1>4. q \in Nat
  BY <1>2
<1> HIDE DEF q
<1>5. PICK r \in 0..(Base - 1) : n = Base * q + r
  <2>1. Base * q \in Int
    BY <1>1, <1>4
  <2>2. n - Base * q \in 0..(Base - 1)
    BY <1>1, <1>3, <2>1
  <2>3. n = Base * q + (n - Base * q)
    BY <2>1
  <2> QED
    BY <2>2, <2>3
<1>6. n % Base = r
  BY <1>1, <1>4, <1>5
<1>7. q % Base \in 0..(Base - 1)
  BY <1>1, <1>4
<1>8. n <= MaxLength => q < Base
  <2> SUFFICES ASSUME n <= MaxLength, q >= Base PROVE FALSE
    BY <1>1, <1>4
  <2>1. Base * q >= Base * Base
    BY <1>1, <1>4
  <2>2. n <= Base * Base - 1
    BY DEF MaxLength
  <2>3. Base * q \in Int /\ Base * Base \in Int
    BY <1>1, <1>4
  <2> QED
    BY <1>3, <2>1, <2>2, <2>3
<1>9. n <= MaxLength => q % Base = q
  BY <1>1, <1>4, <1>8
<1>10. q * Base = Base * q
  BY <1>1, <1>4
<1>11. n <= MaxLength => (q % Base) * Base + (n % Base) = n
  BY <1>5, <1>6, <1>9, <1>10
<1> QED
  BY <1>2, <1>7, <1>11 DEF q, Byte

LEMMA FrameType ==
  ASSUME NEW m \in Bytes
  PROVE  /\ Prefix(m) \in Bytes /\ Len(Prefix(m)) = 2
         /\ Frame(m) \in Bytes /\ Len(Frame(m)) = 2 + Len(m)
         /\ Frame(m)[1] = (Len(m) \div Base) % Base
         /\ Frame(m)[2] = Len(m) % Base
         /\ \A i \in 1..Len(m) : Frame(m)[2 + i] = m[i]
<1> DEFINE hi == (Len(m) \div Base) % Base
           lo == Len(m) % Base
<1>1. hi \in Byte /\ lo \in Byte
  BY Digits DEF Bytes
<1>2. Prefix(m) = <<hi, lo>>
  BY DEF Prefix
<1> HIDE DEF hi, lo
<1>3. Prefix(m) \in Bytes /\ Len(Prefix(m)) = 2
      /\ Prefix(m)[1] = hi /\ Prefix(m)[2] = lo
  BY <1>1, <1>2 DEF Bytes
<1>4. /\ Frame(m) \in Bytes /\ Len(Frame(m)) = 2 + Len(m)
      /\ \A i \in 1..(2 + Len(m)) :
           Frame(m)[i] = IF i <= 2 THEN Prefix(m)[i] ELSE m[i - 2]
  <2> DEFINE p == Prefix(m)
  <2>1. p \in Seq(Byte) /\ Len(p) = 2 /\ m \in Seq(Byte)
    BY <1>3 DEF Bytes
  <2> HIDE DEF p
  <2>2. /\ p \o m \in Seq(Byte) /\ Len(p \o m) = Len(p) + Len(m)
        /\ \A i \in 1..(Len(p) + Len(m)) :
             (p \o m)[i] = IF i <= Len(p) THEN p[i] ELSE m[i - Len(p)]
    BY <2>1, ConcatProperties
  <2> QED
    BY <2>1, <2>2 DEF p, Frame, Bytes
<1>5. Len(m) \in Nat
  BY DEF Bytes
<1>6. Frame(m)[1] = hi /\ Frame(m)[2] = lo
  BY <1>3, <1>4, <1>5
<1>7. \A i \in 1..Len(m) : Frame(m)[2 + i] = m[i]
  BY <1>4, <1>5
<1> QED
  BY <1>3, <1>4, <1>6, <1>7 DEF hi, lo

\* Dropping from a sequence, and cutting it in two.
LEMMA Cut ==
  ASSUME NEW s \in Bytes, NEW n \in 0..Len(s)
  PROVE  /\ SubSeq(s, 1, n) \in Bytes /\ Len(SubSeq(s, 1, n)) = n
         /\ \A i \in 1..n : SubSeq(s, 1, n)[i] = s[i]
         /\ Drop(s, n) \in Bytes /\ Len(Drop(s, n)) = Len(s) - n
         /\ \A i \in 1..(Len(s) - n) : Drop(s, n)[i] = s[n + i]
         /\ SubSeq(s, 1, n) \o Drop(s, n) = s
<1>1. s \in Seq(Byte) /\ Len(s) \in Nat /\ \A i \in 1..Len(s) : s[i] \in Byte
  BY DEF Bytes
<1>2. /\ SubSeq(s, 1, n) \in Bytes /\ Len(SubSeq(s, 1, n)) = n
      /\ \A i \in 1..n : SubSeq(s, 1, n)[i] = s[i]
  BY <1>1 DEF Bytes
<1>3. /\ Drop(s, n) \in Bytes /\ Len(Drop(s, n)) = Len(s) - n
      /\ \A i \in 1..(Len(s) - n) : Drop(s, n)[i] = s[n + i]
  BY <1>1 DEF Bytes, Drop
<1> DEFINE p == SubSeq(s, 1, n)
           q == Drop(s, n)
<1>4. p \o q = s
  <2> HIDE DEF p, q
  <2>1. p \in Seq(Byte) /\ q \in Seq(Byte) /\ Len(p) = n /\ Len(q) = Len(s) - n
    BY <1>2, <1>3 DEF Bytes, p, q
  <2>2. /\ p \o q \in Seq(Byte) /\ Len(p \o q) = Len(s)
        /\ \A i \in 1..Len(s) : (p \o q)[i] = IF i <= n THEN p[i] ELSE q[i - n]
    BY <1>1, <2>1, ConcatProperties
  <2>3. \A i \in 1..Len(s) : (p \o q)[i] = s[i]
    BY <1>1, <1>2, <1>3, <2>2 DEF p, q
  <2> QED
    BY <1>1, <2>2, <2>3, SeqEqual
<1> QED
  BY <1>2, <1>3, <1>4

\* Bytes put together.
LEMMA JoinType ==
  ASSUME NEW s \in Bytes, NEW t \in Bytes
  PROVE  /\ s \o t \in Bytes /\ Len(s \o t) = Len(s) + Len(t)
         /\ \A i \in 1..Len(s) : (s \o t)[i] = s[i]
         /\ \A i \in 1..Len(t) : (s \o t)[Len(s) + i] = t[i]
<1>1. s \in Seq(Byte) /\ t \in Seq(Byte) /\ Len(s) \in Nat /\ Len(t) \in Nat
  BY DEF Bytes
<1> DEFINE v == s \o t
<1>2. /\ v \in Seq(Byte) /\ Len(v) = Len(s) + Len(t)
      /\ \A i \in 1..(Len(s) + Len(t)) : v[i] = IF i <= Len(s) THEN s[i] ELSE t[i - Len(s)]
  BY <1>1, ConcatProperties
<1> HIDE DEF v
<1>3. ASSUME NEW i \in 1..Len(s) PROVE v[i] = s[i]
  BY <1>1, <1>2
<1>4. ASSUME NEW i \in 1..Len(t) PROVE v[Len(s) + i] = t[i]
  <2>1. /\ Len(s) + i \in 1..(Len(s) + Len(t)) /\ ~(Len(s) + i <= Len(s))
        /\ (Len(s) + i) - Len(s) = i
    BY <1>1
  <2> QED
    BY <1>2, <2>1
<1> QED
  BY <1>2, <1>3, <1>4 DEF v, Bytes

\* (The name keeps the provers from taking the concatenations apart.)
Associates(s, t, u) == (s \o t) \o u = s \o (t \o u)

LEMMA JoinAssociates ==
  ASSUME NEW s \in Bytes, NEW t \in Bytes, NEW u \in Bytes
  PROVE  Associates(s, t, u)
BY ConcatAssociative DEF Bytes, Associates

LEMMA JoinEmpty ==
  ASSUME NEW s \in Bytes
  PROVE  s \o <<>> = s /\ <<>> \o s = s /\ <<>> \in Bytes
BY ConcatEmptySeq, EmptySeq DEF Bytes

LEMMA JoinIsEmpty ==
  ASSUME NEW s \in Bytes, NEW t \in Bytes, s \o t = <<>>
  PROVE  s = <<>> /\ t = <<>>
BY ConcatEqualIffEmpty, EmptySeq DEF Bytes

LEMMA FrameAfter ==
  ASSUME NEW w \in Bytes, NEW m \in Bytes
  PROVE  (w \o Prefix(m)) \o m = w \o Frame(m)
<1>1. Prefix(m) \in Bytes
  BY FrameType
<1>2. Associates(w, Prefix(m), m)
  BY <1>1, JoinAssociates
<1> QED
  BY <1>2, Zenon DEF Associates, Frame

\* A sequence has one cut at a given length.
LEMMA SameCut ==
  ASSUME NEW p \in Bytes, NEW x \in Bytes, NEW q \in Bytes, NEW y \in Bytes,
         Len(p) = Len(q), p \o x = q \o y
  PROVE  p = q /\ x = y
<1>1. /\ p \in Seq(Byte) /\ x \in Seq(Byte) /\ q \in Seq(Byte) /\ y \in Seq(Byte)
      /\ Len(p) \in Nat /\ Len(q) \in Nat /\ Len(x) \in Nat /\ Len(y) \in Nat
  BY DEF Bytes
<1> DEFINE s == p \o x
           t == q \o y
<1>2. /\ Len(s) = Len(p) + Len(x)
      /\ \A i \in 1..Len(p) : s[i] = p[i]
      /\ \A i \in 1..Len(x) : s[Len(p) + i] = x[i]
  BY JoinType
<1>3. /\ Len(t) = Len(q) + Len(y)
      /\ \A i \in 1..Len(q) : t[i] = q[i]
      /\ \A i \in 1..Len(y) : t[Len(q) + i] = y[i]
  BY JoinType
<1>4. s = t
  OBVIOUS
<1> HIDE DEF s, t
<1>5. Len(x) = Len(y)
  BY <1>1, <1>2, <1>3, <1>4
<1>6. \A i \in 1..Len(p) : p[i] = q[i]
  BY <1>2, <1>3, <1>4
<1>7. \A i \in 1..Len(x) : x[i] = y[i]
  BY <1>2, <1>3, <1>4, <1>5
<1>8. p = q
  BY <1>1, <1>6, SeqEqual
<1>9. x = y
  BY <1>1, <1>5, <1>7, SeqEqual
<1> QED
  BY <1>8, <1>9

\* A decoder that holds b, the first bytes of a frame and what follows it, reads
\* its length once it has two bytes, and its message once it has that many more.
Opens(b, r, m, z) == b \o r = Frame(m) \o z

Reads(b, r, m, z) ==
  /\ b[1] * Base + b[2] = Len(m)
  /\ Len(b) >= 2 + Len(m) =>
       SubSeq(b, 3, 2 + Len(m)) = m /\ Drop(b, 2 + Len(m)) \o r = z

LEMMA FrameRead ==
  ASSUME NEW m \in Bytes, Len(m) <= MaxLength,
         NEW b \in Bytes, NEW r \in Bytes, NEW z \in Bytes,
         Opens(b, r, m, z), Len(b) >= 2
  PROVE  Reads(b, r, m, z)
<1>1. Len(m) \in Nat /\ Len(b) \in Nat
  BY DEF Bytes
<1>2. /\ Prefix(m) \in Bytes /\ Len(Prefix(m)) = 2
      /\ Frame(m) \in Bytes /\ Len(Frame(m)) = 2 + Len(m)
  BY FrameType
<1>3. b[1] * Base + b[2] = Len(m)
  <2>1. (Prefix(m) \o m) \o z = Prefix(m) \o (m \o z)
    <3>1. Associates(Prefix(m), m, z)
      BY <1>2, JoinAssociates
    <3> QED
      BY <3>1, Zenon DEF Associates
  <2>2. 2 \in 0..Len(b)
    BY <1>1
  <2>3. PICK c \in Bytes, d \in Bytes : /\ Len(c) = 2 /\ c \o d = b
                                        /\ \A i \in 1..2 : c[i] = b[i]
    BY <2>2, Cut, Zenon
  <2>4. c \o (d \o r) = Prefix(m) \o (m \o z)
    <3>1. (c \o d) \o r = c \o (d \o r)
      <4>1. Associates(c, d, r)
        BY JoinAssociates
      <4> QED
        BY <4>1, Zenon DEF Associates
    <3> QED
      BY <2>1, <2>3, <3>1 DEF Frame, Opens
  <2>5. d \o r \in Bytes /\ m \o z \in Bytes
    BY JoinType
  <2>6. Len(c) = Len(Prefix(m))
    BY <1>2, <2>3
  <2>7. c = Prefix(m)
    BY <1>2, <2>4, <2>5, <2>6, SameCut, Zenon
  <2>8. b[1] = (Len(m) \div Base) % Base /\ b[2] = Len(m) % Base
    BY <2>3, <2>7 DEF Prefix
  <2> QED
    BY <1>1, <2>8, Digits
<1>4. ASSUME Len(b) >= 2 + Len(m)
      PROVE  SubSeq(b, 3, 2 + Len(m)) = m /\ Drop(b, 2 + Len(m)) \o r = z
  <2> DEFINE n == 2 + Len(m)
  <2>1. n \in 0..Len(b)
    BY <1>1, <1>4
  <2>2. PICK c \in Bytes, d \in Bytes : /\ Len(c) = n /\ c \o d = b
                                        /\ d = Drop(b, n)
                                        /\ \A i \in 1..n : c[i] = b[i]
    BY <2>1, Cut, Zenon
  <2>3. c \o (d \o r) = Frame(m) \o z
    <3>1. (c \o d) \o r = c \o (d \o r)
      <4>1. Associates(c, d, r)
        BY JoinAssociates
      <4> QED
        BY <4>1, Zenon DEF Associates
    <3> QED
      BY <2>2, <3>1 DEF Opens
  <2>4. d \o r \in Bytes
    BY JoinType
  <2>5. Len(c) = Len(Frame(m))
    BY <1>2, <2>2
  <2>6. c = Frame(m) /\ d \o r = z
    BY <1>2, <2>3, <2>4, <2>5, SameCut, Zenon
  <2>7. ASSUME NEW i \in 1..Len(m) PROVE b[2 + i] = m[i]
    <3>1. 2 + i \in 1..n
      BY <1>1
    <3>2. Frame(m)[2 + i] = m[i]
      BY FrameType
    <3> QED
      BY <2>2, <2>6, <3>1, <3>2
  <2> DEFINE e == SubSeq(b, 3, n)
  <2>8. e \in Seq(Byte) /\ Len(e) = Len(m) /\ \A i \in 1..Len(m) : e[i] = b[2 + i]
    <3>1. b \in Seq(Byte) /\ n >= 2 /\ n <= Len(b)
      BY <1>1, <1>4 DEF Bytes
    <3> QED
      BY <1>1, <3>1
  <2> HIDE DEF e
  <2>9. \A i \in 1..Len(e) : e[i] = m[i]
    BY <2>7, <2>8
  <2>10. e = m
    BY <2>8, <2>9, SeqEqual DEF Bytes
  <2> QED
    BY <2>2, <2>6, <2>10 DEF e
<1> QED
  BY <1>3, <1>4 DEF Reads

-----------------------------------------------------------------------------
(* Streams *)

\* The bytes s are the frames of the messages ms and then the bytes f: left[i]
\* is what there is of s from the frame of ms[i] on.
Tails(left, s, ms, f) ==
  /\ left \in [1..(Len(ms) + 1) -> Bytes]
  /\ left[1] = s /\ left[Len(ms) + 1] = f
  /\ \A i \in 1..Len(ms) : left[i] = Frame(ms[i]) \o left[i + 1]

Stream(s, ms, f) == \E left : Tails(left, s, ms, f)

\* No messages: only the rest.
LEMMA StreamNone ==
  ASSUME NEW s \in Bytes, NEW f
  PROVE  Stream(s, <<>>, f) <=> f = s
<1>1. ASSUME NEW left, Tails(left, s, <<>>, f) PROVE f = s
  BY <1>1 DEF Tails
<1>2. ASSUME f = s PROVE Stream(s, <<>>, f)
  <2>1. Tails([i \in 1..1 |-> s], s, <<>>, f)
    BY <1>2 DEF Tails
  <2> QED
    BY <2>1 DEF Stream
<1> QED
  BY <1>1, <1>2 DEF Stream

\* The first frame comes first, and the others are a stream again.
LEMMA StreamFirst ==
  ASSUME NEW s, NEW ms \in Seq(Bytes), ms # <<>>, NEW f, Stream(s, ms, f)
  PROVE  \E t \in Bytes : s = Frame(Head(ms)) \o t /\ Stream(t, Tail(ms), f)
<1>1. PICK left : Tails(left, s, ms, f)
  BY DEF Stream
<1>2. /\ Len(ms) \in Nat /\ Len(ms) >= 1 /\ Head(ms) = ms[1]
      /\ Len(Tail(ms)) = Len(ms) - 1
      /\ \A i \in 1..(Len(ms) - 1) : Tail(ms)[i] = ms[i + 1]
  OBVIOUS
<1> DEFINE n == Len(ms)
           rest == Tail(ms)
           t == left[2]
           lefts == [i \in 1..n |-> left[i + 1]]
<1>3. t \in Bytes /\ s = Frame(Head(ms)) \o t
  <2>1. 1 \in 1..n /\ 2 \in 1..(n + 1) /\ 1 + 1 = 2
    BY <1>2
  <2>2. left[1] = Frame(ms[1]) \o left[1 + 1]
    BY <1>1, <2>1 DEF Tails
  <2>3. left[1] = s /\ left[2] \in Bytes
    BY <1>1, <2>1 DEF Tails
  <2> QED
    BY <1>2, <2>1, <2>2, <2>3
<1>4. Tails(lefts, t, rest, f)
  <2>1. Len(rest) = n - 1 /\ (n - 1) + 1 = n /\ n \in Nat /\ n >= 1
    BY <1>2
  <2>2. lefts \in [1..n -> Bytes] /\ lefts[1] = t /\ lefts[n] = f
    BY <1>1, <1>2 DEF Tails
  <2>3. ASSUME NEW i \in 1..(n - 1) PROVE lefts[i] = Frame(rest[i]) \o lefts[i + 1]
    <3>1. i + 1 \in 1..n /\ i \in 1..n /\ rest[i] = ms[i + 1]
      BY <1>2
    <3>2. left[i + 1] = Frame(ms[i + 1]) \o left[(i + 1) + 1]
      BY <1>1, <3>1 DEF Tails
    <3> QED
      BY <3>1, <3>2
  <2> HIDE DEF n, rest, t, lefts
  <2> QED
    BY <2>1, <2>2, <2>3 DEF Tails
<1> QED
  BY <1>3, <1>4 DEF Stream

\* Bytes that are added come after the rest.
LEMMA StreamGrows ==
  ASSUME NEW s \in Bytes, NEW ms \in Seq(Bytes), NEW f \in Bytes, Stream(s, ms, f),
         NEW x \in Bytes
  PROVE  Stream(s \o x, ms, f \o x)
<1>1. PICK left : Tails(left, s, ms, f)
  BY DEF Stream
<1> DEFINE n == Len(ms)
           lefts == [i \in 1..(n + 1) |-> left[i] \o x]
<1>2. n \in Nat /\ \A i \in 1..n : ms[i] \in Bytes
  OBVIOUS
<1>3. \A i \in 1..(n + 1) : left[i] \in Bytes /\ left[i] \o x \in Bytes
  BY <1>1, JoinType DEF Tails
<1>4. lefts \in [1..(n + 1) -> Bytes] /\ lefts[1] = s \o x /\ lefts[n + 1] = f \o x
  <2>1. 1 \in 1..(n + 1) /\ n + 1 \in 1..(n + 1)
    BY <1>2
  <2>2. left[1] = s /\ left[n + 1] = f
    BY <1>1 DEF Tails
  <2> QED
    BY <1>3, <2>1, <2>2
<1>5. ASSUME NEW i \in 1..n PROVE lefts[i] = Frame(ms[i]) \o lefts[i + 1]
  <2>1. i \in 1..(n + 1) /\ i + 1 \in 1..(n + 1)
    BY <1>2
  <2>2. left[i] = Frame(ms[i]) \o left[i + 1]
    BY <1>1 DEF Tails
  <2>3. Frame(ms[i]) \in Bytes /\ left[i + 1] \in Bytes
    BY <1>2, <1>3, <2>1, FrameType
  <2>4. (Frame(ms[i]) \o left[i + 1]) \o x = Frame(ms[i]) \o (left[i + 1] \o x)
    <3>1. Associates(Frame(ms[i]), left[i + 1], x)
      BY <2>3, JoinAssociates
    <3> QED
      BY <3>1, Zenon DEF Associates
  <2> QED
    BY <2>1, <2>2, <2>4
<1> HIDE DEF lefts
<1>6. Tails(lefts, s \o x, ms, f \o x)
  BY <1>4, <1>5 DEF Tails
<1> QED
  BY <1>6 DEF Stream

\* A rest that has become a frame is one more message.
LEMMA StreamNext ==
  ASSUME NEW s, NEW ms \in Seq(Bytes), NEW m \in Bytes, Stream(s, ms, Frame(m))
  PROVE  Stream(s, Append(ms, m), <<>>)
<1>1. PICK left : Tails(left, s, ms, Frame(m))
  BY DEF Stream
<1> DEFINE n == Len(ms)
           more == Append(ms, m)
           lefts == [i \in 1..(n + 2) |-> IF i = n + 2 THEN <<>> ELSE left[i]]
<1>2. /\ n \in Nat /\ Len(more) = n + 1 /\ more[n + 1] = m
      /\ \A i \in 1..n : more[i] = ms[i]
  OBVIOUS
<1>3. Frame(m) \o <<>> = Frame(m) /\ <<>> \in Bytes
  BY FrameType, JoinEmpty
<1>4. \A i \in 1..(n + 1) : left[i] \in Bytes /\ lefts[i] = left[i]
  BY <1>1, <1>2 DEF Tails
<1>5. lefts[n + 2] = <<>>
  BY <1>2
<1>6. lefts \in [1..((n + 1) + 1) -> Bytes]
  <2>1. 1..((n + 1) + 1) = 1..(n + 2)
    BY <1>2
  <2>2. ASSUME NEW i \in 1..(n + 2), i # n + 2 PROVE i \in 1..(n + 1)
    BY <1>2, <2>2
  <2>3. \A i \in 1..(n + 2) : (IF i = n + 2 THEN <<>> ELSE left[i]) \in Bytes
    BY <1>3, <1>4, <2>2
  <2> QED
    BY <2>1, <2>3
<1>7. lefts[1] = s /\ left[n + 1] = Frame(m)
  BY <1>1, <1>2, <1>4 DEF Tails
<1>8. ASSUME NEW i \in 1..(n + 1) PROVE lefts[i] = Frame(more[i]) \o lefts[i + 1]
  <2>1. CASE i = n + 1
    <3>1. lefts[i] = Frame(m) /\ more[i] = m
      BY <1>2, <1>4, <1>7, <2>1
    <3>2. i + 1 = n + 2
      BY <1>2, <2>1
    <3>3. lefts[i + 1] = <<>>
      BY <1>5, <3>2
    <3> HIDE DEF lefts, more
    <3> QED
      BY <1>3, <3>1, <3>3
  <2>2. CASE i # n + 1
    <3>1. i \in 1..n /\ i + 1 \in 1..(n + 1)
      BY <1>2, <2>2
    <3>2. left[i] = Frame(ms[i]) \o left[i + 1]
      BY <1>1, <3>1 DEF Tails
    <3> QED
      BY <1>2, <1>4, <3>1, <3>2
  <2> QED
    BY <2>1, <2>2
<1>9. (n + 1) + 1 = n + 2
  BY <1>2
<1> HIDE DEF lefts, more, n
<1>10. Tails(lefts, s, more, <<>>)
  BY <1>2, <1>5, <1>6, <1>7, <1>8, <1>9 DEF Tails
<1> QED
  BY <1>10 DEF Stream, more

-----------------------------------------------------------------------------
(* Types *)

LEMMA Messages ==
  /\ Queries \subseteq Bytes
  /\ Answers \subseteq Bytes /\ \A m \in Answers : Len(m) <= MaxLength
BY MessageAssumption DEF Bytes

\* No length field announces more than MaxLength.
LEMMA LengthType ==
  ASSUME TypeOK, Len(buffer) >= 2
  PROVE  Length \in Nat /\ Length <= MaxLength
<1>1. Base \in Nat /\ Base > 1
  BY Bases
<1>2. buffer[1] \in 0..(Base - 1) /\ buffer[2] \in 0..(Base - 1)
  <2>1. buffer[1] \in Byte /\ buffer[2] \in Byte
    BY DEF TypeOK
  <2> QED
    BY <2>1 DEF Byte
<1> DEFINE a == buffer[1]
           b == buffer[2]
<1>3. a \in Nat /\ a <= Base - 1 /\ b \in Nat /\ b <= Base - 1
  BY <1>1, <1>2
<1> HIDE DEF a, b
<1>4. a * Base <= (Base - 1) * Base
  BY <1>1, <1>3
<1>5. (Base - 1) * Base = Base * Base - Base
  BY <1>1
<1>6. a * Base \in Nat /\ Base * Base \in Nat
  BY <1>1, <1>3
<1>7. a * Base + b <= Base * Base - 1 /\ a * Base + b \in Nat
  BY <1>1, <1>3, <1>4, <1>5, <1>6
<1> QED
  BY <1>7 DEF a, b, Length, MaxLength

\* A prefix and what is left of a sequence of bytes are sequences of bytes.
LEMMA CutType ==
  ASSUME NEW s \in Bytes, NEW n \in 1..Len(s)
  PROVE  /\ SubSeq(s, 1, n) \in Bytes /\ Drop(s, n) \in Bytes
         /\ SubSeq(s, 1, n) \o Drop(s, n) = s
<1>1. n \in 0..Len(s)
  BY DEF Bytes
<1> QED
  BY <1>1, Cut

\* A message is being written only if one has been begun.
Started == writer \in {"prefix", "payload"} => begun # <<>>

LEMMA TypeInitially == Init => TypeOK /\ Started
<1>1. /\ <<>> \in Seq(Byte) /\ <<>> \in Seq(Queries) /\ <<>> \in Seq(Answers)
      /\ <<>> \in Seq(Seq(Byte))
  BY EmptySeq
<1>2. \A i : i \notin DOMAIN <<>>
  OBVIOUS
<1> QED
  BY <1>1, <1>2 DEF Init, TypeOK, Started

LEMMA WriteKeepsType ==
  ASSUME TypeOK, Started, WriteNext PROVE (TypeOK /\ Started)'
<1> USE DEF TypeOK, Started
<1>1. ASSUME NEW m \in Queries, SendBegins(m) PROVE (TypeOK /\ Started)'
  <2>1. Prefix(m) \in Seq(Byte)
    BY Messages, FrameType DEF Bytes
  <2>2. Append(begun, m) \in Seq(Queries) /\ Append(begun, m) # <<>>
    <3>1. begun \in Seq(Queries) /\ Len(begun) \in Nat
      OBVIOUS
    <3>2. Append(begun, m) \in Seq(Queries) /\ Len(Append(begun, m)) = Len(begun) + 1
      BY <3>1
    <3>3. Len(<<>>) = 0 /\ Len(begun) + 1 # 0
      BY <3>1
    <3> QED
      BY <3>2, <3>3
  <2> QED
    BY <1>1, <2>1, <2>2 DEF SendBegins, peerVars, readVars
<1>2. ASSUME NEW n \in 1..Len(todo), SendWrites(n) PROVE (TypeOK /\ Started)'
  <2>1. SubSeq(todo, 1, n) \in Seq(Byte) /\ Drop(todo, n) \in Seq(Byte)
    BY CutType DEF Bytes
  <2>2. out \o SubSeq(todo, 1, n) \in Seq(Byte)
    BY <2>1, ConcatProperties
  <2> QED
    BY <1>2, <2>1, <2>2 DEF SendWrites, peerVars, readVars
<1>3. CASE SendPayload
  <2>1. Last(begun) \in Queries
    BY <1>3 DEF SendPayload, Last
  <2>2. Last(begun) \in Seq(Byte)
    BY <2>1, Messages DEF Bytes
  <2> QED
    BY <1>3, <2>2 DEF SendPayload, peerVars, readVars
<1>4. CASE SendDone
  BY <1>4 DEF SendDone, peerVars, readVars
<1>5. CASE SendCut
  BY <1>5 DEF SendCut, SenderGone, peerVars, readVars
<1> QED
  BY <1>1, <1>2, <1>3, <1>4, <1>5 DEF WriteNext

LEMMA PeerKeepsType ==
  ASSUME TypeOK, Started, PeerNext PROVE (TypeOK /\ Started)'
<1> USE DEF TypeOK, Started
<1>1. ASSUME NEW m \in Answers PROVE Prefix(m) \in Seq(Byte) /\ m \in Seq(Byte)
  BY Messages, FrameType DEF Bytes
<1>2. ASSUME NEW m \in Answers, PeerWrites(m) PROVE (TypeOK /\ Started)'
  <2>1. wire \o Prefix(m) \o m \in Seq(Byte)
    BY <1>1, ConcatProperties
  <2>2. Append(framed, m) \in Seq(Answers)
    BY AppendProperties
  <2> QED
    BY <1>2, <2>1, <2>2 DEF PeerWrites, writeVars, readVars
<1>3. ASSUME NEW m \in Answers, NEW n \in 0..(Len(m) + 1), PeerCloses(m, n)
      PROVE  (TypeOK /\ Started)'
  <2>1. n \in 0..Len(Frame(m)) /\ Frame(m) \in Bytes
    BY <1>1, Messages, FrameType DEF Bytes
  <2>2. SubSeq(Frame(m), 1, n) \in Seq(Byte)
    BY <2>1, Cut DEF Bytes
  <2>3. wire \o SubSeq(Frame(m), 1, n) \in Seq(Byte)
    BY <2>2, ConcatProperties
  <2> QED
    BY <1>3, <2>3 DEF PeerCloses, Frame, writeVars, readVars
<1>4. CASE PeerResets
  <2>1. <<>> \in Seq(Byte)
    BY EmptySeq
  <2> QED
    BY <1>4, <2>1 DEF PeerResets, writeVars, readVars
<1> QED
  BY <1>2, <1>3, <1>4 DEF PeerNext

LEMMA ReadKeepsType ==
  ASSUME TypeOK, Started, ReadNext PROVE (TypeOK /\ Started)'
<1>1. CASE Decode
  <2> DEFINE m == SubSeq(buffer, 3, 2 + Length)
             t == Drop(buffer, 2 + Length)
  <2>1. Length \in Nat /\ Length <= MaxLength /\ 2 + Length <= Len(buffer)
    BY <1>1, LengthType DEF Decode, FrameReady
  <2>2. m \in Seq(Byte) /\ Len(m) = Length /\ t \in Seq(Byte)
    BY <2>1 DEF TypeOK, Drop
  <2> HIDE DEF m, t
  <2>3. decoded' = Append(decoded, m) /\ buffer' = t
    BY <1>1 DEF Decode, Remains, m, t
  <2>4. /\ decoded' \in Seq(Seq(Byte))
        /\ \A i \in DOMAIN decoded' : Len(decoded'[i]) <= MaxLength
    <3>1. /\ decoded \in Seq(Seq(Byte)) /\ Len(decoded) \in Nat
          /\ \A i \in 1..Len(decoded) : Len(decoded[i]) <= MaxLength
      BY DEF TypeOK
    <3>2. /\ Append(decoded, m) \in Seq(Seq(Byte))
          /\ DOMAIN Append(decoded, m) = 1..(Len(decoded) + 1)
          /\ \A i \in 1..Len(decoded) : Append(decoded, m)[i] = decoded[i]
          /\ Append(decoded, m)[Len(decoded) + 1] = m
      BY <2>2, <3>1
    <3>3. ASSUME NEW i \in 1..(Len(decoded) + 1)
          PROVE  Len(Append(decoded, m)[i]) <= MaxLength
      <4>1. i = Len(decoded) + 1 \/ i \in 1..Len(decoded)
        BY <3>1
      <4> QED
        BY <2>1, <2>2, <3>1, <3>2, <4>1
    <3> QED
      BY <2>3, <3>2, <3>3
  <2> QED
    BY <1>1, <2>2, <2>3, <2>4 DEF Decode, TypeOK, Started, writeVars, peerVars
<1>2. CASE DecodeMore
  BY <1>2 DEF DecodeMore, TypeOK, Started, writeVars, peerVars
<1>3. CASE DecodeEof
  BY <1>3 DEF DecodeEof, TypeOK, Started, writeVars, peerVars
<1>4. ASSUME NEW n \in 1..Len(wire), Read(n) PROVE (TypeOK /\ Started)'
  <2>1. SubSeq(wire, 1, n) \in Seq(Byte) /\ Drop(wire, n) \in Seq(Byte)
    BY CutType DEF Bytes, TypeOK
  <2>2. buffer \o SubSeq(wire, 1, n) \in Seq(Byte)
    BY <2>1, ConcatProperties DEF TypeOK
  <2> QED
    BY <1>4, <2>1, <2>2 DEF Read, TypeOK, Started, writeVars
<1>5. CASE ReadEof
  BY <1>5 DEF ReadEof, TypeOK, Started, writeVars, peerVars
<1>6. CASE ReadFails
  BY <1>6 DEF ReadFails, TypeOK, Started, writeVars, peerVars
<1>7. CASE ReaderEnds
  BY <1>7 DEF ReaderEnds, TypeOK, Started, writeVars, peerVars
<1> QED
  BY <1>1, <1>2, <1>3, <1>4, <1>5, <1>6, <1>7 DEF ReadNext

LEMMA KeepsType == Spec => [](TypeOK /\ Started)
<1>1. ASSUME TypeOK /\ Started, [Next]_vars PROVE (TypeOK /\ Started)'
  <2>1. CASE UNCHANGED vars
    BY <1>1, <2>1 DEF TypeOK, Started, vars, writeVars, peerVars, readVars
  <2> QED
    BY <1>1, <2>1, WriteKeepsType, PeerKeepsType, ReadKeepsType DEF Next
<1> QED
  BY <1>1, TypeInitially, PTL DEF Spec

\* Every variable has its type.  The message whose payload the sender writes
\* (Last(begun)) is one only because a prefix is written for a message that has
\* begun.  No decoded message is longer than a length field can say.
THEOREM TypeCorrect == Spec => []TypeOK
BY KeepsType, PTL

-----------------------------------------------------------------------------
(* The reader *)

\* What the peer closed in: nothing, or a frame of M that it did not finish.
Fragment(f, M) ==
  f = <<>> \/ \E m \in M, g \in Bytes : g # <<>> /\ f \o g = Frame(m)

\* Where the connection is: the frames of rest are still to be decoded, f is what
\* comes after the last of them, and a reset has dropped the bytes lost.
Position(rest, f, lost) ==
  /\ framed = decoded \o rest
  /\ Stream((buffer \o wire) \o lost, rest, f)
  /\ Fragment(f, Answers)
  /\ torn <=> f # <<>>
  /\ hangup = "open" => f = <<>>
  /\ hangup # "reset" => lost = <<>>
  /\ eof => wire = <<>> /\ lost = <<>> /\ hangup # "open"

Positioned == \E rest \in Seq(Answers), f \in Bytes, lost \in Bytes : Position(rest, f, lost)

\* What the reader's state says of its flag and of what is left to decode.
ReaderStops ==
  /\ reader = "reading" => ~eof
  /\ reader = "failed" => failed
  /\ reader = "ended" => failed \/ (eof /\ buffer = <<>>)

ReadInv == ReaderStops /\ Positioned

LEMMA MoveOver ==
  ASSUME NEW S, NEW p \in Seq(S), NEW q \in Seq(S), q # <<>>
  PROVE  Append(p, Head(q)) \o Tail(q) = p \o q
<1> DEFINE a == Append(p, Head(q))
           t == Tail(q)
<1>1. /\ a \in Seq(S) /\ t \in Seq(S) /\ Len(a) = Len(p) + 1 /\ Len(t) = Len(q) - 1
      /\ \A i \in 1..Len(p) : a[i] = p[i]
      /\ a[Len(p) + 1] = q[1]
      /\ \A i \in 1..(Len(q) - 1) : t[i] = q[i + 1]
  OBVIOUS
<1>2. Len(p) \in Nat /\ Len(q) \in Nat /\ Len(q) >= 1
  OBVIOUS
<1> HIDE DEF a, t
<1>3. /\ a \o t \in Seq(S) /\ Len(a \o t) = Len(a) + Len(t)
      /\ \A i \in 1..(Len(a) + Len(t)) : (a \o t)[i] = IF i <= Len(a) THEN a[i] ELSE t[i - Len(a)]
  BY <1>1, ConcatProperties
<1>4. /\ p \o q \in Seq(S) /\ Len(p \o q) = Len(p) + Len(q)
      /\ \A i \in 1..(Len(p) + Len(q)) : (p \o q)[i] = IF i <= Len(p) THEN p[i] ELSE q[i - Len(p)]
  BY ConcatProperties
<1>5. ASSUME NEW i \in 1..(Len(p) + Len(q)) PROVE (a \o t)[i] = (p \o q)[i]
  <2>1. i \in 1..(Len(a) + Len(t))
    BY <1>1, <1>2
  <2>2. CASE i <= Len(p)
    BY <1>1, <1>2, <1>3, <1>4, <2>1, <2>2
  <2>3. CASE i = Len(p) + 1
    <3>1. (a \o t)[i] = a[i] /\ (p \o q)[i] = q[1]
      BY <1>1, <1>2, <1>3, <1>4, <2>1, <2>3
    <3> QED
      BY <1>1, <2>3, <3>1
  <2>4. CASE i > Len(p) + 1
    <3> DEFINE j == i - Len(a)
    <3>1. j \in 1..(Len(q) - 1) /\ j + 1 = i - Len(p) /\ ~(i <= Len(a)) /\ ~(i <= Len(p))
      BY <1>1, <1>2, <2>4
    <3>2. (a \o t)[i] = t[j] /\ (p \o q)[i] = q[j + 1]
      BY <1>3, <1>4, <2>1, <3>1
    <3> QED
      BY <1>1, <3>1, <3>2
  <2>5. i <= Len(p) \/ i = Len(p) + 1 \/ i > Len(p) + 1
    BY <1>2
  <2> QED
    BY <2>2, <2>3, <2>4, <2>5
<1>6. Len(a \o t) = Len(p \o q)
  BY <1>1, <1>2, <1>3, <1>4
<1>7. a \o t = p \o q
  BY <1>1, <1>3, <1>4, <1>5, <1>6, SeqEqual
<1> QED
  BY <1>7 DEF a, t

LEMMA ReadInitially == Init => ReadInv
<1> SUFFICES ASSUME Init PROVE ReadInv
  OBVIOUS
<1>1. <<>> \in Seq(Answers) /\ <<>> \in Bytes /\ <<>> \o <<>> = <<>>
  BY EmptySeq, ConcatEmptySeq DEF Bytes
<1>2. Stream(<<>>, <<>>, <<>>)
  BY <1>1, StreamNone
<1>3. Position(<<>>, <<>>, <<>>)
  BY <1>1, <1>2 DEF Init, Position, Fragment
<1>4. ReaderStops
  BY DEF Init, ReaderStops
<1> QED
  BY <1>1, <1>3, <1>4 DEF ReadInv, Positioned

\* What TypeOK says of the bytes.
LEMMA BytesType ==
  ASSUME TypeOK
  PROVE  /\ todo \in Bytes /\ out \in Bytes /\ wire \in Bytes /\ buffer \in Bytes
         /\ begun \in Seq(Queries) /\ begun \in Seq(Bytes)
         /\ framed \in Seq(Answers) /\ decoded \in Seq(Bytes)
<1>1. Seq(Queries) \subseteq Seq(Bytes)
  BY Messages, SeqMonotonic
<1> QED
  BY <1>1 DEF TypeOK, Bytes

LEMMA AnswersType ==
  ASSUME NEW rest \in Seq(Answers)
  PROVE  rest \in Seq(Bytes)
BY Messages, SeqMonotonic

LEMMA PeerKeepsPosition ==
  ASSUME TypeOK, ReadInv, PeerNext PROVE ReadInv'
<1>1. ReaderStops' /\ UNCHANGED readVars
  BY DEF ReadInv, ReaderStops, PeerNext, PeerWrites, PeerCloses, PeerResets, readVars
<1>2. PICK rest \in Seq(Answers), f \in Bytes, lost \in Bytes : Position(rest, f, lost)
  BY DEF ReadInv, Positioned
<1>3. /\ wire \in Bytes /\ buffer \in Bytes /\ framed \in Seq(Answers)
      /\ decoded \in Seq(Bytes) /\ rest \in Seq(Bytes) /\ <<>> \in Bytes
  BY BytesType, AnswersType, JoinEmpty
<1> DEFINE s == buffer \o wire
<1>4. s \in Bytes /\ s \o <<>> = s
  BY <1>3, JoinType, JoinEmpty
<1>5. ASSUME NEW x \in Bytes, hangup = "open", wire' = wire \o x
      PROVE  Stream((buffer' \o wire') \o <<>>, rest, x) /\ s \o x \in Bytes
  <2>1. Stream(s, rest, <<>>)
    BY <1>2, <1>4, <1>5 DEF Position
  <2>2. Stream(s \o x, rest, <<>> \o x)
    BY <1>3, <1>4, <2>1, StreamGrows
  <2>3. <<>> \o x = x /\ s \o x \in Bytes
    BY <1>4, JoinEmpty, JoinType
  <2>4. (s \o x) \o <<>> = s \o x
    BY <2>3, JoinEmpty
  <2>5. (buffer \o wire) \o x = buffer \o (wire \o x)
    <3>1. Associates(buffer, wire, x)
      BY <1>3, JoinAssociates
    <3> QED
      BY <3>1, Zenon DEF Associates
  <2> QED
    BY <1>1, <1>5, <2>2, <2>3, <2>4, <2>5 DEF readVars
<1>6. ASSUME NEW m \in Answers, PeerWrites(m) PROVE Positioned'
  <2>1. m \in Bytes /\ Frame(m) \in Bytes /\ Prefix(m) \in Bytes
    BY Messages, FrameType
  <2>2. wire' = wire \o Frame(m)
    BY <1>3, <1>6, <2>1, FrameAfter DEF PeerWrites
  <2>3. hangup = "open" /\ f = <<>> /\ lost = <<>>
    BY <1>2, <1>6 DEF PeerWrites, Position
  <2> DEFINE more == Append(rest, m)
  <2>4. Stream((buffer' \o wire') \o <<>>, more, <<>>)
    BY <1>3, <1>5, <2>1, <2>2, <2>3, StreamNext
  <2>5. more \in Seq(Answers)
    OBVIOUS
  <2>6. framed' = decoded' \o more
    <3>1. framed = decoded \o rest
      BY <1>2 DEF Position
    <3>2. Append(decoded \o rest, m) = decoded \o Append(rest, m)
      <4>1. m \in Bytes /\ decoded \o rest \in Seq(Bytes)
        BY <1>3, <2>1, ConcatProperties
      <4>2. /\ Append(decoded \o rest, m) = (decoded \o rest) \o <<m>>
            /\ Append(rest, m) = rest \o <<m>>
        BY <1>3, <4>1, AppendIsConcat
      <4>3. <<m>> \in Seq(Bytes)
        BY <4>1
      <4> QED
        BY <1>3, <4>2, <4>3, ConcatAssociative
    <3> QED
      BY <1>1, <1>6, <3>1, <3>2 DEF PeerWrites, readVars
  <2> HIDE DEF more
  <2>7. Position(more, <<>>, <<>>)'
    BY <1>1, <1>2, <1>6, <2>3, <2>4, <2>6 DEF PeerWrites, Position, Fragment, readVars
  <2> QED
    BY <1>3, <2>5, <2>7 DEF Positioned
<1>7. ASSUME NEW m \in Answers, NEW n \in 0..(Len(m) + 1), PeerCloses(m, n)
      PROVE  Positioned'
  <2> DEFINE x == SubSeq(Frame(m), 1, n)
             g == Drop(Frame(m), n)
  <2>1. m \in Bytes /\ Len(m) \in Nat /\ Frame(m) \in Bytes /\ Len(Frame(m)) = 2 + Len(m)
    BY Messages, FrameType DEF Bytes
  <2>2. n \in 0..Len(Frame(m)) /\ n < Len(Frame(m))
    BY <2>1
  <2>3. /\ x \in Bytes /\ Len(x) = n /\ g \in Bytes /\ Len(g) = Len(Frame(m)) - n
        /\ x \o g = Frame(m)
    BY <2>1, <2>2, Cut
  <2>4. hangup = "open" /\ lost = <<>> /\ hangup' = "closed" /\ UNCHANGED framed
        /\ wire' = wire \o x /\ (torn' <=> n > 0)
    BY <1>2, <1>7 DEF PeerCloses, Position, Frame
  <2> HIDE DEF x, g
  <2>5. Len(<<>>) = 0 /\ (x = <<>> <=> n = 0) /\ g # <<>>
    BY <2>1, <2>2, <2>3 DEF Bytes
  <2>6. torn' <=> x # <<>>
    BY <2>2, <2>4, <2>5
  <2>7. Fragment(x, Answers)
    BY <2>3, <2>5 DEF Fragment
  <2>8. Stream((buffer' \o wire') \o <<>>, rest, x)
    BY <1>5, <2>3, <2>4
  <2>9. Position(rest, x, <<>>)'
    BY <1>1, <1>2, <2>4, <2>6, <2>7, <2>8 DEF Position, readVars
  <2> QED
    BY <1>3, <2>3, <2>9 DEF Positioned
<1>8. CASE PeerResets
  <2>1. PICK gone \in Bytes : gone = wire \o lost
    BY <1>3, JoinType
  <2>2. (buffer' \o wire') \o gone = s \o lost
    <3>1. buffer \o <<>> = buffer
      BY <1>3, JoinEmpty
    <3>2. (buffer \o wire) \o lost = buffer \o (wire \o lost)
      <4>1. Associates(buffer, wire, lost)
        BY <1>3, JoinAssociates
      <4> QED
        BY <4>1, Zenon DEF Associates
    <3> QED
      BY <1>1, <1>8, <2>1, <3>1, <3>2 DEF PeerResets, readVars
  <2>3. eof => gone = <<>>
    BY <1>2, <1>3, <2>1, JoinEmpty DEF Position
  <2>4. Position(rest, f, gone)'
    <3>1. Stream((buffer' \o wire') \o gone, rest, f)
      BY <1>2, <2>2 DEF Position
    <3>2. framed' = decoded' \o rest
      BY <1>1, <1>2, <1>8 DEF PeerResets, Position, readVars
    <3>3. hangup' = "reset" /\ wire' = <<>> /\ torn' = torn /\ eof' = eof
      BY <1>1, <1>8 DEF PeerResets, readVars
    <3> QED
      BY <1>2, <2>3, <3>1, <3>2, <3>3 DEF Position
  <2> QED
    BY <1>1, <2>1, <2>4 DEF Positioned, ReadInv
<1> QED
  BY <1>1, <1>6, <1>7, <1>8 DEF PeerNext, ReadInv

\* The decoder finds a whole frame at the head of its buffer when it returns one,
\* and the frame is that of the next message: the bytes of a frame that the peer
\* did not finish are too few for the length it announces.
LEMMA DecodeKeepsPosition ==
  ASSUME TypeOK, Positioned, Decode PROVE Positioned'
<1>1. PICK rest \in Seq(Answers), f \in Bytes, lost \in Bytes : Position(rest, f, lost)
  BY DEF Positioned
<1>2. /\ wire \in Bytes /\ buffer \in Bytes /\ decoded \in Seq(Bytes)
      /\ rest \in Seq(Bytes) /\ <<>> \in Bytes
  BY BytesType, AnswersType, JoinEmpty
<1>3. PICK after \in Bytes : after = wire \o lost
  BY <1>2, JoinType
<1>4. Stream(buffer \o after, rest, f)
  <2>1. (buffer \o wire) \o lost = buffer \o (wire \o lost)
    <3>1. Associates(buffer, wire, lost)
      BY <1>2, JoinAssociates
    <3> QED
      BY <3>1, Zenon DEF Associates
  <2> QED
    BY <1>1, <1>3, <2>1 DEF Position
<1>5. Len(buffer) >= 2 /\ Len(buffer) >= 2 + Length
  BY DEF Decode, FrameReady
<1>6. ASSUME NEW m \in Answers, NEW z \in Bytes, Opens(buffer, after, m, z)
      PROVE  /\ SubSeq(buffer, 3, 2 + Length) = m
             /\ Drop(buffer, 2 + Length) \o after = z
             /\ Drop(buffer, 2 + Length) \in Bytes
  <2>1. m \in Bytes /\ Len(m) <= MaxLength
    BY Messages
  <2>2. Reads(buffer, after, m, z)
    BY <1>2, <1>5, <1>6, <2>1, FrameRead
  <2>3. Length = Len(m)
    BY <2>2 DEF Reads, Length
  <2>4. SubSeq(buffer, 3, 2 + Length) = m /\ Drop(buffer, 2 + Length) \o after = z
    BY <1>5, <2>2, <2>3 DEF Reads
  <2>5. Len(m) \in Nat /\ Len(buffer) \in Nat
    BY <1>2, <2>1 DEF Bytes
  <2>6. 2 + Length \in 0..Len(buffer)
    BY <1>5, <2>3, <2>5
  <2> QED
    BY <1>2, <2>4, <2>6, Cut
<1>7. rest # <<>>
  <2> SUFFICES ASSUME rest = <<>> PROVE FALSE
    OBVIOUS
  <2>1. f = buffer \o after
    BY <1>2, <1>4, JoinType, StreamNone
  <2>2. Len(f) = Len(buffer) + Len(after) /\ Len(buffer) \in Nat /\ Len(after) \in Nat
    BY <1>2, <2>1, JoinType DEF Bytes
  <2>3. f # <<>>
    BY <1>5, <2>2
  <2>4. PICK m \in Answers, g \in Bytes : g # <<>> /\ f \o g = Frame(m)
    BY <1>1, <2>3 DEF Position, Fragment
  <2>5. Len(Frame(m)) = Len(f) + Len(g) /\ Len(g) \in Nat /\ Len(g) # 0
    BY <2>4, JoinType DEF Bytes
  <2>6. m \in Bytes /\ Len(m) <= MaxLength /\ Len(m) \in Nat /\ Len(Frame(m)) = 2 + Len(m)
    BY Messages, FrameType DEF Bytes
  <2>7. after \o g \in Bytes /\ Opens(buffer, after \o g, m, <<>>)
    <3>1. (buffer \o after) \o g = buffer \o (after \o g)
      <4>1. Associates(buffer, after, g)
        BY <1>2, JoinAssociates
      <4> QED
        BY <4>1, Zenon DEF Associates
    <3>2. Frame(m) \in Bytes /\ Frame(m) \o <<>> = Frame(m)
      BY <2>6, FrameType, JoinEmpty
    <3>3. after \o g \in Bytes
      BY JoinType
    <3> QED
      BY <2>1, <2>4, <3>1, <3>2, <3>3 DEF Opens
  <2>8. Reads(buffer, after \o g, m, <<>>)
    BY <1>2, <1>5, <2>6, <2>7, FrameRead
  <2>9. Length = Len(m)
    BY <2>8 DEF Reads, Length
  <2> QED
    BY <1>5, <2>2, <2>5, <2>6, <2>9
<1>8. Head(rest) \in Answers /\ Tail(rest) \in Seq(Answers)
  BY <1>7
<1>9. PICK z \in Bytes : Opens(buffer, after, Head(rest), z) /\ Stream(z, Tail(rest), f)
  BY <1>2, <1>4, <1>7, StreamFirst DEF Opens
<1>10. /\ decoded' = Append(decoded, Head(rest))
       /\ buffer' \o after = z /\ buffer' \in Bytes
  BY <1>6, <1>8, <1>9 DEF Decode, Remains
<1>11. (buffer' \o wire) \o lost = z
  <2>1. (buffer' \o wire) \o lost = buffer' \o (wire \o lost)
    <3>1. Associates(buffer', wire, lost)
      BY <1>2, <1>10, JoinAssociates
    <3> QED
      BY <3>1, Zenon DEF Associates
  <2> QED
    BY <1>3, <1>10, <2>1
<1>12. framed = decoded' \o Tail(rest)
  BY <1>1, <1>2, <1>7, <1>10, MoveOver DEF Position
<1>13. UNCHANGED <<framed, wire, hangup, torn, eof>>
  BY DEF Decode, peerVars
<1>14. Position(Tail(rest), f, lost)'
  <2>1. Stream((buffer' \o wire') \o lost, Tail(rest), f)
    BY <1>9, <1>11, <1>13
  <2>2. framed' = decoded' \o Tail(rest)
    BY <1>12, <1>13
  <2> QED
    BY <1>1, <1>13, <2>1, <2>2 DEF Position
<1> QED
  BY <1>8, <1>14 DEF Positioned

LEMMA ReadKeepsPosition ==
  ASSUME TypeOK, ReadInv, ReadNext PROVE ReadInv'
<1>1. PICK rest \in Seq(Answers), f \in Bytes, lost \in Bytes : Position(rest, f, lost)
  BY DEF ReadInv, Positioned
<1>2. wire \in Bytes /\ buffer \in Bytes
  BY BytesType
<1>3. CASE Decode
  <2>1. ReaderStops'
    BY <1>3 DEF ReadInv, ReaderStops, Decode
  <2> QED
    BY <1>3, <2>1, DecodeKeepsPosition DEF ReadInv
<1>4. CASE DecodeMore \/ DecodeEof \/ ReadFails \/ ReaderEnds
  <2>1. ReaderStops'
    BY <1>4 DEF ReadInv, ReaderStops, DecodeMore, DecodeEof, Leftover, ReadFails, ReaderEnds
  <2>2. UNCHANGED <<framed, decoded, buffer, wire, torn, hangup, eof>>
    BY <1>4 DEF DecodeMore, DecodeEof, ReadFails, ReaderEnds, peerVars
  <2>3. Position(rest, f, lost)'
    BY <1>1, <2>2 DEF Position
  <2> QED
    BY <2>1, <2>3 DEF ReadInv, Positioned
<1>5. ASSUME NEW n \in 1..Len(wire), Read(n) PROVE ReadInv'
  <2>1. ReaderStops'
    BY <1>5 DEF ReadInv, ReaderStops, Read
  <2>2. buffer' \o wire' = buffer \o wire
    <3> DEFINE x == SubSeq(wire, 1, n)
               y == Drop(wire, n)
    <3>1. x \in Bytes /\ y \in Bytes /\ x \o y = wire
      BY <1>2, CutType
    <3>2. buffer' = buffer \o x /\ wire' = y
      BY <1>5 DEF Read
    <3> HIDE DEF x, y
    <3>3. (buffer \o x) \o y = buffer \o (x \o y)
      <4>1. Associates(buffer, x, y)
        BY <1>2, <3>1, JoinAssociates
      <4> QED
        BY <4>1, Zenon DEF Associates
    <3> QED
      BY <3>1, <3>2, <3>3
  <2>3. UNCHANGED <<framed, decoded, torn, hangup>> /\ eof' = FALSE
    BY <1>5 DEF Read
  <2>4. Position(rest, f, lost)'
    <3>1. Stream((buffer' \o wire') \o lost, rest, f)
      BY <1>1, <2>2 DEF Position
    <3> QED
      BY <1>1, <2>3, <3>1 DEF Position
  <2> QED
    BY <2>1, <2>4 DEF ReadInv, Positioned
<1>6. CASE ReadEof
  <2>1. ReaderStops'
    BY <1>6 DEF ReadInv, ReaderStops, ReadEof
  <2>2. UNCHANGED <<framed, decoded, buffer, wire, torn, hangup>>
        /\ wire = <<>> /\ hangup = "closed"
    BY <1>6 DEF ReadEof, peerVars
  <2>3. Position(rest, f, lost)'
    BY <1>1, <2>2 DEF Position
  <2> QED
    BY <2>1, <2>3 DEF ReadInv, Positioned
<1> QED
  BY <1>3, <1>4, <1>5, <1>6 DEF ReadNext

LEMMA KeepsPosition == Spec => [](TypeOK /\ ReadInv)
<1>1. ASSUME TypeOK, ReadInv, WriteNext PROVE ReadInv'
  <2>1. UNCHANGED <<peerVars, readVars>>
    BY <1>1 DEF WriteNext, SendBegins, SendWrites, SendPayload, SendDone, SendCut
  <2> QED
    BY <1>1, <2>1 DEF ReadInv, ReaderStops, Positioned, Position, peerVars, readVars
<1>2. ASSUME TypeOK, ReadInv, UNCHANGED vars PROVE ReadInv'
  BY <1>2 DEF ReadInv, ReaderStops, Positioned, Position, vars, peerVars, readVars
<1>3. ASSUME TypeOK, ReadInv, [Next]_vars PROVE ReadInv'
  BY <1>1, <1>2, <1>3, PeerKeepsPosition, ReadKeepsPosition DEF Next
<1> QED
  BY <1>3, ReadInitially, TypeCorrect, PTL DEF Spec

\* The generator gets the peer's messages in their order, each once and whole,
\* however the stream is cut into reads, closed or reset (msg.rs 55-75).
THEOREM DecodesInOrder == Spec => []DecodesWhatWasSent
<1>1. ASSUME TypeOK, ReadInv PROVE DecodesWhatWasSent
  <2>1. PICK rest \in Seq(Bytes) : framed = decoded \o rest
    BY <1>1, AnswersType DEF ReadInv, Positioned, Position
  <2>2. decoded \in Seq(Bytes) /\ Len(decoded) \in Nat /\ Len(rest) \in Nat
    BY <1>1, BytesType
  <2>3. /\ Len(framed) = Len(decoded) + Len(rest) /\ framed \in Seq(Bytes)
        /\ \A i \in 1..Len(decoded) : framed[i] = decoded[i]
    BY <2>1, <2>2, ConcatProperties
  <2> DEFINE k == Len(decoded)
             d == SubSeq(decoded, 1, k)
             e == SubSeq(framed, 1, k)
  <2>4. /\ d \in Seq(Bytes) /\ Len(d) = k /\ \A i \in 1..k : d[i] = decoded[i]
        /\ e \in Seq(Bytes) /\ Len(e) = k /\ \A i \in 1..k : e[i] = framed[i]
    BY <2>2, <2>3
  <2> HIDE DEF d, e
  <2>5. d = e
    BY <2>2, <2>3, <2>4, SeqEqual
  <2> QED
    BY <2>2, <2>3, <2>5 DEF DecodesWhatWasSent, IsPrefix, d, e
<1> QED
  BY <1>1, KeepsPosition, PTL

\* A stream that ends without an error was closed between two frames, and all of
\* it was decoded: a generator that sees None and no error missed nothing.
THEOREM CleanEndMissesNothing == Spec => []CleanEndIsWhole
<1>1. ASSUME TypeOK, ReadInv PROVE CleanEndIsWhole
  <2> SUFFICES ASSUME reader = "ended", ~failed
               PROVE  ~torn /\ hangup # "open" /\ decoded = framed
    BY DEF CleanEndIsWhole
  <2>1. eof /\ buffer = <<>>
    BY <1>1 DEF ReadInv, ReaderStops
  <2>2. PICK rest \in Seq(Answers), f \in Bytes, lost \in Bytes : Position(rest, f, lost)
    BY <1>1 DEF ReadInv, Positioned
  <2>3. wire = <<>> /\ lost = <<>> /\ hangup # "open"
    BY <2>1, <2>2 DEF Position
  <2>4. <<>> \in Bytes /\ (<<>> \o <<>>) \o <<>> = <<>>
    BY JoinEmpty, EmptySeq DEF Bytes
  <2>5. Stream(<<>>, rest, f)
    BY <2>1, <2>2, <2>3, <2>4 DEF Position
  <2>6. rest = <<>>
    <3> SUFFICES ASSUME rest # <<>> PROVE FALSE
      OBVIOUS
    <3>1. PICK z \in Bytes : <<>> = Frame(Head(rest)) \o z
      BY <2>5, AnswersType, StreamFirst
    <3>2. Head(rest) \in Bytes
      BY Messages
    <3>3. /\ Frame(Head(rest)) \in Bytes
          /\ Len(Frame(Head(rest))) = 2 + Len(Head(rest))
      BY <3>2, FrameType
    <3>4. Len(Head(rest)) \in Nat
      BY <3>2 DEF Bytes
    <3>5. Frame(Head(rest)) = <<>>
      BY <3>1, <3>3, JoinIsEmpty
    <3> QED
      BY <3>3, <3>4, <3>5
  <2>7. f = <<>>
    BY <2>4, <2>5, <2>6, StreamNone
  <2>8. decoded \in Seq(Bytes) /\ framed = decoded \o <<>>
    BY <1>1, <2>2, <2>6, BytesType DEF Position
  <2>9. framed = decoded
    BY <2>8, ConcatEmptySeq
  <2> QED
    BY <2>2, <2>3, <2>7, <2>9 DEF Position
<1> QED
  BY <1>1, KeepsPosition, PTL

-----------------------------------------------------------------------------
(* What a reader of the sender's bytes finds in them *)

\* Messages whose length the prefix can say.
Short == {m \in Bytes : Len(m) <= MaxLength}

Size(s, i) == s[i] * Base + s[i + 1]

\* Parse, with its recursive function by name.
ParseStep(s, i, from) ==
  IF i + 1 > Len(s) \/ i + 1 + Size(s, i) > Len(s) THEN <<>>
  ELSE <<SubSeq(s, i + 2, i + 1 + Size(s, i))>> \o from[i + 2 + Size(s, i)]

Parsed(s) == CHOOSE from : from = [i \in 1..(Len(s) + 1) |-> ParseStep(s, i, from)]

LEMMA ParseIsParsed == ASSUME NEW s PROVE Parse(s) = Parsed(s)[1]
BY Zenon DEF Parse, Parsed, ParseStep, Size

LEMMA SizeType ==
  ASSUME NEW s \in Bytes, NEW i \in Nat, i >= 1, i + 1 <= Len(s)
  PROVE  Size(s, i) \in Nat
<1>1. Base \in Nat /\ Base > 1
  BY Bases
<1>2. Len(s) \in Nat /\ i \in 1..Len(s) /\ i + 1 \in 1..Len(s)
  BY DEF Bytes
<1>3. s[i] \in Byte /\ s[i + 1] \in Byte
  BY <1>2 DEF Bytes
<1>4. s[i] \in Nat /\ s[i + 1] \in Nat
  BY <1>1, <1>3 DEF Byte
<1>5. s[i] * Base \in Nat
  BY <1>1, <1>4
<1> QED
  BY <1>4, <1>5 DEF Size

\* There is such a function: what is read from a place on depends only on what is
\* read from later places on.
LEMMA ParsedExists ==
  ASSUME NEW s \in Bytes
  PROVE  Parsed(s) = [i \in 1..(Len(s) + 1) |-> ParseStep(s, i, Parsed(s))]
<1> DEFINE L == Len(s)
           Late(n) == {i \in 1..(L + 1) : L + 1 <= i + n}
           Fits(g, n) == g = [i \in Late(n) |-> ParseStep(s, i, g)]
           Found == {n \in Nat : \E g : Fits(g, n)}
<1>1. L \in Nat
  BY DEF Bytes
<1>2. 0 \in Found
  <2> DEFINE g == [i \in Late(0) |-> <<>>]
  <2>1. ASSUME NEW i \in Late(0) PROVE ParseStep(s, i, g) = <<>>
    <3>1. i + 1 > L
      BY <1>1
    <3> QED
      BY <3>1 DEF ParseStep
  <2>2. Fits(g, 0)
    BY <2>1
  <2> QED
    BY <2>2
<1>3. ASSUME NEW n \in Nat, n \in Found PROVE n + 1 \in Found
  <2>1. PICK g : Fits(g, n)
    BY <1>3
  <2> DEFINE h == [i \in Late(n + 1) |-> ParseStep(s, i, g)]
  <2>2. ASSUME NEW i \in Late(n + 1) PROVE h[i] = ParseStep(s, i, h)
    <3>1. h[i] = ParseStep(s, i, g)
      OBVIOUS
    <3>2. CASE i + 1 > L \/ i + 1 + Size(s, i) > L
      BY <3>1, <3>2 DEF ParseStep
    <3>3. CASE ~(i + 1 > L \/ i + 1 + Size(s, i) > L)
      <4> DEFINE next == i + 2 + Size(s, i)
      <4>1. i \in Nat /\ i >= 1 /\ i + 1 <= L /\ L + 1 <= i + (n + 1)
        BY <1>1, <3>3
      <4>2. Size(s, i) \in Nat
        BY <4>1, SizeType
      <4>3. ~(i + 1 + Size(s, i) > L)
        BY <3>3
      <4>4. next \in Late(n) /\ next \in Late(n + 1)
        BY <1>1, <4>1, <4>2, <4>3
      <4>5. g[next] = ParseStep(s, next, g)
        BY <2>1, <4>4
      <4>6. h[next] = g[next]
        BY <4>4, <4>5
      <4> HIDE DEF h, next
      <4>7. ParseStep(s, i, g) = ParseStep(s, i, h)
        BY <3>3, <4>6 DEF ParseStep, next
      <4> QED
        BY <3>1, <4>7
    <3> QED
      BY <3>2, <3>3
  <2>3. h = [i \in Late(n + 1) |-> h[i]]
    OBVIOUS
  <2> HIDE DEF h
  <2>4. Fits(h, n + 1)
    BY <2>2, <2>3
  <2>5. n + 1 \in Nat
    OBVIOUS
  <2> QED
    BY <2>4, <2>5, Zenon
<1> HIDE DEF Found
<1>4. Nat \subseteq Found
  BY <1>2, <1>3, NatSetInduction
<1>5. PICK g : Fits(g, L)
  BY <1>1, <1>4 DEF Found
<1>6. Late(L) = 1..(L + 1)
  BY <1>1
<1>7. g = [i \in 1..(Len(s) + 1) |-> ParseStep(s, i, g)]
  BY <1>5, <1>6
<1> QED
  BY <1>7, Zenon DEF Parsed

\* What a decoder has dropped may be dropped in two steps.
LEMMA DropTwice ==
  ASSUME NEW s \in Bytes, NEW i \in 1..(Len(s) + 1), NEW L \in Nat,
         L + 2 <= Len(Drop(s, i - 1))
  PROVE  /\ i + 1 + L <= Len(s)
         /\ SubSeq(Drop(s, i - 1), 3, 2 + L) = SubSeq(s, i + 2, i + 1 + L)
         /\ Drop(Drop(s, i - 1), 2 + L) = Drop(s, i + 1 + L)
<1> DEFINE t == Drop(s, i - 1)
<1>1. /\ Len(s) \in Nat /\ i - 1 \in 0..Len(s) /\ i \in Nat
      /\ s \in Seq(Byte)
  BY DEF Bytes
<1>2. /\ t \in Bytes /\ Len(t) = Len(s) - (i - 1)
      /\ \A j \in 1..(Len(s) - (i - 1)) : t[j] = s[(i - 1) + j]
  BY <1>1, Cut
<1> HIDE DEF t
<1>3. t \in Seq(Byte) /\ 2 + L <= Len(t)
  BY <1>2 DEF Bytes, t
<1>4. i + 1 + L <= Len(s)
  BY <1>1, <1>2, <1>3
<1>5. SubSeq(t, 3, 2 + L) = SubSeq(s, i + 2, i + 1 + L)
  <2> DEFINE a == SubSeq(t, 3, 2 + L)
             b == SubSeq(s, i + 2, i + 1 + L)
  <2>1. a \in Seq(Byte) /\ Len(a) = L /\ \A j \in 1..L : a[j] = t[2 + j]
    BY <1>3
  <2>2. b \in Seq(Byte) /\ Len(b) = L /\ \A j \in 1..L : b[j] = s[i + 1 + j]
    BY <1>1, <1>4
  <2> HIDE DEF a, b
  <2>3. ASSUME NEW j \in 1..L PROVE a[j] = b[j]
    <3>1. 2 + j \in 1..(Len(s) - (i - 1)) /\ (i - 1) + (2 + j) = i + 1 + j
      BY <1>1, <1>2, <1>3
    <3> QED
      BY <1>2, <2>1, <2>2, <3>1
  <2>4. a = b
    BY <2>1, <2>2, <2>3, SeqEqual
  <2> QED
    BY <2>4 DEF a, b
<1>6. Drop(t, 2 + L) = Drop(s, i + 1 + L)
  <2> DEFINE a == Drop(t, 2 + L)
             b == Drop(s, i + 1 + L)
             n == Len(s) - (i + 1 + L)
  <2>1. a \in Bytes /\ Len(a) = n /\ \A j \in 1..n : a[j] = t[(2 + L) + j]
    <3>1. 2 + L \in 0..Len(t) /\ Len(t) - (2 + L) = n
      BY <1>1, <1>2, <1>3
    <3>2. /\ a \in Bytes /\ Len(a) = Len(t) - (2 + L)
          /\ \A j \in 1..(Len(t) - (2 + L)) : a[j] = t[(2 + L) + j]
      BY <1>2, <3>1, Cut
    <3> QED
      BY <3>1, <3>2, Zenon
  <2>2. b \in Bytes /\ Len(b) = n /\ \A j \in 1..n : b[j] = s[(i + 1 + L) + j]
    <3>1. i + 1 + L \in 0..Len(s)
      BY <1>1, <1>4
    <3> QED
      BY <3>1, Cut
  <2> HIDE DEF a, b
  <2>3. ASSUME NEW j \in 1..n PROVE a[j] = b[j]
    <3>1. /\ (2 + L) + j \in 1..(Len(s) - (i - 1))
          /\ (i - 1) + ((2 + L) + j) = (i + 1 + L) + j
      BY <1>1, <1>2, <1>3
    <3> QED
      BY <1>2, <2>1, <2>2, <3>1
  <2>4. a = b
    BY <2>1, <2>2, <2>3, SeqEqual DEF Bytes
  <2> QED
    BY <2>4 DEF a, b
<1> QED
  BY <1>4, <1>5, <1>6 DEF t

\* A reader finds the messages of a stream, and no message in a frame that is not
\* all there.
LEMMA ParseReads ==
  ASSUME NEW s \in Bytes, NEW ms \in Seq(Short), NEW f \in Bytes,
         Stream(s, ms, f), Fragment(f, Short)
  PROVE  Parse(s) = ms
<1> DEFINE From == Parsed(s)
           Found == {n \in Nat : \A i \in 1..(Len(s) + 1), q \in Seq(Short) :
                       Len(q) = n /\ Stream(Drop(s, i - 1), q, f) => From[i] = q}
<1>1. \A i \in 1..(Len(s) + 1) : From[i] = ParseStep(s, i, From)
  BY ParsedExists
<1> HIDE DEF From
<1>2. Len(s) \in Nat /\ <<>> \in Bytes
  BY JoinEmpty DEF Bytes
<1>3. \A i \in 1..(Len(s) + 1) :
         /\ i \in Nat /\ i >= 1
         /\ Drop(s, i - 1) \in Bytes /\ Len(Drop(s, i - 1)) = Len(s) - (i - 1)
  <2> TAKE i \in 1..(Len(s) + 1)
  <2>1. i - 1 \in 0..Len(s) /\ i \in Nat
    BY <1>2
  <2> QED
    BY <2>1, Cut
<1>4. ASSUME NEW i \in 1..(Len(s) + 1), NEW q \in Seq(Short), Len(q) = 0,
             Stream(Drop(s, i - 1), q, f)
      PROVE  From[i] = q
  <2> DEFINE t == Drop(s, i - 1)
  <2>1. q = <<>>
    BY <1>4
  <2>2. f = t
    BY <1>3, <1>4, <2>1, StreamNone
  <2>3. CASE Len(t) < 2
    <3>1. i + 1 > Len(s)
      BY <1>2, <1>3, <2>3
    <3> QED
      BY <1>1, <2>1, <3>1 DEF ParseStep
  <2>4. CASE Len(t) >= 2
    <3>1. f # <<>>
      BY <2>2, <2>4
    <3>2. PICK m \in Short, g \in Bytes : g # <<>> /\ f \o g = Frame(m)
      BY <3>1 DEF Fragment
    <3>3. m \in Bytes /\ Len(m) <= MaxLength /\ Frame(m) \in Bytes
      BY <3>2, FrameType DEF Short
    <3>4. Len(Frame(m)) = 2 + Len(m) /\ Len(Frame(m)) = Len(f) + Len(g)
      BY <3>2, <3>3, FrameType, JoinType
    <3>5. Len(m) \in Nat /\ Len(f) \in Nat /\ Len(g) \in Nat /\ Len(g) # 0
      BY <3>2, <3>3 DEF Bytes
    <3>6. Opens(f, g, m, <<>>)
      BY <3>2, <3>3, JoinEmpty DEF Opens
    <3>7. Reads(f, g, m, <<>>)
      BY <1>2, <2>2, <2>4, <3>3, <3>6, FrameRead
    <3>8. f[1] = s[i] /\ f[2] = s[i + 1]
      <4>1. i - 1 \in 0..Len(s)
        BY <1>2
      <4>2. \A j \in 1..(Len(s) - (i - 1)) : t[j] = s[(i - 1) + j]
        BY <4>1, Cut
      <4>3. 1 \in 1..(Len(s) - (i - 1)) /\ 2 \in 1..(Len(s) - (i - 1))
        BY <1>2, <1>3, <2>4
      <4>4. (i - 1) + 1 = i /\ (i - 1) + 2 = i + 1
        OBVIOUS
      <4> QED
        BY <2>2, <4>2, <4>3, <4>4
    <3>9. Size(s, i) = Len(m)
      BY <3>7, <3>8 DEF Reads, Size
    <3>10. i + 1 + Size(s, i) > Len(s)
      BY <1>2, <1>3, <2>2, <3>4, <3>5, <3>9
    <3> QED
      BY <1>1, <2>1, <3>10 DEF ParseStep
  <2> QED
    BY <1>2, <1>3, <2>3, <2>4
<1>5. ASSUME NEW n \in Nat, n \in Found PROVE n + 1 \in Found
  <2>1. n + 1 \in Nat
    OBVIOUS
  <2>2. SUFFICES ASSUME NEW i \in 1..(Len(s) + 1), NEW q \in Seq(Short),
                        Len(q) = n + 1, Stream(Drop(s, i - 1), q, f)
                 PROVE  From[i] = q
    BY <2>1, Zenon
  <2> DEFINE t == Drop(s, i - 1)
             m == Head(q)
             L == Len(m)
  <2>3. q # <<>> /\ m \in Short /\ Tail(q) \in Seq(Short) /\ Len(Tail(q)) = n
    BY <2>2
  <2>4. m \in Bytes /\ L <= MaxLength /\ L \in Nat
    BY <2>3 DEF Short, Bytes
  <2>5. q \in Seq(Bytes)
    BY SeqMonotonic DEF Short
  <2>6. PICK z \in Bytes : t = Frame(m) \o z /\ Stream(z, Tail(q), f)
    BY <2>2, <2>3, <2>5, StreamFirst
  <2>7. t \in Bytes /\ Len(t) = Len(s) - (i - 1) /\ Len(z) \in Nat
    BY <1>3 DEF Bytes
  <2>8. Len(t) = (2 + L) + Len(z)
    <3>1. Frame(m) \in Bytes /\ Len(Frame(m)) = 2 + L
      BY <2>4, FrameType
    <3>2. Len(t) = Len(Frame(m)) + Len(z)
      BY <2>6, <3>1, JoinType
    <3> QED
      BY <3>1, <3>2
  <2>9. Opens(t, <<>>, m, z)
    BY <2>6, <2>7, JoinEmpty DEF Opens
  <2>10. Reads(t, <<>>, m, z)
    <3>1. Len(t) >= 2
      BY <2>4, <2>7, <2>8
    <3> QED
      BY <1>2, <2>4, <2>7, <2>9, <3>1, FrameRead
  <2>11. Size(s, i) = L
    <3>1. i - 1 \in 0..Len(s)
      BY <1>2
    <3>2. \A j \in 1..(Len(s) - (i - 1)) : t[j] = s[(i - 1) + j]
      BY <3>1, Cut
    <3>3. 1 \in 1..(Len(s) - (i - 1)) /\ 2 \in 1..(Len(s) - (i - 1))
      BY <1>2, <1>3, <2>4, <2>7, <2>8
    <3>4. (i - 1) + 1 = i /\ (i - 1) + 2 = i + 1
      BY <1>3
    <3>5. t[1] = s[i] /\ t[2] = s[i + 1]
      BY <3>2, <3>3, <3>4
    <3> QED
      BY <2>10, <3>5 DEF Reads, Size
  <2>12. L + 2 <= Len(t)
    BY <2>4, <2>7, <2>8
  <2>13. SubSeq(t, 3, 2 + L) = m /\ Drop(t, 2 + L) = z
    <3>1. Drop(t, 2 + L) \in Bytes
      <4>1. 2 + L \in 0..Len(t)
        BY <2>4, <2>7, <2>12
      <4> QED
        BY <2>7, <4>1, Cut
    <3>2. SubSeq(t, 3, 2 + L) = m /\ Drop(t, 2 + L) \o <<>> = z
      BY <2>4, <2>7, <2>10, <2>12 DEF Reads
    <3> QED
      BY <3>1, <3>2, JoinEmpty
  <2>14. /\ i + 1 + L <= Len(s)
         /\ SubSeq(s, i + 2, i + 1 + L) = m
         /\ Drop(s, i + 1 + L) = z
    BY <2>4, <2>12, <2>13, DropTwice
  <2> DEFINE next == i + 2 + L
  <2>15. /\ next \in 1..(Len(s) + 1) /\ next - 1 = i + 1 + L
         /\ ~(i + 1 > Len(s) \/ i + 1 + L > Len(s))
    <3>1. ASSUME NEW k \in Nat, i + 1 + k <= Len(s)
          PROVE  /\ i + 2 + k \in 1..(Len(s) + 1) /\ (i + 2 + k) - 1 = i + 1 + k
                 /\ ~(i + 1 > Len(s) \/ i + 1 + k > Len(s))
      BY <1>2, <3>1
    <3> QED
      BY <2>4, <2>14, <3>1, Zenon
  <2>16. From[next] = Tail(q)
    <3>1. Stream(Drop(s, next - 1), Tail(q), f)
      BY <2>6, <2>14, <2>15
    <3> QED
      BY <1>5, <2>3, <2>15, <3>1
  <2>17. From[i] = <<m>> \o Tail(q)
    BY <1>1, <2>11, <2>14, <2>15, <2>16 DEF ParseStep
  <2>18. <<m>> \o Tail(q) = q
    BY <2>3
  <2> QED
    BY <2>17, <2>18
<1>6. 0 \in Found
  BY <1>4
<1> HIDE DEF Found
<1>7. Nat \subseteq Found
  BY <1>5, <1>6, NatSetInduction
<1>8. From[1] = ms
  <2>1. 1 \in 1..(Len(s) + 1) /\ 1 - 1 = 0 /\ Len(ms) \in Nat
    BY <1>2
  <2>2. Drop(s, 0) = s
    <3>1. SubSeq(s, 1, Len(s)) = s
      BY SubSeqFull DEF Bytes
    <3> QED
      BY <3>1 DEF Drop
  <2>3. Len(ms) \in Found
    BY <1>7, <2>1
  <2> QED
    BY <2>1, <2>2, <2>3 DEF Found
<1> QED
  BY <1>8, ParseIsParsed DEF From

-----------------------------------------------------------------------------
(* The sender *)

\* Between two messages: all that has begun has been written.
Written(done, f) ==
  f = <<>> /\ begun = done /\ writer \in {"idle", "over"}

\* Within the message m: f of its frame has been written and g has not.
Writing(done, f, m, g) ==
  /\ begun = Append(done, m)
  /\ f \o g = Frame(m)
  /\ \/ writer = "prefix" /\ g = todo \o m
     \/ writer = "payload" /\ g = todo
     \/ writer = "over"

Sent(done, f) ==
  /\ Stream(out, done, f)
  /\ \/ Written(done, f)
     \/ \E m \in Queries, g \in Bytes : Writing(done, f, m, g)

WriteInv == \E done \in Seq(Queries), f \in Bytes : Sent(done, f)

LEMMA WriteInitially == Init => WriteInv
<1> SUFFICES ASSUME Init PROVE WriteInv
  OBVIOUS
<1>1. <<>> \in Seq(Queries) /\ <<>> \in Bytes
  BY EmptySeq DEF Bytes
<1>2. Stream(<<>>, <<>>, <<>>)
  BY <1>1, StreamNone
<1>3. Sent(<<>>, <<>>)
  BY <1>2 DEF Init, Sent, Written
<1> QED
  BY <1>1, <1>3 DEF WriteInv

LEMMA WriteKeepsSent ==
  ASSUME TypeOK, WriteInv, WriteNext PROVE WriteInv'
<1>1. PICK done \in Seq(Queries), f \in Bytes : Sent(done, f)
  BY DEF WriteInv
<1>2. /\ out \in Bytes /\ todo \in Bytes /\ begun \in Seq(Queries)
      /\ done \in Seq(Bytes) /\ <<>> \in Bytes
  <2>1. Seq(Queries) \subseteq Seq(Bytes)
    BY Messages, SeqMonotonic
  <2> QED
    BY <1>1, <2>1, BytesType, JoinEmpty
<1>3. ASSUME NEW m \in Queries, SendBegins(m) PROVE WriteInv'
  <2>1. m \in Bytes /\ Frame(m) \in Bytes /\ <<>> \o Frame(m) = Frame(m)
    BY Messages, FrameType, JoinEmpty
  <2>2. f = <<>> /\ begun = done
    BY <1>1, <1>3 DEF Sent, Written, Writing, SendBegins
  <2>3. Writing(done, <<>>, m, Frame(m))'
    BY <1>3, <2>1, <2>2 DEF Writing, SendBegins, Frame
  <2>4. Sent(done, <<>>)'
    BY <1>1, <1>3, <2>1, <2>2, <2>3 DEF Sent, SendBegins
  <2> QED
    BY <1>2, <2>4 DEF WriteInv
<1>4. ASSUME NEW n \in 1..Len(todo), SendWrites(n) PROVE WriteInv'
  <2>1. PICK x \in Bytes, y \in Bytes :
          x \o y = todo /\ out' = out \o x /\ todo' = y
    BY <1>2, <1>4, CutType DEF SendWrites
  <2>2. PICK m \in Queries, g \in Bytes : Writing(done, f, m, g)
    BY <1>1, <1>4 DEF Sent, Written, SendWrites
  <2>3. m \in Bytes /\ f \o x \in Bytes
    BY <2>1, Messages, JoinType
  <2>4. Stream(out', done, f \o x)
    BY <1>1, <1>2, <2>1, StreamGrows DEF Sent
  <2>5. UNCHANGED <<writer, begun>>
    BY <1>4 DEF SendWrites
  <2>6. CASE writer = "prefix"
    <3>1. y \o m \in Bytes
      BY <2>1, <2>3, JoinType
    <3>2. x \o (y \o m) = g
      <4>1. Associates(x, y, m)
        BY <2>1, <2>3, JoinAssociates
      <4>2. g = (x \o y) \o m
        BY <2>1, <2>2, <2>6 DEF Writing
      <4> QED
        BY <4>1, <4>2, Zenon DEF Associates
    <3>3. (f \o x) \o (y \o m) = Frame(m)
      <4>1. Associates(f, x, y \o m)
        BY <2>1, <3>1, JoinAssociates
      <4>2. f \o g = Frame(m)
        BY <2>2 DEF Writing
      <4> QED
        BY <3>2, <4>1, <4>2, Zenon DEF Associates
    <3>4. Writing(done, f \o x, m, y \o m)'
      BY <2>1, <2>2, <2>5, <2>6, <3>3 DEF Writing
    <3>5. Sent(done, f \o x)'
      BY <2>4, <3>1, <3>4 DEF Sent
    <3> QED
      BY <2>3, <3>5 DEF WriteInv
  <2>7. CASE writer = "payload"
    <3>1. (f \o x) \o y = Frame(m)
      <4>1. Associates(f, x, y)
        BY <2>1, JoinAssociates
      <4>2. f \o (x \o y) = Frame(m)
        BY <2>1, <2>2, <2>7 DEF Writing
      <4> QED
        BY <4>1, <4>2, Zenon DEF Associates
    <3>2. Writing(done, f \o x, m, y)'
      BY <2>1, <2>2, <2>5, <2>7, <3>1 DEF Writing
    <3>3. Sent(done, f \o x)'
      BY <2>1, <2>4, <3>2 DEF Sent
    <3> QED
      BY <2>3, <3>3 DEF WriteInv
  <2> QED
    BY <1>4, <2>6, <2>7 DEF SendWrites
<1>5. CASE SendPayload
  <2>1. PICK m \in Queries, g \in Bytes : Writing(done, f, m, g)
    BY <1>1, <1>5 DEF Sent, Written, SendPayload
  <2>2. m \in Bytes
    BY Messages
  <2>3. g = m
    BY <1>5, <2>1, <2>2, JoinEmpty DEF Writing, SendPayload
  <2>4. Last(begun) = m
    <3>1. Len(Append(done, m)) = Len(done) + 1 /\ Append(done, m)[Len(done) + 1] = m
      OBVIOUS
    <3> QED
      BY <2>1, <3>1 DEF Writing, Last
  <2>5. Writing(done, f, m, g)'
    BY <1>5, <2>1, <2>3, <2>4 DEF Writing, SendPayload
  <2>6. Sent(done, f)'
    BY <1>1, <1>5, <2>5 DEF Sent, SendPayload
  <2> QED
    BY <2>6 DEF WriteInv
<1>6. CASE SendDone
  <2>1. PICK m \in Queries, g \in Bytes : Writing(done, f, m, g)
    BY <1>1, <1>6 DEF Sent, Written, SendDone
  <2>2. m \in Bytes /\ f = Frame(m)
    BY <1>6, <2>1, Messages, JoinEmpty DEF Writing, SendDone
  <2>3. Stream(out, Append(done, m), <<>>)
    BY <1>1, <1>2, <2>2, StreamNext DEF Sent
  <2>4. Append(done, m) \in Seq(Queries)
    OBVIOUS
  <2>5. Sent(Append(done, m), <<>>)'
    BY <1>6, <2>1, <2>3 DEF Sent, Written, Writing, SendDone
  <2> QED
    BY <1>2, <2>4, <2>5 DEF WriteInv
<1>7. CASE SendCut
  <2>1. UNCHANGED <<out, begun, todo>> /\ writer' = "over"
    BY <1>7 DEF SendCut, SenderGone
  <2>2. CASE Written(done, f)
    <3>1. Written(done, f)'
      BY <2>1, <2>2 DEF Written
    <3>2. Sent(done, f)'
      BY <1>1, <2>1, <3>1 DEF Sent
    <3> QED
      BY <3>2 DEF WriteInv
  <2>3. ASSUME NEW m \in Queries, NEW g \in Bytes, Writing(done, f, m, g)
        PROVE  WriteInv'
    <3>1. Writing(done, f, m, g)'
      BY <2>1, <2>3 DEF Writing
    <3>2. Sent(done, f)'
      BY <1>1, <2>1, <3>1 DEF Sent
    <3> QED
      BY <3>2 DEF WriteInv
  <2> QED
    BY <1>1, <2>2, <2>3 DEF Sent
<1> QED
  BY <1>3, <1>4, <1>5, <1>6, <1>7 DEF WriteNext

LEMMA KeepsSent == Spec => [](TypeOK /\ WriteInv)
<1>1. ASSUME WriteInv, PeerNext \/ ReadNext \/ UNCHANGED vars PROVE WriteInv'
  <2>1. UNCHANGED writeVars
    BY <1>1 DEF PeerNext, PeerWrites, PeerCloses, PeerResets, ReadNext, Decode,
                DecodeMore, DecodeEof, Read, ReadEof, ReadFails, ReaderEnds, vars
  <2> QED
    BY <1>1, <2>1 DEF WriteInv, Sent, Written, Writing, writeVars
<1>2. ASSUME TypeOK, WriteInv, [Next]_vars PROVE WriteInv'
  BY <1>1, <1>2, WriteKeepsSent DEF Next
<1> QED
  BY <1>2, WriteInitially, TypeCorrect, PTL DEF Spec

\* The peer can read every message that was written whole, and nothing else, even
\* if the sender is aborted in the middle of a frame (sender.rs 97-101), as long
\* as no message is longer than the length field can say.
THEOREM PeerReadsWhatWasSent == Spec => []PeerReadsMessages
<1>1. ASSUME TypeOK, WriteInv PROVE PeerReadsMessages
  <2> SUFFICES ASSUME \A i \in DOMAIN begun : Len(begun[i]) <= MaxLength
               PROVE  /\ IsPrefix(Parse(out), begun)
                      /\ writer = "idle" => Parse(out) = begun
    BY DEF PeerReadsMessages
  <2>1. out \in Bytes /\ begun \in Seq(Bytes) /\ Len(begun) \in Nat /\ <<>> \in Bytes
    BY <1>1, BytesType, JoinEmpty
  <2>2. \A i \in 1..Len(begun) : begun[i] \in Short
    BY <2>1 DEF Short
  <2>3. begun \in Seq(Short)
    BY <2>1, <2>2
  <2>4. Fragment(<<>>, Short)
    BY DEF Fragment
  <2>5. ASSUME Stream(out, begun, <<>>) PROVE Parse(out) = begun
    BY <2>1, <2>3, <2>4, <2>5, ParseReads
  <2>6. IsPrefix(begun, begun)
    BY <2>1 DEF IsPrefix
  <2>7. PICK done \in Seq(Queries), f \in Bytes : Sent(done, f)
    BY <1>1 DEF WriteInv
  <2>8. CASE Written(done, f)
    BY <2>5, <2>6, <2>7, <2>8 DEF Sent, Written
  <2>9. ASSUME NEW m \in Queries, NEW g \in Bytes, Writing(done, f, m, g)
        PROVE  /\ IsPrefix(Parse(out), begun)
               /\ writer = "idle" => Parse(out) = begun
    <3>1. m \in Bytes /\ done \in Seq(Bytes)
      BY Messages, SeqMonotonic
    <3>2. /\ begun = Append(done, m) /\ f \o g = Frame(m) /\ writer # "idle"
          /\ Stream(out, done, f)
      BY <2>7, <2>9 DEF Sent, Writing
    <3>3. CASE g = <<>>
      <4>1. f = Frame(m)
        BY <3>2, <3>3, JoinEmpty
      <4>2. Stream(out, begun, <<>>)
        BY <3>1, <3>2, <4>1, StreamNext
      <4> QED
        BY <2>5, <2>6, <3>2, <4>2
    <3>4. CASE g # <<>>
      <4>1. /\ Len(begun) = Len(done) + 1 /\ Len(done) \in Nat
            /\ \A i \in 1..Len(done) : begun[i] = done[i]
            /\ begun[Len(done) + 1] = m
        BY <3>1, <3>2
      <4>2. m \in Short
        <5>1. Len(done) + 1 \in 1..Len(begun)
          BY <4>1
        <5> QED
          BY <2>2, <4>1, <5>1
      <4>3. done \in Seq(Short)
        <5>1. \A i \in 1..Len(done) : i \in 1..Len(begun)
          BY <4>1
        <5>2. \A i \in 1..Len(done) : done[i] \in Short
          BY <2>2, <4>1, <5>1
        <5> QED
          BY <3>1, <4>1, <5>2
      <4>4. Fragment(f, Short)
        BY <3>2, <3>4, <4>2 DEF Fragment
      <4>5. Parse(out) = done
        BY <2>1, <3>2, <4>3, <4>4, ParseReads
      <4>6. IsPrefix(done, begun)
        <5> DEFINE a == SubSeq(done, 1, Len(done))
                   b == SubSeq(begun, 1, Len(done))
        <5>1. a \in Seq(Bytes) /\ Len(a) = Len(done) /\ \A i \in 1..Len(done) : a[i] = done[i]
          BY <3>1, <4>1
        <5>2. b \in Seq(Bytes) /\ Len(b) = Len(done) /\ \A i \in 1..Len(done) : b[i] = begun[i]
          BY <2>1, <4>1
        <5> HIDE DEF a, b
        <5>3. a = b
          BY <4>1, <5>1, <5>2, SeqEqual
        <5> QED
          BY <4>1, <5>3 DEF IsPrefix, a, b
      <4> QED
        BY <3>2, <4>5, <4>6
    <3> QED
      BY <3>3, <3>4
  <2> QED
    BY <2>7, <2>8, <2>9 DEF Sent
<1> QED
  BY <1>1, KeepsSent, PTL
=============================================================================
