----------------------------- MODULE MCFraming -----------------------------
(* Instances of Framing for TLC: a byte is a bit, a length is at most 3. *)
EXTENDS Framing

\* A short message, one whose bytes look like a frame, one that is too long.
SmallQueries == {<<1>>, <<0, 1, 0>>, <<0, 0, 0, 1>>}

\* An empty message, one byte, and one whose bytes look like a frame.
SmallAnswers == {<<>>, <<1>>, <<0, 1, 1>>}
=============================================================================
