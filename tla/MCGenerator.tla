---------------------------- MODULE MCGenerator ----------------------------
(* Instances of Generator for TLC. *)
EXTENDS Generator, TLC

\* Which (timeout, protocol, limiter) a run looks at, on W worker threads.
Conf(t, p, l, w) ==
  [timeout |-> t, protocol |-> p, limited |-> l, workers |-> w]

\* One thread: a TCP generator with a limiter, which may do all that one without
\* may, and a UDP one with the timeout of zero that the arguments allow.
OneThread == {Conf(1, "tcp", TRUE, 1), Conf(0, "udp", FALSE, 1)}

\* Several threads.
Threads == {Conf(1, "udp", TRUE, 2)}

LiveConfigs == {Conf(1, "tcp", TRUE, 1), Conf(0, "udp", FALSE, 1)}

\* The drain of a UDP generator.
DrainConfigs == {Conf(1, "udp", TRUE, 1)}

Symmetry == Permutations(PoolIds)
=============================================================================
