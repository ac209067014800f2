----------------------------- MODULE MCMeasure -----------------------------
(* A small instance of module Measure. *)
EXTENDS Measure, TLC

\* Two replies that differ in everything, the larger one the faster.
MCReplies == {[latency |-> 1, size |-> 3, rcode |-> 0],
              [latency |-> 2, size |-> 1, rcode |-> 3]}

Symmetry == Permutations(Gens)
=============================================================================
