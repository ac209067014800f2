------------------------------ MODULE MCRunner ------------------------------
(* Instances of Runner for TLC. *)
EXTENDS Runner

\* No limit, a rate below one query per second and generator, a usable rate.
Rates == {0, 1, 5}
=============================================================================
