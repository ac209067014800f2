----------------------------- MODULE MCDohRelay -----------------------------
(* Instances of DohRelay for TLC: channels of one place. *)
EXTENDS DohRelay
=============================================================================
