----------------------------- MODULE Lifecycle -----------------------------
(***************************************************************************)
(* The life of a generator task as the rest of the run relies on it: the   *)
(* phases it goes through (bin/src/gen.rs, Generator::run), and that only  *)
(* the build of its transport and the select loop may last for ever.       *)
(* Module Runner knows a generator by these phases alone; module Generator *)
(* shows that the three tasks behind one keep to them.                     *)
(*                                                                         *)
(* Progress is stated with leads-to, not as fairness of the moves: phases  *)
(* is an expression in the modules that implement this one.                *)
(***************************************************************************)
CONSTANT Tasks

VARIABLE phases   \* the phase of each task

\* The phases, each with those that may come next.  A task that has ended
\* (over) or panicked (refused by the limiter, panicked in the loop) is not
\* heard of again, and the last report comes after the drain.
After ==
  [unborn    |-> {"building"},
   building  |-> {"running", "over", "refused"},
   running   |-> {"reporting", "draining", "over", "panicked"},
   reporting |-> {"running"},
   draining  |-> {"final"},
   final     |-> {"over"},
   over      |-> {},
   refused   |-> {},
   panicked  |-> {}]

Init == phases \in [Tasks -> {"unborn", "running"}]

Next ==
  /\ DOMAIN phases' = Tasks
  /\ \A t \in Tasks : phases'[t] \in {phases[t]} \cup After[phases[t]]

\* The safety part: the phases in their order.
Moves == Init /\ [][Next]_phases

\* A report is taken by the collector, the drain is bounded by the timeout, and
\* the last report is taken too.
Transient == {"reporting", "draining", "final"}

Progress ==
  \A t \in Tasks : \A p \in Transient : phases[t] = p ~> phases[t] # p

Spec == Moves /\ Progress
=============================================================================
