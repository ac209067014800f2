------------------------------- MODULE Ledger -------------------------------
(***************************************************************************)
(* What a generator promises about its queries, whatever its tasks do and  *)
(* on however many threads: no id is given to two outstanding queries, a   *)
(* query ends once, by a reply or by its timeout, only an outstanding one  *)
(* is handed to the transport, and a report never counts what did not      *)
(* happen.                                                                 *)
(*                                                                         *)
(* The promise on ids ends with the first stray reply: nailgun puts the id *)
(* of every frame back in its pool, also that of one nobody asked for.     *)
(***************************************************************************)
EXTENDS Naturals, FiniteSets

CONSTANT Ids   \* what a frame may carry as its id

VARIABLES
  outstanding, \* ids of the queries that have neither an answer nor timed out
  clean,       \* every reply so far answered an outstanding query
  issued,      \* queries made
  handed,      \* queries the transport took
  answered,    \* queries that ended by a reply
  expired,     \* queries that ended by their timeout
  told         \* what the reports so far add up to

vars == <<outstanding, clean, issued, handed, answered, expired, told>>

Init ==
  /\ outstanding = {} /\ clean = TRUE
  /\ issued = 0 /\ handed = 0 /\ answered = 0 /\ expired = 0
  /\ told = [sent |-> 0, timeouts |-> 0]

Issue(id) ==
  /\ clean => id \notin outstanding
  /\ outstanding' = outstanding \cup {id}
  /\ issued' = issued + 1
  /\ UNCHANGED <<clean, handed, answered, expired, told>>

Hand ==
  /\ handed < issued
  /\ handed' = handed + 1
  /\ UNCHANGED <<outstanding, clean, issued, answered, expired, told>>

Answer(id) ==
  /\ id \in outstanding
  /\ outstanding' = outstanding \ {id}
  /\ answered' = answered + 1
  /\ UNCHANGED <<clean, issued, handed, expired, told>>

Stray ==
  /\ clean' = FALSE
  /\ UNCHANGED <<outstanding, issued, handed, answered, expired, told>>

\* Queries time out together: a sweep of the store finds all that are due.
Expire(S) ==
  /\ outstanding' = outstanding \ S
  /\ expired' = expired + Cardinality(S)
  /\ UNCHANGED <<clean, issued, handed, answered, told>>

\* A report may miss queries and timeouts, and never invents one.
Report ==
  /\ told.sent <= told'.sent /\ told'.sent <= handed
  /\ told.timeouts <= told'.timeouts /\ told'.timeouts <= expired
  /\ UNCHANGED <<outstanding, clean, issued, handed, answered, expired>>

Next ==
  \/ \E id \in Ids : Issue(id) \/ Answer(id)
  \/ \E S \in SUBSET outstanding : Expire(S)
  \/ Hand \/ Stray \/ Report

Spec == Init /\ [][Next]_vars
=============================================================================
