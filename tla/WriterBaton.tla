------------------------------ MODULE WriterBaton ------------------------------
(***************************************************************************)
(* What reload-protocol.js promises (lines 5-13): the socket and the       *)
(* writer lease are one baton.  At most one worker process owns it, it is  *)
(* never passed directly from one process to another, and nobody but its   *)
(* owner writes (refreshes a token, probes, persists).                     *)
(***************************************************************************)
CONSTANTS Worker, NoWorker

VARIABLES
  owner,    \* the process that owns the baton, or NoWorker
  busy      \* is a write of that process in flight?

vars == <<owner, busy>>

Init == owner = NoWorker /\ busy = FALSE

\* A process may take the baton only from the table, never from another one.
Take(w) == owner = NoWorker /\ owner' = w /\ busy' = FALSE

Write == owner # NoWorker /\ busy' = TRUE /\ UNCHANGED owner

Settle == busy' = FALSE /\ UNCHANGED owner

\* The owner puts the baton down, or dies and drops it.
Leave == owner' = NoWorker /\ busy' = FALSE

Next == (\E w \in Worker : Take(w)) \/ Write \/ Settle \/ Leave

Spec == Init /\ [][Next]_vars
================================================================================
