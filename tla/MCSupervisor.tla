----------------------------- MODULE MCSupervisor -----------------------------
(* Supervisor on a few processes.  The ids are interchangeable. *)
EXTENDS Supervisor, TLC

Ids == Permutations(Worker)
===============================================================================
