--------------------------- MODULE MCTokenRotation ---------------------------
(* TokenRotation on a few processes, which are interchangeable. *)
EXTENDS TokenRotation, TLC

Ids == Permutations(Worker)
=============================================================================
