--------------------------- MODULE MCWorkerProcess ---------------------------
(* A worker with one or two keys, a wheel of one slot, and a short file. *)
EXTENDS WorkerProcess, TLC

CONSTANTS k1, k2, v1, v2

Symmetry == Permutations(Keys) \cup Permutations(Values)
=============================================================================
