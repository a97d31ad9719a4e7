----------------------------- MODULE MCWorkerPool -----------------------------
(* The pool with a few connections, workers and threads. *)
EXTENDS WorkerPool, TLC

CONSTANTS c1, c2, c3

ClientPermutations == Permutations(Clients)
=============================================================================
