---------------------------- MODULE MCMemoryStore ----------------------------
(* A store of two keys, with a wheel of few slots so that it turns. *)
EXTENDS MemoryStore, TLC

CONSTANTS k1, k2

KeyPermutations == Permutations({k1, k2})
=============================================================================
