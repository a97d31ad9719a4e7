---------------------------- MODULE MCTimingWheel ----------------------------
(* The wheel on two keys, with few slots so that it turns several times. *)
EXTENDS TimingWheel, TLC

CONSTANTS k1, k2

KeyPermutations == Permutations({k1, k2})
=============================================================================
