------------------------------ MODULE MCMetrics ------------------------------
(* Two of three keys tracked, two rows of two columns, every hash function; *)
(* at most two commands are slow or without a key, as the tracker takes no  *)
(* notice of that.                                                          *)
EXTENDS Metrics, TLC

CONSTANTS r1, r2, c1, c2

FewUnusual == total - observed["GET"][1] <= 2

Symmetry == Permutations(Rows) \cup Permutations(Columns)
=============================================================================
