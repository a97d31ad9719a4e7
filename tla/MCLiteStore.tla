------------------------------ MODULE MCLiteStore ------------------------------
(* Two keys, one or two workers, every routing; states that differ only in *)
(* the last exchange are the same, as no step depends on it.               *)
EXTENDS LiteStore

CONSTANTS k1, k2, x

View == <<mode, hash, count, up, stores, files, buffer, next, left>>

Symmetry == Permutations(Keys)
=============================================================================
