---------------------------- MODULE MCBatchMove ----------------------------
(* Instances of BatchMove for TLC. *)
EXTENDS BatchMove

Symmetry == Permutations(Posts)
=============================================================================
