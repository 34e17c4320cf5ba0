--------------------------- MODULE MCSearchBatch ---------------------------
(* Instances of SearchBatch for TLC: the calls of a list are its positions. *)
EXTENDS SearchBatch

Positions == 1..MaxSize
=============================================================================
