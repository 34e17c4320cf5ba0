---------------------------- MODULE MCPagedWalk ----------------------------
(* Instances of PagedWalk for TLC. *)
EXTENDS PagedWalk
=============================================================================
