------------------------------ MODULE MCEditors ------------------------------
(* Instances of Editors for TLC. *)
EXTENDS Editors
=============================================================================
