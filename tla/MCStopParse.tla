----------------------------- MODULE MCStopParse -----------------------------
(* Instances of StopParse for TLC. *)
EXTENDS StopParse
=============================================================================
