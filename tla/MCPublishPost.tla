--------------------------- MODULE MCPublishPost ---------------------------
(* Instances of PublishPost for TLC. *)
EXTENDS PublishPost

Symmetry == Permutations(Clients)
=============================================================================
