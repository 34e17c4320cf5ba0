------------------------------ MODULE MCQueries ------------------------------
(* Instances of Queries for TLC. *)
EXTENDS Queries
=============================================================================
