--------------------------- MODULE MCDeletePosts ---------------------------
(* Instances of DeletePosts for TLC: five ids leave two after a streak. *)
EXTENDS DeletePosts
=============================================================================
