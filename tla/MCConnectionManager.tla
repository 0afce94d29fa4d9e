-------------------------- MODULE MCConnectionManager ------------------------
(* Two users, a few connections to the server's port. *)
EXTENDS ConnectionManager
==============================================================================
