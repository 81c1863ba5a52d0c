--------------------------- MODULE MCRuntimeConfig ---------------------------
(* RuntimeConfig on a small instance. *)
EXTENDS RuntimeConfig
=============================================================================
