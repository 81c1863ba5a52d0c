-------------------------- MODULE MCResponseStream --------------------------
(* Instances of the response stream for TLC.                               *)
EXTENDS ResponseStream
=============================================================================
