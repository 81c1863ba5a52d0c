----------------------------- MODULE MCInFlight -----------------------------
(* InFlight on a small instance: one request id that comes up on two Controls. *)
EXTENDS InFlight

AllRuns == Controls \X Requests
=============================================================================
