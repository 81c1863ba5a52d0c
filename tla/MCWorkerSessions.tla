-------------------------- MODULE MCWorkerSessions --------------------------
(* WorkerSessions on a small instance. *)
EXTENDS WorkerSessions
=============================================================================
