----------------------------- MODULE MCDispatch -----------------------------
(* Dispatch and its lifecycle on a small instance. *)
EXTENDS DispatchRefinement
=============================================================================
