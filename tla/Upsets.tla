------------------------------- MODULE Upsets -------------------------------
(***************************************************************************)
(* What the registries that several Controls share through Redis have in   *)
(* common: the Control processes, and a bounded supply of mishaps (lost    *)
(* replies, outages, crashes, expiries) for them to live through.          *)
(***************************************************************************)
EXTENDS Naturals

CONSTANTS
    Controls,   \* instance ids of the Control processes
    MaxUpsets   \* bound: mishaps of a behaviour

ASSUME MaxUpsetsAssumption == MaxUpsets \in Nat

VARIABLE upsets

Upset == upsets < MaxUpsets /\ upsets' = upsets + 1
=============================================================================
