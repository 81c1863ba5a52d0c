----------------------------- MODULE Assignment -----------------------------
(***************************************************************************)
(* The Control-side lifecycle of one assignment attempt, as the state      *)
(* machine of internal/control/lifecycle.go states it.  The dispatcher     *)
(* never instantiates that type: it is the written-down policy (ack,       *)
(* no-replay boundary, one terminal) that the dispatcher has to follow,    *)
(* and module DispatchRefinement shows that it does.                       *)
(*                                                                         *)
(* A call that finds the attempt in a state it does not apply to returns   *)
(* false and changes nothing, which is a stuttering step here.             *)
(***************************************************************************)
EXTENDS Naturals

CONSTANT Replayable   \* the client declared the request replayable

VARIABLES
    state,            \* LifecycleState
    kind,             \* TerminalKind
    clientResponded,  \* a client-visible success envelope has begun
    fallbackAllowed   \* replay eligibility kept for the terminal state

avars == <<state, kind, clientResponded, fallbackAllowed>>

NewAssignment ==
    /\ state = "assigning"
    /\ kind = "none"
    /\ clientResponded = FALSE
    /\ fallbackAllowed = FALSE

CanFallback ==
    \/ fallbackAllowed /\ ~clientResponded
    \/ state \in {"assigning", "accepted"}
    \/ state = "started" /\ Replayable /\ ~clientResponded

Terminate(k) ==
    /\ state' = "terminated"
    /\ kind' = k
    /\ UNCHANGED clientResponded

OnAssignAck(accepted) ==
    /\ state = "assigning"
    /\ IF accepted
         THEN state' = "accepted" /\ UNCHANGED <<kind, clientResponded, fallbackAllowed>>
         ELSE Terminate("error") /\ fallbackAllowed' = TRUE

OnAckTimeout ==
    /\ state = "assigning"
    /\ Terminate("error")
    /\ fallbackAllowed' = TRUE

MarkRequestStart ==
    /\ state = "accepted"
    /\ state' = "started"
    /\ UNCHANGED <<kind, clientResponded, fallbackAllowed>>

MarkClientResponded ==
    /\ clientResponded' = TRUE
    /\ UNCHANGED <<state, kind, fallbackAllowed>>

RecordTerminal(k) ==
    /\ state # "terminated"
    /\ Terminate(k)
    /\ UNCHANGED fallbackAllowed

SynthesizeTerminal(timeout) ==
    /\ state # "terminated"
    /\ Terminate("error")
    /\ fallbackAllowed' = (~timeout /\ CanFallback)

Cancel ==
    /\ state # "terminated"
    /\ Terminate("cancelled")
    /\ UNCHANGED fallbackAllowed

Next ==
    \/ \E accepted \in BOOLEAN : OnAssignAck(accepted)
    \/ OnAckTimeout \/ MarkRequestStart \/ MarkClientResponded \/ Cancel
    \/ \E k \in {"end", "error", "cancelled"} : RecordTerminal(k)
    \/ \E timeout \in BOOLEAN : SynthesizeTerminal(timeout)

Spec == NewAssignment /\ [][Next]_avars

-----------------------------------------------------------------------------

\* The first terminal wins: nothing recorded after it, a late frame or a late
\* synthesized outcome, changes how the attempt ended or whether it may be retried.
FirstTerminalWins ==
    [][state = "terminated" => UNCHANGED <<state, kind, fallbackAllowed>>]_avars

\* The no-replay boundary: from RequestStart on, an attempt of a request that is
\* not replayable is never again eligible for fallback, however it ends.
NoReplayBoundary ==
    [][state = "started" /\ ~Replayable => ~CanFallback']_avars
=============================================================================
