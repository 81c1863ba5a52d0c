------------------------- MODULE DispatchRefinement -------------------------
(***************************************************************************)
(* Each attempt of Dispatch follows the lifecycle of Assignment, taken     *)
(* with Replayable = FALSE: the dispatcher never uses the wider licence    *)
(* that lifecycle.go grants to replayable requests.                        *)
(***************************************************************************)
EXTENDS Dispatch

\* LifecycleState of the k-th attempt of r.  An attempt that has not been made is
\* in its initial state, one that was left behind has terminated.
AttemptState(r, k) ==
    IF attempt[r] < k THEN "assigning"
    ELSE IF attempt[r] > k \/ phase[r] \in {"returned", "done"} THEN "terminated"
    ELSE IF phase[r] = "streaming" THEN "started"
    ELSE IF phase[r] = "accepted" THEN "accepted"
    ELSE "assigning"

AttemptKind(r, k) ==
    IF perr[r][k] = "OK" THEN "end"
    ELSE IF perr[r][k] = "none" THEN "none"
    ELSE IF perr[r][k] = "Cancelled" THEN "cancelled"
    ELSE "error"

\* An attempt remains eligible for fallback after it ended if its worker was never
\* sent a RequestStart.
AttemptFallbackAllowed(r, k) ==
    AttemptState(r, k) = "terminated" /\ worker[r][k] \notin starts[r]

Attempt(r, k) == INSTANCE Assignment WITH
    Replayable <- FALSE,
    state <- AttemptState(r, k),
    kind <- AttemptKind(r, k),
    clientResponded <- headSent[r],
    fallbackAllowed <- AttemptFallbackAllowed(r, k)

\* Every attempt that executeAttempt, executeRawAttempt or the tunnel variant makes
\* is a behaviour of the lifecycle of lifecycle.go: accepted before started, one
\* terminal, no eligibility for fallback gained after RequestStart.  The formula is
\* Attempt(r, k)!Spec for all r and k, with the quantifier inside the box.
AttemptsFollowLifecycle ==
    /\ \A r \in Requests, k \in Attempts : Attempt(r, k)!NewAssignment
    /\ [][\A r \in Requests, k \in Attempts :
            [Attempt(r, k)!Next]_(Attempt(r, k)!avars)]_vars

\* executeAttemptOrFallback routes to a second worker only if the lifecycle of the
\* first attempt permits it.  The code decides by the error code of the attempt,
\* the lifecycle by where the attempt was when it failed.
FallbackWithinLifecycle ==
    [][\A r \in Requests :
         attempt[r] = 1 /\ attempt'[r] = 2 => Attempt(r, 1)!CanFallback]_vars
=============================================================================
