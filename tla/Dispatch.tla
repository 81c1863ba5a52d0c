------------------------------ MODULE Dispatch ------------------------------
(***************************************************************************)
(* Control's request dispatcher (internal/control/dispatch.go,             *)
(* assignment.go, response_stream.go, raw_response.go, tunnel.go).         *)
(*                                                                         *)
(* A request is routed to a worker, offered to it over NATS, started with  *)
(* a RequestStart frame once the worker accepted, and then streamed until  *)
(* one outcome is reached.  An attempt that fails with one of three codes  *)
(* is retried once on another worker.  The decision to retry is taken from *)
(* the ERROR CODE of the failed attempt alone, long after the place that   *)
(* produced the code: the properties below are about that distance.        *)
(*                                                                         *)
(* Modes: "rest" buffers the response, "raw" streams it to the client of   *)
(* an absolute-form proxy request, "tunnel" is a CONNECT byte stream.      *)
(* The contents, order and credit of the frames of a response are the      *)
(* subject of ResponseStream; here a frame is the control decision it      *)
(* causes, and a worker may send any frame at any time.                    *)
(***************************************************************************)
EXTENDS Naturals, FiniteSets

CONSTANTS
    Requests,      \* the requests Control receives
    Workers,       \* the Egress workers
    NoWorker,      \* the route of an attempt that was not made
    Modes,         \* the ingress modes in use
    WireCodes      \* the codes a worker may put into an ErrorFrame

ASSUME NoWorkerAssumption == NoWorker \notin Workers
ASSUME ModesAssumption == Modes \subseteq {"rest", "raw", "tunnel"}

VARIABLES
    phase,         \* where the request's goroutine is
    mode,          \* the ingress mode the request arrived by
    attempt,       \* 0 before routing, 1 for the first worker, 2 for the fallback
    worker,        \* the worker each attempt was routed to
    perr,          \* what each attempt returned
    outcome,       \* what the client is told
    ctxDone,       \* the request's context is cancelled
    expired,       \* the request's deadline has passed
    inflight,      \* InFlightRegistry.entries
    headSent,      \* a response head (raw) or the 200 (tunnel) was written to the client
    writing,       \* what the goroutine is blocked writing to the client, if anything
    admit,         \* the worker's answer to AssignRequest, by request and worker
    starts,        \* the workers RequestStart was published to
    cancels,       \* the workers a CancelFrame was published to
    terminal,      \* a terminal frame of the worker was accepted
    charges        \* RecordFailure calls made on behalf of each attempt

vars == <<phase, mode, attempt, worker, perr, outcome, ctxDone, expired, inflight,
          headSent, writing, admit, starts, cancels, terminal, charges>>

Attempts == {1, 2}
Phases == {"idle", "assigning", "waiting", "accepted", "streaming", "returned", "done"}
Answers == {"none", "asked", "ACCEPTED", "REJECTED_CAPACITY", "REJECTED"}
Writes == {"none", "head", "data"}

-----------------------------------------------------------------------------
(* Error codes *)

executorEmittableCodes ==
    {"DestinationDenied", "TimeoutExceeded", "UnsupportedFingerprint", "UpstreamDNSFailure",
     "UpstreamTLSFailure", "UpstreamConnectionRefused", "UpstreamConnectTimeout",
     "UpstreamReset", "UpstreamProxyFailure", "StreamUploadAborted", "StreamDownloadAborted",
     "BodyRefUnavailable", "BodyTooLarge", "ExecutorInternalError"}

ErrorRegistry ==
    executorEmittableCodes \union
    {"InvalidRequest", "HeaderInjectionFailed", "RouteNoMatch", "RouteUnavailable",
     "StickySessionUnavailable", "ExecutorCapacityExhausted", "AssignmentTimeout",
     "WorkerDisconnected", "TransportUnavailable", "ProtocolError",
     "ControlInternalError", "Cancelled"}

\* What Router.Evaluate can refuse a request with.
routeError ==
    {"RouteNoMatch", "StickySessionUnavailable", "ExecutorCapacityExhausted",
     "UnsupportedFingerprint", "RouteUnavailable"}

\* What resolveRouteExecution can refuse a routed request with.
validationPipelineError ==
    {"InvalidRequest", "DestinationDenied", "HeaderInjectionFailed", "UnsupportedFingerprint"}

\* The code recorded for a worker's ErrorFrame.
ValidateExecutorError(code) ==
    IF code \in executorEmittableCodes THEN code ELSE "ExecutorInternalError"

Violation(code) == code \notin executorEmittableCodes

assignRejectError(answer) ==
    IF answer = "REJECTED_CAPACITY" THEN "ExecutorCapacityExhausted" ELSE "RouteUnavailable"

\* Mutant of canFallbackBeforeRequestStart: a lost transport is retried too.
canFallbackOnTransportLoss(code) ==
    code \in {"AssignmentTimeout", "ExecutorCapacityExhausted", "RouteUnavailable",
              "TransportUnavailable"}

canFallbackBeforeRequestStart(code) ==
    code \in {"AssignmentTimeout", "ExecutorCapacityExhausted", "RouteUnavailable"}

-----------------------------------------------------------------------------
(* Where a request is *)

Current(r) == worker[r][attempt[r]]

Active(r) == phase[r] \notin {"idle", "done"}

Init ==
    /\ phase = [r \in Requests |-> "idle"]
    /\ mode \in [Requests -> Modes]
    /\ attempt = [r \in Requests |-> 0]
    /\ worker = [r \in Requests |-> [k \in Attempts |-> NoWorker]]
    /\ perr = [r \in Requests |-> [k \in Attempts |-> "none"]]
    /\ outcome = [r \in Requests |-> "none"]
    /\ ctxDone = [r \in Requests |-> FALSE]
    /\ expired = [r \in Requests |-> FALSE]
    /\ inflight = {}
    /\ headSent = [r \in Requests |-> FALSE]
    /\ writing = [r \in Requests |-> "none"]
    /\ admit = [r \in Requests |-> [w \in Workers |-> "none"]]
    /\ starts = [r \in Requests |-> {}]
    /\ cancels = [r \in Requests |-> {}]
    /\ terminal = [r \in Requests |-> FALSE]
    /\ charges = [r \in Requests |-> [k \in Attempts |-> 0]]

\* The attempt returns; executeAttemptOrFallback decides what happens next.
Return(r, code) ==
    /\ phase' = [phase EXCEPT ![r] = "returned"]
    /\ perr' = [perr EXCEPT ![r][attempt[r]] = code]

\* routeFailure: RecordFailure for the worker of the current attempt.
routeFailure(r) == charges' = [charges EXCEPT ![r][attempt[r]] = @ + 1]

sendCancel(r) == cancels' = [cancels EXCEPT ![r] = @ \union {Current(r)}]

-----------------------------------------------------------------------------
(* Admission and routing *)

\* dispatch registers the request, takes a snapshot and routes it.  A failed
\* claim of the shared ownership record cancels the request's context.
Begin(r, w) ==
    /\ phase[r] = "idle"
    /\ inflight' = inflight \union {r}
    /\ \E claimed \in BOOLEAN : ctxDone' = [ctxDone EXCEPT ![r] = @ \/ ~claimed]
    /\ attempt' = [attempt EXCEPT ![r] = 1]
    /\ worker' = [worker EXCEPT ![r][1] = w]
    /\ phase' = [phase EXCEPT ![r] = "assigning"]
    /\ UNCHANGED <<mode, perr, outcome, expired, headSent, writing, admit, starts, cancels,
                   terminal, charges>>

\* No route, or the route's destination policy refuses the request: Register and
\* the deferred Deregister both run and no worker hears of the request.
Refuse(r, code) ==
    /\ phase[r] = "idle"
    /\ code \in routeError \union validationPipelineError
    /\ outcome' = [outcome EXCEPT ![r] = code]
    /\ phase' = [phase EXCEPT ![r] = "done"]
    /\ UNCHANGED <<mode, attempt, worker, perr, ctxDone, expired, inflight, headSent, writing,
                   admit, starts, cancels, terminal, charges>>

-----------------------------------------------------------------------------
(* Assignment: from executeAttemptUnmeasured up to the AssignAck *)

\* Nothing is published: the stream subjects are invalid, the subscription
\* failed, or the deadline has already passed when the request is offered.
AssignRefused(r) ==
    /\ phase[r] = "assigning"
    /\ \/ Return(r, "ControlInternalError")
       \/ Return(r, "TransportUnavailable")
       \/ expired[r] /\ Return(r, "AssignmentTimeout")
    /\ UNCHANGED <<mode, attempt, worker, outcome, ctxDone, expired, inflight, headSent, writing,
                   admit, starts, cancels, terminal, charges>>

\* requestAssign publishes AssignRequest and waits for the reply.  The request's
\* context is not consulted: a cancelled request is still offered.
requestAssign(r) ==
    /\ phase[r] = "assigning"
    /\ ~expired[r]
    /\ admit' = [admit EXCEPT ![r][Current(r)] = "asked"]
    /\ phase' = [phase EXCEPT ![r] = "waiting"]
    /\ UNCHANGED <<mode, attempt, worker, perr, outcome, ctxDone, expired, inflight,
                   headSent, writing, starts, cancels, terminal, charges>>

\* The worker (external) answers once, in time or long after Control gave up.
WorkerAnswers(r, w, answer) ==
    /\ admit[r][w] = "asked"
    /\ answer \in {"ACCEPTED", "REJECTED_CAPACITY", "REJECTED"}
    /\ admit' = [admit EXCEPT ![r][w] = answer]
    /\ UNCHANGED <<phase, mode, attempt, worker, perr, outcome, ctxDone, expired, inflight,
                   headSent, writing, starts, cancels, terminal, charges>>

\* Mutant of AckReceived: any decodable answer is taken for an acceptance.
AckReceivedUnchecked(r) ==
    /\ phase[r] = "waiting"
    /\ admit[r][Current(r)] # "asked"
    /\ phase' = [phase EXCEPT ![r] = "accepted"]
    /\ UNCHANGED <<mode, attempt, worker, perr, outcome, ctxDone, expired, inflight,
                   headSent, writing, admit, starts, cancels, terminal, charges>>

\* Mutant of AckReceived: an acceptance that comes after the ack timer fired
\* revives the attempt.
AckReceivedLate(r) ==
    /\ \/ phase[r] = "waiting"
       \/ phase[r] = "returned" /\ perr[r][attempt[r]] = "AssignmentTimeout"
    /\ admit[r][Current(r)] = "ACCEPTED"
    /\ phase' = [phase EXCEPT ![r] = "accepted"]
    /\ UNCHANGED <<mode, attempt, worker, perr, outcome, ctxDone, expired, inflight,
                   headSent, writing, admit, starts, cancels, terminal, charges>>

AckReceived(r) ==
    /\ phase[r] = "waiting"
    /\ LET answer == admit[r][Current(r)] IN
       /\ answer # "asked"
       /\ IF answer = "ACCEPTED"
            THEN phase' = [phase EXCEPT ![r] = "accepted"] /\ UNCHANGED perr
            ELSE Return(r, assignRejectError(answer))
    /\ UNCHANGED <<mode, attempt, worker, outcome, ctxDone, expired, inflight, headSent, writing,
                   admit, starts, cancels, terminal, charges>>

\* The ack timer fires first (its reply may still be on its way), the transport
\* reports an error, or the reply cannot be decoded.
AckMissed(r) ==
    /\ phase[r] = "waiting"
    /\ \/ Return(r, "AssignmentTimeout")
       \/ Return(r, "TransportUnavailable")
       \/ admit[r][Current(r)] # "asked" /\ Return(r, "ProtocolError")
    /\ UNCHANGED <<mode, attempt, worker, outcome, ctxDone, expired, inflight, headSent, writing,
                   admit, starts, cancels, terminal, charges>>

\* sendRequestStart: the first frame may not leave; it may leave and a body frame or
\* the flush fail, or the setup of a REST response's receipt (there is no receipt
\* service, or BeginResponse fails); or everything is sent.
sendRequestStart(r) ==
    /\ phase[r] = "accepted"
    /\ \/ Return(r, "TransportUnavailable") /\ UNCHANGED starts
       \/ /\ starts' = [starts EXCEPT ![r] = @ \union {Current(r)}]
          /\ \/ Return(r, "TransportUnavailable")
             \/ mode[r] = "rest" /\ Return(r, "BodyRefUnavailable")
             \/ mode[r] = "rest" /\ Return(r, "ControlInternalError")
             \/ phase' = [phase EXCEPT ![r] = "streaming"] /\ UNCHANGED perr
    /\ UNCHANGED <<mode, attempt, worker, outcome, ctxDone, expired, inflight, headSent, writing,
                   admit, cancels, terminal, charges>>

-----------------------------------------------------------------------------
(* The response stream: one iteration of the select loop of readResponse,  *)
(* streamRawResponse or streamTunnel                                       *)

StreamUnchanged == UNCHANGED <<mode, attempt, worker, outcome, ctxDone, expired, inflight,
                               admit, starts>>

\* The goroutine is in the select of next.
Selecting(r) == phase[r] = "streaming" /\ writing[r] = "none"

CtxDone(r) ==
    /\ Selecting(r)
    /\ ctxDone[r]
    /\ sendCancel(r)
    /\ Return(r, "Cancelled")
    /\ StreamUnchanged /\ UNCHANGED <<writing, headSent, terminal, charges>>

\* Mutant of Deadline: the worker is not told that the deadline ended the request.
DeadlineSilent(r) ==
    /\ Selecting(r)
    /\ expired[r]
    /\ Return(r, "TimeoutExceeded")
    /\ StreamUnchanged /\ UNCHANGED <<writing, headSent, terminal, charges, cancels>>

\* Mutant of Deadline: an established tunnel has no deadline.
DeadlineNotForTunnels(r) ==
    /\ Selecting(r)
    /\ expired[r]
    /\ mode[r] # "tunnel"
    /\ sendCancel(r)
    /\ Return(r, "TimeoutExceeded")
    /\ StreamUnchanged /\ UNCHANGED <<writing, headSent, terminal, charges>>

Deadline(r) ==
    /\ Selecting(r)
    /\ expired[r]
    /\ sendCancel(r)
    /\ Return(r, "TimeoutExceeded")
    /\ StreamUnchanged /\ UNCHANGED <<writing, headSent, terminal, charges>>

\* responseStreamTick: the NATS connection is down, or no frame came for too long.
Tick(r) ==
    /\ Selecting(r)
    /\ \/ routeFailure(r) /\ Return(r, "TransportUnavailable") /\ UNCHANGED cancels
       \/ sendCancel(r) /\ Return(r, "TimeoutExceeded") /\ UNCHANGED charges
    /\ StreamUnchanged /\ UNCHANGED <<writing, headSent, terminal>>

\* The goroutine that uploads a tunnel's client bytes failed: reading from the
\* client failed, or it saw the cancelled context before the select loop did.
UploadFailed(r) ==
    /\ Selecting(r)
    /\ mode[r] = "tunnel"
    /\ sendCancel(r)
    /\ \/ Return(r, "BodyTooLarge")
       \/ ctxDone[r] /\ Return(r, "TransportUnavailable")
    /\ StreamUnchanged /\ UNCHANGED <<writing, headSent, terminal, charges>>

\* A frame that ends the attempt without being a terminal frame: refused by the
\* validator (not charged), or out of place for the route (charged).
BadFrame(r) ==
    /\ Selecting(r)
    /\ Return(r, "ProtocolError")
    /\ routeFailure(r) \/ UNCHANGED charges
    /\ StreamUnchanged /\ UNCHANGED <<writing, headSent, terminal, cancels>>

\* ResponseStart of a raw response or a tunnel: the goroutine writes the head, or the
\* 200 of the tunnel, to the client.  (A REST response is only noted.)
ResponseStart(r) ==
    /\ Selecting(r)
    /\ mode[r] = "raw" \/ (mode[r] = "tunnel" /\ ~headSent[r])
    /\ writing' = [writing EXCEPT ![r] = "head"]
    /\ StreamUnchanged /\ UNCHANGED <<phase, perr, headSent, terminal, cancels, charges>>

\* A DataFrame of a raw response or a tunnel is written to the client.
WriteData(r) ==
    /\ Selecting(r)
    /\ mode[r] # "rest" /\ headSent[r]
    /\ writing' = [writing EXCEPT ![r] = "data"]
    /\ StreamUnchanged /\ UNCHANGED <<phase, perr, headSent, terminal, cancels, charges>>

\* The write returns.  The connection has no write deadline, so it does when the client
\* reads or is gone, and until then the goroutine is not in its select.
Written(r) ==
    /\ phase[r] = "streaming" /\ writing[r] # "none"
    /\ writing' = [writing EXCEPT ![r] = "none"]
    /\ headSent' = [headSent EXCEPT ![r] = TRUE]
    /\ StreamUnchanged /\ UNCHANGED <<phase, perr, terminal, cancels, charges>>

\* The write fails.  A tunnel's failed 200 ends the attempt without a cancel, a failed
\* write of data with one; the failed head of a raw response goes unnoticed (Written).
WriteFailed(r) ==
    /\ phase[r] = "streaming" /\ writing[r] # "none"
    /\ writing' = [writing EXCEPT ![r] = "none"]
    /\ IF writing[r] = "head"
         THEN mode[r] = "tunnel" /\ UNCHANGED cancels
         ELSE sendCancel(r)
    /\ Return(r, "Cancelled")
    /\ StreamUnchanged /\ UNCHANGED <<headSent, terminal, charges>>

\* A DataFrame that makes a buffered body too large.
DataRefused(r) ==
    /\ Selecting(r)
    /\ mode[r] = "rest"
    /\ Return(r, "BodyTooLarge")
    /\ StreamUnchanged /\ UNCHANGED <<writing, headSent, terminal, cancels, charges>>

ErrorFrame(r, code) ==
    /\ Selecting(r)
    /\ code \in WireCodes
    /\ terminal' = [terminal EXCEPT ![r] = TRUE]
    /\ IF Violation(code) THEN routeFailure(r) ELSE UNCHANGED charges
    /\ Return(r, ValidateExecutorError(code))
    /\ StreamUnchanged /\ UNCHANGED <<writing, headSent, cancels>>

CancelledFrame(r) ==
    /\ Selecting(r)
    /\ terminal' = [terminal EXCEPT ![r] = TRUE]
    /\ Return(r, "Cancelled")
    /\ StreamUnchanged /\ UNCHANGED <<writing, headSent, cancels, charges>>

\* EndFrame.  Out of place for the route (charged), or of a tunnel that was never
\* established, it is a protocol error; a REST response whose receipt cannot be
\* committed is an internal error.
EndFrame(r) ==
    /\ Selecting(r)
    /\ terminal' = [terminal EXCEPT ![r] = TRUE]
    /\ \/ routeFailure(r) /\ Return(r, "ProtocolError")
       \/ /\ IF mode[r] = "tunnel" /\ ~headSent[r]
               THEN Return(r, "ProtocolError")
               ELSE \/ Return(r, "OK")
                    \/ mode[r] = "rest" /\ Return(r, "ControlInternalError")
          /\ UNCHANGED charges
    /\ StreamUnchanged /\ UNCHANGED <<writing, headSent, cancels>>

-----------------------------------------------------------------------------
(* executeAttemptOrFallback: after an attempt returned *)

\* The first attempt failed with a retryable code and, for a raw response or a
\* tunnel, nothing has been written to the client.
CanRetry(r) ==
    /\ attempt[r] = 1
    /\ canFallbackBeforeRequestStart(perr[r][1])
    /\ mode[r] = "rest" \/ ~headSent[r]

\* dispatch returns; the deferred Deregister and cancel run.
Done(r, code) ==
    /\ outcome' = [outcome EXCEPT ![r] = code]
    /\ phase' = [phase EXCEPT ![r] = "done"]
    /\ inflight' = inflight \ {r}

\* The failed worker is charged and the request routed again without it.
Fallback(r, w) ==
    /\ phase[r] = "returned"
    /\ CanRetry(r)
    /\ w # worker[r][1]
    /\ routeFailure(r)
    /\ attempt' = [attempt EXCEPT ![r] = 2]
    /\ worker' = [worker EXCEPT ![r][2] = w]
    /\ phase' = [phase EXCEPT ![r] = "assigning"]
    /\ UNCHANGED <<mode, perr, outcome, ctxDone, expired, inflight, headSent, writing, admit,
                   starts, cancels, terminal>>

\* The failed worker is charged but there is no other route, or the new route's
\* destination policy refuses the request.
NoFallback(r) ==
    /\ phase[r] = "returned"
    /\ CanRetry(r)
    /\ routeFailure(r)
    /\ \E code \in {perr[r][1]} \union validationPipelineError : Done(r, code)
    /\ UNCHANGED <<mode, attempt, worker, perr, ctxDone, expired, headSent, writing, admit,
                   starts, cancels, terminal>>

\* Mutant of Finish: a failed request charges its worker, as a fallback does.
FinishCharging(r) ==
    /\ phase[r] = "returned"
    /\ ~CanRetry(r)
    /\ Done(r, perr[r][attempt[r]])
    /\ IF perr[r][attempt[r]] = "OK" THEN UNCHANGED charges ELSE routeFailure(r)
    /\ UNCHANGED <<mode, attempt, worker, perr, ctxDone, expired, headSent, writing, admit,
                   starts, cancels, terminal>>

\* The result of the last attempt is the request's.
Finish(r) ==
    /\ phase[r] = "returned"
    /\ ~CanRetry(r)
    /\ Done(r, perr[r][attempt[r]])
    /\ UNCHANGED <<mode, attempt, worker, perr, ctxDone, expired, headSent, writing, admit,
                   starts, cancels, terminal, charges>>

-----------------------------------------------------------------------------
(* What happens around the request *)

\* cancelLocal: an administrator's cancellation or a lost ownership record.
CancelLocal(r) ==
    /\ r \in inflight
    /\ ctxDone' = [ctxDone EXCEPT ![r] = TRUE]
    /\ UNCHANGED <<phase, mode, attempt, worker, perr, outcome, expired, inflight, headSent, writing,
                   admit, starts, cancels, terminal, charges>>

\* The HTTP server cancels the context of a client that went away; it no longer
\* watches the connection of a hijacked CONNECT request.
ClientGone(r) ==
    /\ Active(r)
    /\ mode[r] # "tunnel"
    /\ ctxDone' = [ctxDone EXCEPT ![r] = TRUE]
    /\ UNCHANGED <<phase, mode, attempt, worker, perr, outcome, expired, inflight, headSent, writing,
                   admit, starts, cancels, terminal, charges>>

DeadlinePasses(r) ==
    /\ Active(r)
    /\ expired' = [expired EXCEPT ![r] = TRUE]
    /\ UNCHANGED <<phase, mode, attempt, worker, perr, outcome, ctxDone, inflight, headSent, writing,
                   admit, starts, cancels, terminal, charges>>

Stream(r) ==
    \/ CtxDone(r) \/ Deadline(r) \/ Tick(r) \/ UploadFailed(r)
    \/ BadFrame(r) \/ ResponseStart(r) \/ DataRefused(r)
    \/ WriteData(r) \/ Written(r) \/ WriteFailed(r)
    \/ \E code \in WireCodes : ErrorFrame(r, code)
    \/ CancelledFrame(r) \/ EndFrame(r)

Next ==
    \E r \in Requests :
        \/ \E w \in Workers : Begin(r, w) \/ Fallback(r, w)
        \/ \E code \in routeError \union validationPipelineError : Refuse(r, code)
        \/ AssignRefused(r) \/ requestAssign(r) \/ AckReceived(r) \/ AckMissed(r)
        \/ \E w \in Workers, answer \in Answers : WorkerAnswers(r, w, answer)
        \/ sendRequestStart(r) \/ Stream(r)
        \/ NoFallback(r) \/ Finish(r)
        \/ CancelLocal(r) \/ ClientGone(r) \/ DeadlinePasses(r)

Spec == Init /\ [][Next]_vars

\* Timers fire and a runnable goroutine runs: the ack timer and the deadline are
\* the runtime's, every other step is Control's own.  The deadline is one ready case
\* of a select that frames may keep interrupting; select picks among the ready cases
\* at random, so a case that is ready again and again is taken: strong fairness.
\* Nothing is assumed of the worker, the client or the transport.
Fairness ==
    \A r \in Requests :
        /\ WF_vars(AssignRefused(r) \/ requestAssign(r))
        /\ WF_vars(AckReceived(r) \/ AckMissed(r))
        /\ WF_vars(sendRequestStart(r))
        /\ WF_vars(DeadlinePasses(r))
        /\ SF_vars(Deadline(r))
        /\ WF_vars(Finish(r) \/ NoFallback(r) \/ \E w \in Workers : Fallback(r, w))

FairSpec == Spec /\ Fairness

-----------------------------------------------------------------------------
(* Properties *)

\* Every field of a request's dispatch holds what it may: in particular an attempt returns,
\* and a caller is told, only codes of the error registry, whatever code a worker sent.
TypeOK ==
    /\ phase \in [Requests -> Phases]
    /\ mode \in [Requests -> Modes]
    /\ attempt \in [Requests -> 0..2]
    /\ worker \in [Requests -> [Attempts -> Workers \union {NoWorker}]]
    /\ perr \in [Requests -> [Attempts -> ErrorRegistry \union {"none", "OK"}]]
    /\ outcome \in [Requests -> ErrorRegistry \union {"none", "OK"}]
    /\ ctxDone \in [Requests -> BOOLEAN]
    /\ expired \in [Requests -> BOOLEAN]
    /\ inflight \subseteq Requests
    /\ headSent \in [Requests -> BOOLEAN]
    /\ writing \in [Requests -> Writes]
    /\ admit \in [Requests -> [Workers -> Answers]]
    /\ starts \in [Requests -> SUBSET Workers]
    /\ cancels \in [Requests -> SUBSET Workers]
    /\ terminal \in [Requests -> BOOLEAN]
    /\ charges \in [Requests -> [Attempts -> Nat]]

\* No replay: RequestStart of a request is published to at most one worker, and
\* only to one that accepted the assignment.  The fallback of
\* executeAttemptOrFallback may only ever follow an attempt that started nothing,
\* although it looks at nothing but the error code of that attempt.
SingleStart ==
    \A r \in Requests :
        /\ \A v, w \in starts[r] : v = w
        /\ \A w \in starts[r] : admit[r][w] = "ACCEPTED"

\* A worker is charged at most one failure for an attempt, so it takes
\* CooldownFailureCount failed attempts to put it into cooldown: the charge of the
\* stream (streamLost, routeProtocolFailure, executorError) and that of the
\* fallback never add up.
ChargedOnce ==
    \A r \in Requests, k \in Attempts : charges[r][k] <= 1

\* A request that Control itself ends, by cancellation or by a timeout, tells the
\* worker that runs it with a CancelFrame, unless the worker has already ended the
\* stream.  The one exception is a tunnel that ends as cancelled before its client was
\* told "200 Connection Established": acceptResponseStart returns without a cancel when
\* that write fails.  A timeout is always told.
AbortIsTold ==
    \A r \in Requests :
        ( /\ outcome[r] \in {"Cancelled", "TimeoutExceeded"}
          /\ ~terminal[r]
          /\ ~(outcome[r] = "Cancelled" /\ mode[r] = "tunnel" /\ ~headSent[r]) )
        => starts[r] \subseteq cancels[r]

\* Every request whose client does not block Control for ever is answered: if each
\* write to the client returns, because it reads or because it is gone, a registered
\* request ends at the latest after its deadline, whatever the worker and the transport
\* do, and although frames keep arriving.  (The deadline is a case of the select, so it
\* cannot end a write: without the premise the property is false.)
EveryRequestEnds ==
    \A r \in Requests :
        []<>(writing[r] = "none") => (Active(r) ~> phase[r] = "done")
=============================================================================
