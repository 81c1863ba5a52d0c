--------------------------- MODULE ResponseStream ---------------------------
(***************************************************************************)
(* The response of one started request on its way from the executor        *)
(* (egress/executor.go, response_frames.go) over NATS to the caller        *)
(* (control/response_stream.go, raw_response.go), with download credit     *)
(* flowing back.  The body is Body units long; unit i is called i.         *)
(*                                                                         *)
(* A request's sink says where Control puts the units: "inline" collects   *)
(* them in memory, "raw" writes them to the client as they come, "receipt" *)
(* stores them as parts and composes a receipt from them                   *)
(* (receipt/response_upload.go).                                           *)
(*                                                                         *)
(* The worker SDK, which is not part of this repository, splits and holds  *)
(* data frames back until there is credit for them.  A frame may be lost   *)
(* (a subscriber that falls behind, a reconnect) or come twice.            *)
(***************************************************************************)
EXTENDS Naturals, Sequences, StreamValidator

CONSTANTS
    Sinks,          \* the sinks a request may ask for
    Makes,          \* the workers there are: "straw" sends frames as this repository's
                    \* executor does, "foreign" is of another make and sends anything
    Strict,         \* the worker speaks at least upstreamProxyProtocolMinor
    Body,           \* length of the upstream's body
    InitialCredit,  \* initialDownloadCredit()
    FrameData,      \* the most units of one data frame
    MaxBody,        \* MaxInlineResponseBodyBytes, or receipts' MaxObjectBytes
    PartSize,       \* receipts' MaxPartBytes
    MaxFaults,      \* bound: frames lost or repeated
    MaxForeign,     \* bound: frames of a foreign worker
    MaxStoreFaults, \* bound: failing calls of the object store
    Interrupts      \* may the caller, the deadline or the transport end the stream?

ASSUME SizesAssumption ==
    /\ {Body, MaxBody, MaxFaults, MaxForeign, MaxStoreFaults} \subseteq Nat
    /\ {InitialCredit, FrameData, PartSize} \subseteq Nat \ {0}
ASSUME ShapeAssumption ==
    /\ Sinks \subseteq {"inline", "raw", "receipt"} /\ Makes \subseteq {"straw", "foreign"}
    /\ {Strict, Interrupts} \subseteq BOOLEAN

VARIABLES
    request,    \* the sink of this request and the make of its worker
    worker,     \* the executor: frame count, body offset, credit, phase
    wire,       \* frames on the e2c subject
    back,       \* credit and cancel frames on the c2e subject
    validator,  \* Control's validator of the e2c stream
    started,    \* outboundStarted and responseStarted
    delivered,  \* the units appended to result.body, written or stored
    parts,      \* response parts in the object store
    stored,     \* the composed body and its record
    outcome,    \* how the stream ended for the caller
    sawEnd,     \* the Success flag of the EndFrame Control took
    faults, storeFaults, lost

vars == <<request, worker, wire, back, validator, started, delivered, parts, stored, outcome, sawEnd,
          faults, storeFaults, lost>>

Sink == request.sink
Orderly == request.make = "straw"

control == <<request, validator, started, delivered, parts, stored, outcome, sawEnd, storeFaults>>
store == <<parts, stored, storeFaults>>

Attempt == 1

Frame(seq, kind, offset, len, ok) ==
    [seq |-> seq, attempt |-> Attempt, kind |-> kind, offset |-> offset, len |-> len, ok |-> ok]

Codes == {"success", "ProtocolError", "BodyTooLarge", "Cancelled", "TimeoutExceeded",
          "TransportUnavailable", "ControlInternalError", "executor_error"}

\* The executor never spends credit it has not got, the faults stay within their bounds, and
\* a request keeps one sink and one worker.
TypeOK ==
    /\ request \in [sink : Sinks, make : Makes]
    /\ worker \in [seq : Nat, offset : 0..Body, credit : Nat,
                   phase : {"new", "outbound", "started", "trailers", "ended"}]
    /\ \A i \in DOMAIN wire :
        wire[i] = Undecodable \/ (wire[i].kind \in Kinds /\ wire[i].len \in Nat)
    /\ \A i \in DOMAIN back : back[i] \in {"cancel"} \X {0} \cup {"credit"} \X Nat
    /\ validator \in [attempt : {Attempt}, expectedSeq : Nat, offset : Nat, credit : Nat,
                      terminal : BOOLEAN]
    /\ started \in [outbound : BOOLEAN, response : BOOLEAN]
    /\ delivered \in Seq(Nat)
    /\ parts \subseteq Nat /\ stored \in [body : Nat, record : BOOLEAN]
    /\ outcome \in Codes \cup {"none"} /\ sawEnd \in BOOLEAN
    /\ faults \in 0..(IF Orderly THEN MaxFaults ELSE MaxForeign) /\ storeFaults \in 0..MaxStoreFaults /\ lost \in BOOLEAN

Init ==
    /\ request \in [sink : Sinks, make : Makes]
    /\ worker = [seq |-> 0, offset |-> 0, credit |-> InitialCredit, phase |-> "new"]
    /\ wire = <<>> /\ back = <<>>
    /\ validator = NewStreamValidator(Attempt, InitialCredit)
    /\ started = [outbound |-> FALSE, response |-> FALSE]
    /\ delivered = <<>>
    /\ parts = {} /\ stored = [body |-> 0, record |-> FALSE]
    /\ outcome = "none" /\ sawEnd = FALSE
    /\ faults = 0 /\ storeFaults = 0 /\ lost = FALSE

-----------------------------------------------------------------------------
(* The executor.  Its frame builder numbers the frames from 1.             *)

Emits(kind, len, ok, phase) ==
    /\ Orderly
    /\ worker' = [seq |-> worker.seq + 1, offset |-> worker.offset + len,
                  credit |-> worker.credit - len, phase |-> phase]
    /\ wire' = Append(wire, Frame(worker.seq + 1, kind, worker.offset, len, ok))
    /\ UNCHANGED <<back, control, faults, lost>>

outboundStart == worker.phase = "new" /\ Emits("outbound_start", 0, TRUE, "outbound")

responseStart == worker.phase = "outbound" /\ Emits("response_start", 0, FALSE, "started")

streamResponseBody ==
    /\ worker.phase = "started"
    /\ \E n \in 1..FrameData :
        /\ n <= worker.credit /\ worker.offset + n <= Body
        /\ Emits("data", n, FALSE, "started")

trailers ==
    /\ worker.phase = "started" /\ worker.offset = Body
    /\ Emits("trailers", 0, FALSE, "trailers")

end ==
    /\ worker.phase \in {"started", "trailers"} /\ worker.offset = Body
    /\ Emits("end", 0, TRUE, "ended")

\* An upstream that fails, at any point before the end of the body.
error ==
    /\ Interrupts /\ worker.phase \in {"new", "outbound", "started"}
    /\ Emits("error", 0, FALSE, "ended")

\* The SDK takes a credit frame, or a cancel frame, which it answers with CancelledFrame.
Hear ==
    /\ back # <<>> /\ back' = Tail(back)
    /\ \/ /\ Head(back)[1] = "credit"
          /\ worker' = [worker EXCEPT !.credit = @ + Head(back)[2]]
          /\ UNCHANGED wire
       \/ /\ Head(back)[1] = "cancel" /\ worker.phase # "ended"
          /\ worker' = [worker EXCEPT !.seq = @ + 1, !.phase = "ended"]
          /\ wire' = Append(wire, Frame(worker.seq + 1, "cancelled", worker.offset, 0, FALSE))
       \/ /\ Head(back)[1] = "cancel" /\ worker.phase = "ended"
          /\ UNCHANGED <<worker, wire>>
    /\ UNCHANGED <<control, faults, lost>>

\* A worker of another make may send any frame at all, an EndFrame that admits a failure
\* among them.
AnyFrame ==
    /\ ~Orderly /\ wire = <<>> /\ outcome = "none"
    /\ faults < MaxForeign /\ faults' = faults + 1
    /\ \E kind \in Kinds \cup {"nil"}, seq \in 0..(validator.expectedSeq + 1),
          attempt \in {Attempt, Attempt + 1}, offset \in 0..2, len \in 0..(InitialCredit + 1),
          ok \in BOOLEAN :
        /\ kind # "data" => offset = 0 /\ len = 0
        /\ wire' = IF kind = "nil" THEN <<Undecodable>>
                   ELSE <<[Frame(seq, kind, offset, len, ok) EXCEPT !.attempt = attempt]>>
    /\ UNCHANGED <<worker, back, control, lost>>

-----------------------------------------------------------------------------
(* NATS.                                                                   *)

LoseFrame ==
    /\ Orderly /\ faults < MaxFaults /\ faults' = faults + 1
    /\ \/ \E i \in DOMAIN wire :
            wire' = SubSeq(wire, 1, i - 1) \o SubSeq(wire, i + 1, Len(wire)) /\ UNCHANGED back
       \/ back # <<>> /\ back' = Tail(back) /\ UNCHANGED wire
    /\ lost' = TRUE
    /\ UNCHANGED <<worker, control>>

RepeatFrame ==
    /\ Orderly /\ faults < MaxFaults /\ faults' = faults + 1
    /\ \E i \in DOMAIN wire : wire' = Append(wire, wire[i])
    /\ UNCHANGED <<worker, back, control, lost>>

-----------------------------------------------------------------------------
(* The response receipt.                                                   *)

StoreFails == storeFaults < MaxStoreFaults /\ storeFaults' = storeFaults + 1

Flushed(n) == 1..(n \div PartSize)

\* deleteParts: errors of the deletions are ignored.
deleteParts ==
    \/ parts' = {} /\ UNCHANGED storeFaults
    \/ StoreFails /\ \E p \in parts : parts' = {p}

\* Write: full parts go to the store as they fill.
WriteFits(n) == Len(delivered) + n <= MaxBody

\* A context that ended makes the deletions fail along with the call before them.
Commit ==
    LET last == IF Len(delivered) % PartSize = 0 THEN {} ELSE {Len(delivered) \div PartSize + 1}
    IN  \/ \* flushPart fails: the parts stay
           /\ last # {} /\ StoreFails
           /\ outcome' = "ControlInternalError" /\ UNCHANGED <<parts, stored>>
        \/ \* the body cannot be composed
           /\ StoreFails /\ parts' \in {{}, parts \cup last}
           /\ outcome' = "ControlInternalError" /\ UNCHANGED stored
        \/ \* the record cannot be saved
           /\ StoreFails /\ parts' \in {{}, parts \cup last}
           /\ stored' = [body |-> Len(delivered), record |-> FALSE]
           /\ outcome' = "ControlInternalError"
        \/ /\ deleteParts
           /\ stored' = [body |-> Len(delivered), record |-> TRUE]
           /\ outcome' = "success"

\* Abort, on every failure before the terminal frame.
Abort == deleteParts /\ UNCHANGED stored

-----------------------------------------------------------------------------
(* Control.                                                                *)

\* readResponse's and streamRawResponse's return with an error.
Fail(code) ==
    /\ outcome' = code
    /\ IF Sink = "receipt" THEN Abort ELSE UNCHANGED store

sendCancel == back' = Append(back, <<"cancel", 0>>)

\* Mutant: only whole frames are worth a credit frame.
CreditWholeFrames(n) ==
    back' = IF n = FrameData THEN Append(back, <<"credit", n>>) ELSE back

\* Mutant: a frame's worth of credit, whatever was written.
CreditRounded(n) == back' = Append(back, <<"credit", FrameData>>)

\* sendDownloadCredit
Credit(n) == back' = IF n = 0 THEN back ELSE Append(back, <<"credit", n>>)

\* validateRouteResponseFrame: the order of frames, for workers that know it.
Misordered(f) ==
    /\ Strict
    /\ \/ f.kind = "outbound_start" /\ started.outbound
       \/ f.kind = "response_start" /\ (~started.outbound \/ started.response)
       \/ f.kind = "data" /\ ~started.response
       \/ f.kind = "end" /\ f.ok /\ (~started.outbound \/ ~started.response)

Units(f) == [i \in 1..f.len |-> f.offset + i]

Takes(f) ==
    /\ delivered' = delivered \o Units(f)
    /\ Credit(f.len)
    /\ validator' = GrantCredit(Advance(validator, f), f.len)
    /\ UNCHANGED outcome

\* Raw data needs the response header first; the client may have gone.
writeData(f) ==
    \/ /\ ~started.response
       /\ Fail("ProtocolError") /\ UNCHANGED <<back, delivered>>
       /\ validator' = Advance(validator, f)
    \/ /\ started.response /\ Interrupts
       /\ Fail("Cancelled") /\ sendCancel /\ UNCHANGED delivered
       /\ validator' = Advance(validator, f)
    \/ started.response /\ Takes(f) /\ UNCHANGED store

\* A failing flushPart is reported as a body that is too large; Abort deletes the parts.
acceptResponseData(f) ==
    LET full == Flushed(Len(delivered) + f.len)
    IN  \/ /\ ~WriteFits(f.len)
           /\ Fail("BodyTooLarge") /\ UNCHANGED <<back, delivered>>
           /\ validator' = Advance(validator, f)
        \/ /\ WriteFits(f.len) /\ Sink = "receipt" /\ full # Flushed(Len(delivered))
           /\ StoreFails /\ parts' = {} /\ outcome' = "BodyTooLarge"
           /\ validator' = Advance(validator, f)
           /\ UNCHANGED <<back, delivered, stored>>
        \/ /\ WriteFits(f.len) /\ Takes(f)
           /\ parts' = IF Sink = "receipt" THEN full ELSE {}
           /\ UNCHANGED <<stored, storeFaults>>

\* The start frames, credit and trailers; an OutboundStart that names another fingerprint
\* profile or upstream proxy than the route's is refused.
acceptResponseProgress(f) ==
    /\ validator' = Advance(validator, f) /\ UNCHANGED <<back, delivered>>
    /\ \/ f.kind = "outbound_start" /\ ~f.ok /\ Fail("ProtocolError")
       \/ f.kind = "outbound_start" /\ f.ok /\ UNCHANGED <<store, outcome>>
       \/ f.kind \in {"response_start", "credit", "trailers"} /\ UNCHANGED <<store, outcome>>

\* The Success flag of an EndFrame is not looked at; a frame that only Control sends is refused.
acceptResponseTerminal(f) ==
    /\ validator' = Advance(validator, f) /\ UNCHANGED <<back, delivered>>
    /\ \/ f.kind = "error" /\ Fail("executor_error")
       \/ f.kind = "cancelled" /\ Fail("Cancelled")
       \/ f.kind = "control" /\ Fail("ProtocolError")
       \/ f.kind = "end" /\ Sink = "receipt" /\ Commit
       \/ f.kind = "end" /\ Sink # "receipt" /\ outcome' = "success" /\ UNCHANGED store

Ignored == {"duplicate", "after_terminal"}

\* The frame passes the validator and the order of frames; what it carries is taken.
Accepted(f) ==
    /\ started' = [outbound |-> started.outbound \/ f.kind = "outbound_start",
                   response |-> started.response \/ f.kind = "response_start"]
    /\ sawEnd' = (f.kind = "end" /\ f.ok)
    /\ \/ acceptResponseProgress(f)
       \/ f.kind = "data" /\ Sink = "raw" /\ writeData(f)
       \/ f.kind = "data" /\ Sink # "raw" /\ acceptResponseData(f)
       \/ acceptResponseTerminal(f)

\* acceptResponseFrame and, for raw responses, acceptValidated.
AcceptFrame ==
    /\ outcome = "none" /\ wire # <<>> /\ wire' = Tail(wire)
    /\ LET f == Head(wire)
           verdict == Accept(validator, f)
       IN  \/ /\ verdict \in Ignored
              /\ UNCHANGED <<back, validator, started, delivered, store, outcome, sawEnd>>
           \/ /\ verdict \notin Ignored \cup {"accepted"}
              /\ Fail("ProtocolError")
              /\ UNCHANGED <<back, validator, started, delivered, sawEnd>>
           \/ /\ verdict = "accepted" /\ Misordered(f)
              /\ Fail("ProtocolError") /\ validator' = Advance(validator, f)
              /\ UNCHANGED <<back, started, delivered, sawEnd>>
           \/ verdict = "accepted" /\ ~Misordered(f) /\ Accepted(f)
    /\ UNCHANGED <<request, worker, faults, lost>>

\* The context, the total deadline or the idle clock ends the stream, with a cancel frame.
Interrupt ==
    /\ Interrupts /\ outcome = "none"
    /\ \E code \in {"Cancelled", "TimeoutExceeded"} : Fail(code)
    /\ sendCancel
    /\ UNCHANGED <<request, worker, wire, validator, started, delivered, sawEnd, faults, lost>>

\* responseStreamTick finds the connection gone.
Disconnected ==
    /\ Interrupts /\ outcome = "none" /\ Fail("TransportUnavailable")
    /\ UNCHANGED <<request, worker, wire, back, validator, started, delivered, sawEnd, faults,
                   lost>>

Execute == outboundStart \/ responseStart \/ streamResponseBody \/ trailers \/ end \/ error

Next == Execute \/ Hear \/ AnyFrame \/ LoseFrame \/ RepeatFrame \/ AcceptFrame \/ Interrupt
        \/ Disconnected

\* The executor, the SDK and Control's select loop keep running.
Fairness ==
    /\ WF_vars(outboundStart) /\ WF_vars(responseStart) /\ WF_vars(streamResponseBody)
    /\ WF_vars(end) /\ WF_vars(Hear) /\ WF_vars(AcceptFrame)

Spec == Init /\ [][Next]_vars
FairSpec == Spec /\ Fairness

-----------------------------------------------------------------------------
(* Properties.                                                             *)

\* A response reported as successful is the whole upstream body, each unit once and in order,
\* with a status the worker sent, whatever frames were lost or came twice, and a receipt
\* holds that same body.  Of a worker of another make, which may end its stream when it
\* likes, the body is a prefix in the worker's own order, and there is a status when its
\* EndFrame claims success and it speaks the protocol that orders the frames: an EndFrame
\* that admits a failure is reported as success too, with a default status if none came
\* (acceptResponseTerminal, validateResponseEndFrame).
SuccessIsWhole ==
    outcome = "success" =>
        /\ delivered = [i \in 1..Len(delivered) |-> i]
        /\ Strict /\ sawEnd => started.response
        /\ Orderly => started.response /\ sawEnd /\ Len(delivered) = Body
        /\ Orderly /\ Sink = "receipt" => stored = [body |-> Body, record |-> TRUE]

\* A worker that follows the protocol and its credit is never answered with a protocol
\* error unless NATS really lost one of its frames: repeated frames, and credit that is
\* still on its way, do not make the two ends disagree.
RejectedOnlyAfterLoss == (Orderly /\ outcome = "ProtocolError") => lost

\* Download credit bounds what Control can have to hold: the units the worker has sent and
\* Control has not yet passed on never exceed the initial credit.
InFlightWithinCredit == worker.offset - Len(delivered) <= InitialCredit

\* A response whose receipt could not be made leaves no parts and no body in the object
\* store, where no record leads cleanup to them (commitResponseReceipt's error returns).
NothingLeftBehind == outcome = "ControlInternalError" => (parts = {} /\ stored.body = 0)

\* response_upload.go: the parts are composed "only after Egress sends a successful
\* terminal frame".
ComposedOnlyAfterSuccess == stored.record => sawEnd

\* Credit never runs dry for good: unless a frame is lost, every response stream ends, though
\* neither the deadline nor the idle clock need come to its help.
ResponseArrives == Orderly ~> (outcome # "none" \/ lost)
=============================================================================
