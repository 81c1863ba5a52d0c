-------------------------- MODULE StreamValidator --------------------------
(***************************************************************************)
(* The per-direction frame validator of natsx/stream.go, as operators on a *)
(* validator record.  Accept gives the outcome of a frame and Advance the  *)
(* validator after it; every outcome but "accepted" leaves the validator   *)
(* alone.  The idle clock is left to the modules that use the validator.   *)
(***************************************************************************)
EXTENDS Naturals

TerminalKinds == {"end", "error", "cancelled"}
\* "control" stands for the frames Control alone has to send: request_start and cancel.
ProgressKinds == {"outbound_start", "response_start", "data", "credit", "trailers", "body_ref",
                  "control"}
Kinds == TerminalKinds \cup ProgressKinds

\* A frame nobody could decode; the code passes nil to the validator.
Undecodable == [kind |-> "nil", seq |-> 0, attempt |-> 0, offset |-> 0, len |-> 0, ok |-> FALSE]

NewStreamValidator(attempt, initialCredit) ==
    [attempt |-> attempt, expectedSeq |-> 1, offset |-> 0, credit |-> initialCredit,
     terminal |-> FALSE]

GrantCredit(v, bytes) == [v EXCEPT !.credit = @ + bytes]

isTerminalFrame(f) == f.kind \in TerminalKinds

validateFrameShell(v, f) ==
    IF f.kind = "nil" THEN "invalid"
    ELSE IF v.terminal THEN "after_terminal"
    ELSE IF f.seq = 0 THEN "invalid"
    ELSE IF f.attempt # v.attempt THEN "attempt_mismatch"
    ELSE "accepted"

acceptData(v, f) ==
    IF f.kind # "data" THEN "accepted"
    ELSE IF f.offset # v.offset THEN "offset_mismatch"
    ELSE IF f.len > v.credit THEN "credit_exhausted"
    ELSE "accepted"

\* allowBodyRef is set by no caller under src/, so a body reference is invalid.
validatePayload(f) == IF f.kind = "body_ref" THEN "invalid" ELSE "accepted"

\* Mutant: a gap is not noticed, and the stream goes on from the frame that came.
AcceptOverGaps(v, f) ==
    IF validateFrameShell(v, f) # "accepted" THEN validateFrameShell(v, f)
    ELSE IF f.seq < v.expectedSeq THEN "duplicate"
    ELSE IF validatePayload(f) # "accepted" THEN validatePayload(f)
    ELSE acceptData(v, f)

\* Mutant: a repeated frame is taken for a break in the sequence.
AcceptNoRepeats(v, f) ==
    IF validateFrameShell(v, f) # "accepted" THEN validateFrameShell(v, f)
    ELSE IF f.seq # v.expectedSeq THEN "sequence_gap"
    ELSE IF validatePayload(f) # "accepted" THEN validatePayload(f)
    ELSE acceptData(v, f)

Accept(v, f) ==
    IF validateFrameShell(v, f) # "accepted" THEN validateFrameShell(v, f)
    ELSE IF f.seq < v.expectedSeq THEN "duplicate"
    ELSE IF f.seq > v.expectedSeq THEN "sequence_gap"
    ELSE IF validatePayload(f) # "accepted" THEN validatePayload(f)
    ELSE acceptData(v, f)

Outcomes == {"accepted", "duplicate", "after_terminal", "invalid", "attempt_mismatch",
             "sequence_gap", "offset_mismatch", "credit_exhausted"}

\* The validator after an accepted frame.
Advance(v, f) ==
    LET n == IF f.kind = "data" THEN f.len ELSE 0
    IN  [v EXCEPT !.expectedSeq = @ + 1, !.offset = @ + n, !.credit = @ - n,
                  !.terminal = isTerminalFrame(f)]
=============================================================================
