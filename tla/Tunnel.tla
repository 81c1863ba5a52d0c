------------------------------- MODULE Tunnel -------------------------------
(***************************************************************************)
(* One established CONNECT tunnel: the goroutine that uploads what the     *)
(* client sends (request_stream.go) beside Control's select loop           *)
(* (tunnel.go), which share the upload gate and the c2e sender.            *)
(*                                                                         *)
(* Each mutex section, channel operation and blocking call is a step of    *)
(* its own.  Client and upstream may talk for ever; nothing is counted but *)
(* credit, which goes round, and c2e sequence numbers, which are taken     *)
(* modulo SeqModulus.  NATS neither loses nor repeats frames here (module  *)
(* ResponseStream is about that), and e2c data is bounded by credit the    *)
(* worker SDK observes.                                                    *)
(***************************************************************************)
EXTENDS Naturals, Sequences

CONSTANTS
    InitialUpload,      \* InitialUploadCreditBytes
    InitialDownload,    \* initialDownloadCredit()
    FrameData,          \* MaxFrameDataBytes
    SeqModulus          \* bound: more than the c2e frames that can be under way

ASSUME CreditAssumption == {InitialUpload, InitialDownload, FrameData} \subseteq Nat \ {0}
ASSUME ModulusAssumption == SeqModulus \in Nat /\ SeqModulus > InitialUpload + InitialDownload + 1

VARIABLES
    gate,       \* tunnelUploadGate: credit and closed
    wake,       \* its wake channel, of capacity one, holds a token
    up,         \* the uploading goroutine: where it is, credit it took, bytes it read
    main,       \* the select loop: where it is, what it is about to publish
    sender,     \* c2eStreamSender: who holds the mutex, and seq
    c2e, e2c,   \* frames under way
    worker,     \* the worker: next c2e sequence number, bytes held, download credit
    client,     \* the client's side of the connection
    errs,       \* the channel the uploader reports on
    ctx,        \* the request's context has ended
    outcome     \* how the tunnel ended

vars == <<gate, wake, up, main, sender, c2e, e2c, worker, client, errs, ctx, outcome>>

Positions == {"take", "wait", "read", "publish", "unlock", "return", "signal", "check",
              "close", "closed", "done"}
Places == {"select", "signal", "publish", "unlock", "close", "closed", "done"}
Frames == [seq : 0..(SeqModulus - 1), kind : {"data", "credit", "cancel"}, len : Nat]
Answers == [kind : {"data", "credit", "end"}, len : 0..FrameData]
Codes == {"success", "Cancelled", "TimeoutExceeded", "BodyTooLarge", "TransportUnavailable"}

\* The places of both goroutines and the amounts they hold: the uploader takes no more than
\* a frame's worth of credit at a time, and neither side's credit exceeds its initial one.
TypeOK ==
    /\ gate \in [credit : 0..InitialUpload, closed : BOOLEAN] /\ wake \in BOOLEAN
    /\ up \in [pc : Positions, credit : 0..FrameData, n : 0..FrameData, failed : BOOLEAN]
    /\ main \in [pc : Places, kind : {"none", "credit", "cancel"}, len : 0..FrameData]
    /\ sender \in [holder : {"free", "up", "main"}, seq : 0..(SeqModulus - 1)]
    /\ c2e \in Seq(Frames) /\ e2c \in Seq(Answers)
    /\ worker \in [expected : 0..(SeqModulus - 1), held : 0..InitialUpload,
                   credit : 0..InitialDownload, open : BOOLEAN, broken : BOOLEAN]
    /\ client \in {"open", "ended", "failed"} /\ errs \in {"none", "taken"} \cup Codes
    /\ ctx \in BOOLEAN /\ outcome \in Codes \cup {"none"}

Init ==
    /\ gate = [credit |-> InitialUpload, closed |-> FALSE] /\ wake = FALSE
    /\ up = [pc |-> "take", credit |-> 0, n |-> 0, failed |-> FALSE]
    /\ main = [pc |-> "select", kind |-> "none", len |-> 0]
    /\ sender = [holder |-> "free", seq |-> 0]
    /\ c2e = <<>> /\ e2c = <<>>
    /\ worker = [expected |-> 0, held |-> 0, credit |-> InitialDownload, open |-> TRUE,
                 broken |-> FALSE]
    /\ client = "open" /\ errs = "none" /\ ctx = FALSE /\ outcome = "none"

Lesser(a, b) == IF a < b THEN a ELSE b

-----------------------------------------------------------------------------
(* The uploading goroutine: streamRequestBody over takeMax and grant.      *)

\* takeMax, up to its wait for the wake channel.
takeMax ==
    /\ up.pc = "take"
    /\ \/ /\ gate.closed /\ up' = [up EXCEPT !.pc = "close"] /\ UNCHANGED gate
       \/ /\ ~gate.closed /\ gate.credit > 0
          /\ LET n == Lesser(gate.credit, FrameData)
             IN  /\ gate' = [gate EXCEPT !.credit = @ - n]
                 /\ up' = [up EXCEPT !.pc = "read", !.credit = n]
       \/ /\ ~gate.closed /\ gate.credit = 0 /\ up' = [up EXCEPT !.pc = "wait"] /\ UNCHANGED gate
    /\ UNCHANGED <<wake, main, sender, c2e, e2c, worker, client, errs, ctx, outcome>>

Woken ==
    /\ up.pc = "wait" /\ wake
    /\ wake' = FALSE /\ up' = [up EXCEPT !.pc = "take"]
    /\ UNCHANGED <<gate, main, sender, c2e, e2c, worker, client, errs, ctx, outcome>>

\* BodyReader.Read: the client's bytes, io.EOF, or an error.
Read ==
    /\ up.pc = "read"
    /\ \/ /\ client = "open"
          /\ \E n \in 1..up.credit : up' = [up EXCEPT !.pc = "publish", !.n = n]
       \/ client = "ended" /\ up' = [up EXCEPT !.pc = "return", !.n = 0]
       \/ client = "failed" /\ up' = [up EXCEPT !.pc = "return", !.n = 0, !.failed = TRUE]
    /\ UNCHANGED <<gate, wake, main, sender, c2e, e2c, worker, client, errs, ctx, outcome>>

\* Mutant: publish without the mutex.
PublishUnlocked(who, kind, len) ==
    /\ sender' = [sender EXCEPT !.holder = who]
    /\ c2e' = Append(c2e, [seq |-> sender.seq, kind |-> kind, len |-> len])

\* c2eStreamSender.publish, as far as the frame's publication under the mutex ...
Publish(who, kind, len) ==
    /\ sender.holder = "free"
    /\ sender' = [sender EXCEPT !.holder = who]
    /\ c2e' = Append(c2e, [seq |-> sender.seq, kind |-> kind, len |-> len])

\* ... and its end.
Unlock == sender' = [holder |-> "free", seq |-> (sender.seq + 1) % SeqModulus]

data ==
    /\ up.pc = "publish" /\ Publish("up", "data", up.n) /\ up' = [up EXCEPT !.pc = "unlock"]
    /\ UNCHANGED <<gate, wake, main, e2c, worker, client, errs, ctx, outcome>>

UnlockData ==
    /\ up.pc = "unlock" /\ Unlock /\ up' = [up EXCEPT !.pc = "return"]
    /\ UNCHANGED <<gate, wake, main, c2e, e2c, worker, client, errs, ctx, outcome>>

\* Mutant: the credit a short read did not use is forgotten.
ReturnCreditNever ==
    /\ up.pc = "return" /\ up' = [up EXCEPT !.pc = "check", !.credit = 0, !.n = 0]
    /\ UNCHANGED gate
    /\ UNCHANGED <<wake, main, sender, c2e, e2c, worker, client, errs, ctx, outcome>>

\* The credit a short read did not use goes back through grant.
ReturnCredit ==
    /\ up.pc = "return"
    /\ gate' = [gate EXCEPT !.credit = @ + (up.credit - up.n)]
    /\ up' = [up EXCEPT !.pc = IF up.n < up.credit THEN "signal" ELSE "check",
                        !.credit = 0, !.n = 0]
    /\ UNCHANGED <<wake, main, sender, c2e, e2c, worker, client, errs, ctx, outcome>>

SignalSelf ==
    /\ up.pc = "signal" /\ wake' = TRUE /\ up' = [up EXCEPT !.pc = "check"]
    /\ UNCHANGED <<gate, main, sender, c2e, e2c, worker, client, errs, ctx, outcome>>

\* streamingRequestBodyReadError takes io.EOF for no error; then the context is looked at.
CheckRead ==
    /\ up.pc = "check"
    /\ up' = [up EXCEPT !.pc = IF up.failed \/ ctx THEN "close" ELSE "take"]
    /\ UNCHANGED <<gate, wake, main, sender, c2e, e2c, worker, client, errs, ctx, outcome>>

\* The goroutine reports its error on errs, which has room for it, and closes the gate.
UploadEnds ==
    /\ up.pc = "close"
    /\ errs' = IF up.failed THEN "BodyTooLarge" ELSE "TransportUnavailable"
    /\ gate' = [gate EXCEPT !.closed = TRUE] /\ up' = [up EXCEPT !.pc = "closed"]
    /\ UNCHANGED <<wake, main, sender, c2e, e2c, worker, client, ctx, outcome>>

UploadGone ==
    /\ up.pc = "closed" /\ wake' = TRUE /\ up' = [up EXCEPT !.pc = "done"]
    /\ UNCHANGED <<gate, main, sender, c2e, e2c, worker, client, errs, ctx, outcome>>

-----------------------------------------------------------------------------
(* The select loop: tunnelStreamState.next and streamTunnel's return.      *)

Ending(code) == outcome = "none" /\ outcome' = code

\* Mutant: credit is added and nobody is told.
acceptCreditQuietly(n) == gate' = [gate EXCEPT !.credit = @ + n] /\ UNCHANGED <<main, wake>>

\* acceptCredit: the first half of grant.
acceptCredit(n) ==
    /\ gate' = [gate EXCEPT !.credit = @ + n]
    /\ main' = [main EXCEPT !.pc = "signal"]
    /\ UNCHANGED wake

\* ... and the second.
SignalUploader ==
    /\ main.pc = "signal" /\ wake' = TRUE
    /\ main' = [main EXCEPT !.pc = "select"]
    /\ UNCHANGED <<gate, up, sender, c2e, e2c, worker, client, errs, ctx, outcome>>

ToPublish(kind, len) == main' = [pc |-> "publish", kind |-> kind, len |-> len]

accept ==
    /\ main.pc = "select" /\ e2c # <<>> /\ e2c' = Tail(e2c)
    /\ LET kind == Head(e2c).kind
           n == Head(e2c).len
       IN  \/ kind = "credit" /\ acceptCredit(n) /\ UNCHANGED outcome
           \/ /\ kind = "data" /\ client # "failed"     \* written to the client
              /\ ToPublish("credit", n) /\ UNCHANGED <<gate, wake, outcome>>
           \/ /\ kind = "data" /\ client # "open"          \* the write fails
              /\ ToPublish("cancel", 0) /\ Ending("Cancelled") /\ UNCHANGED <<gate, wake>>
           \/ /\ kind = "end"
              /\ main' = [main EXCEPT !.pc = "close"] /\ Ending("success")
              /\ UNCHANGED <<gate, wake>>
    /\ UNCHANGED <<up, sender, c2e, worker, client, errs, ctx>>

\* The context, the deadline or the idle clock.
Interrupted ==
    /\ main.pc = "select"
    /\ \E code \in {"Cancelled", "TimeoutExceeded"} : Ending(code) /\ (code = "Cancelled" => ctx)
    /\ ToPublish("cancel", 0)
    /\ UNCHANGED <<gate, wake, up, sender, c2e, e2c, worker, client, errs, ctx>>

UploadFailed ==
    /\ main.pc = "select" /\ errs \in Codes /\ errs' = "taken"
    /\ Ending(errs)
    /\ ToPublish("cancel", 0)
    /\ UNCHANGED <<gate, wake, up, sender, c2e, e2c, worker, client, ctx>>

\* natsDisconnected: the stream is given up without a cancel frame.
streamLost ==
    /\ main.pc = "select" /\ Ending("TransportUnavailable")
    /\ main' = [main EXCEPT !.pc = "close"]
    /\ UNCHANGED <<gate, wake, up, sender, c2e, e2c, worker, client, errs, ctx>>

PublishMain ==
    /\ main.pc = "publish" /\ Publish("main", main.kind, main.len)
    /\ main' = [main EXCEPT !.pc = "unlock"]
    /\ UNCHANGED <<gate, wake, up, e2c, worker, client, errs, ctx, outcome>>

UnlockMain ==
    /\ main.pc = "unlock" /\ Unlock
    /\ main' = [pc |-> IF main.kind = "cancel" THEN "close" ELSE "select",
                kind |-> "none", len |-> 0]
    /\ UNCHANGED <<gate, wake, up, c2e, e2c, worker, client, errs, ctx, outcome>>

\* closeUploadGate on return from streamTunnel ...
close ==
    /\ main.pc = "close"
    /\ gate' = [gate EXCEPT !.closed = TRUE] /\ main' = [main EXCEPT !.pc = "closed"]
    /\ UNCHANGED <<wake, up, sender, c2e, e2c, worker, client, errs, ctx, outcome>>

\* Mutant: the connection stays open under a blocked Read.
GoneUnclosed ==
    /\ main.pc = "closed" /\ wake' = TRUE /\ main' = [main EXCEPT !.pc = "done"]
    /\ ctx' = TRUE
    /\ UNCHANGED <<gate, up, sender, c2e, e2c, worker, client, errs, outcome>>

\* ... its wake-up; then the context is cancelled and the connection closed.
Gone ==
    /\ main.pc = "closed" /\ wake' = TRUE /\ main' = [main EXCEPT !.pc = "done"]
    /\ ctx' = TRUE /\ client' = "failed"
    /\ UNCHANGED <<gate, up, sender, c2e, e2c, worker, errs, outcome>>

-----------------------------------------------------------------------------
(* The client, the worker and the upstream behind it.                      *)

ClientEnds ==
    /\ client = "open" /\ client' \in {"ended", "failed"}
    /\ UNCHANGED <<gate, wake, up, main, sender, c2e, e2c, worker, errs, ctx, outcome>>

\* InFlight cancels the request's context.
CancelRequest ==
    /\ ~ctx /\ outcome = "none" /\ ctx' = TRUE
    /\ UNCHANGED <<gate, wake, up, main, sender, c2e, e2c, worker, client, errs, outcome>>

\* The worker takes the next c2e frame and holds its sequence number against its own count.
WorkerTakes ==
    /\ c2e # <<>> /\ c2e' = Tail(c2e)
    /\ LET f == Head(c2e)
       IN  worker' =
             IF f.seq # worker.expected THEN [worker EXCEPT !.broken = TRUE]
             ELSE [worker EXCEPT
                !.expected = (@ + 1) % SeqModulus,
                !.held = @ + (IF f.kind = "data" THEN f.len ELSE 0),
                !.credit = @ + (IF f.kind = "credit" THEN f.len ELSE 0),
                !.open = @ /\ f.kind # "cancel"]
    /\ UNCHANGED <<gate, wake, up, main, sender, e2c, client, errs, ctx, outcome>>

\* The upstream takes what the worker holds; the worker returns the credit for it.
WorkerCredits ==
    /\ worker.open /\ \E n \in 1..Lesser(worker.held, FrameData) :
        /\ worker' = [worker EXCEPT !.held = @ - n]
        /\ e2c' = Append(e2c, [kind |-> "credit", len |-> n])
    /\ UNCHANGED <<gate, wake, up, main, sender, c2e, client, errs, ctx, outcome>>

WorkerSends ==
    /\ worker.open /\ \E n \in 1..Lesser(worker.credit, FrameData) :
        /\ worker' = [worker EXCEPT !.credit = @ - n]
        /\ e2c' = Append(e2c, [kind |-> "data", len |-> n])
    /\ UNCHANGED <<gate, wake, up, main, sender, c2e, client, errs, ctx, outcome>>

WorkerEnds ==
    /\ worker.open /\ worker' = [worker EXCEPT !.open = FALSE]
    /\ e2c' = Append(e2c, [kind |-> "end", len |-> 0])
    /\ UNCHANGED <<gate, wake, up, main, sender, c2e, client, errs, ctx, outcome>>

Uploading == takeMax \/ Woken \/ Read \/ data \/ UnlockData \/ ReturnCredit \/ SignalSelf
             \/ CheckRead \/ UploadEnds \/ UploadGone
Selecting == accept \/ SignalUploader \/ Interrupted \/ UploadFailed \/ streamLost \/ PublishMain
             \/ UnlockMain \/ close \/ Gone
Working == WorkerTakes \/ WorkerCredits \/ WorkerSends \/ WorkerEnds

Next == Uploading \/ Selecting \/ Working \/ ClientEnds \/ CancelRequest

\* Goroutines are scheduled, a mutex goes to whoever keeps asking for it, and a Read returns
\* once the client's side has ended.
Fairness ==
    /\ WF_vars(takeMax \/ Woken \/ (Read /\ client # "open") \/ UnlockData \/ ReturnCredit
               \/ SignalSelf \/ CheckRead \/ UploadEnds \/ UploadGone)
    /\ WF_vars(SignalUploader \/ UnlockMain \/ close \/ Gone)
    /\ SF_vars(data) /\ SF_vars(PublishMain)

Spec == Init /\ [][Next]_vars
FairSpec == Spec /\ Fairness

-----------------------------------------------------------------------------
(* Properties.                                                             *)

Total(s) == LET upTo[i \in 0..Len(s)] == IF i = 0 THEN 0 ELSE upTo[i - 1] + s[i]
            IN  upTo[Len(s)]
Carried(frames, kind) ==
    [i \in 1..Len(frames) |-> IF frames[i].kind = kind THEN frames[i].len ELSE 0]
Bytes(frames, kind) == Total(Carried(frames, kind))
Taken == IF up.pc \in {"unlock", "return"} THEN up.credit - up.n ELSE up.credit

\* Upload credit goes round without leaking or growing: what is at the gate, in the
\* uploader's hands, in data frames, at the worker and in credit frames is what the
\* request started with, whatever short reads gave back.
UploadCreditConserved ==
    gate.credit + Taken + Bytes(c2e, "data") + worker.held + Bytes(e2c, "credit")
        = InitialUpload

\* The uploader's data frames and the loop's credit and cancel frames share one unbroken
\* sequence, in the order in which they are published.
SequenceUnbroken == ~worker.broken

\* The uploader never sleeps at the gate beside credit, or a closed gate, that nobody will
\* tell it of: a token waits for it or its sender is about to put one.
NoLostWakeup ==
    (up.pc = "wait" /\ (gate.credit > 0 \/ gate.closed)) =>
        (wake \/ main.pc \in {"signal", "closed"})

\* The goroutine does not outlive its tunnel: it is gone some time after the loop returned.
UploaderEnds == (outcome # "none") ~> (up.pc = "done")
=============================================================================
