-------------------------- MODULE ProfiledTransport --------------------------
(***************************************************************************)
(* One request sent under a named fingerprint profile                      *)
(* (egress/profiled_transport.go, profiled_roundtrip.go): a connection of  *)
(* its own, written and read by the executor's goroutine alone, and a      *)
(* second goroutine that closes the connection when the request's context  *)
(* ends.  HTTP/2 is spoken frame by frame, with one stream, so a frame's   *)
(* stream identifier is left out; sizes are in units.                      *)
(*                                                                         *)
(* The connection comes from the worker's dialer, for an address that the  *)
(* destination policy let pass, or from UpstreamProxy's Open.              *)
(*                                                                         *)
(* The origin is external: it keeps to HTTP/2, may answer before it has    *)
(* the whole request, changes its settings, and may give up.               *)
(***************************************************************************)
EXTENDS Integers, Sequences, UpstreamProxy

CONSTANTS
    Protocols,         \* what the TLS handshake may negotiate: "h2", "http/1.1"
    Upload,            \* length of the request's body
    Download,          \* length of the response's body
    DefaultWindow,     \* profiledDefaultFlowWindow
    FrameSize,         \* profiledHTTP2MaxFrameSize
    ReadSize,          \* responseFrameDataBytes, the buffer streamResponseBody reads into
    StreamWindow,      \* the profile's INITIAL_WINDOW_SIZE
    ConnectionWindow,  \* the profile's connection flow
    PeerWindows,       \* the INITIAL_WINDOW_SIZEs the origin announces
    PeerFrames,        \* the MAX_FRAME_SIZE it announces with each of them
    MaxControl,        \* bound: pings, 1xx responses and later SETTINGS of the origin
    MaxFaults          \* bound: streams reset and connections ended by the origin

ASSUME ProfileAssumption ==
    /\ Protocols \subseteq {"h2", "http/1.1"}
    /\ {Upload, Download, ConnectionWindow, MaxControl, MaxFaults} \subseteq Nat
    /\ {DefaultWindow, FrameSize, ReadSize, StreamWindow} \cup PeerWindows \subseteq Nat \ {0}
    /\ PeerFrames \in [PeerWindows -> Nat \ {0}]

VARIABLES
    phase,     \* where the executor's goroutine is
    protocol,  \* what the handshake negotiates
    told,      \* the code of the terminal frame
    watch,     \* the goroutine of watchProfiledCancellation
    flow,      \* profiledSendFlow
    left,      \* what is left of the request's body
    body,      \* profiledHTTP2Body: pending, done; what the caller got
    toPeer, toClient,
    peer       \* the origin

local == <<protocol, flow, left, body, toPeer, toClient, peer>>

vars == <<phase, told, watch, local, proxyVars>>

\* What of Open's state is left alone by everything but Open, the clock and the context.
openVars == <<opening, late, afterFunc, deadline, opened>>

Over == phase \in {"done", "failed", "panicked"}

F(kind, n, last) == [kind |-> kind, n |-> n, last |-> last]

Least(S) == CHOOSE x \in S : \A y \in S : x <= y

\* The caller is given what the origin sent and no more, and no more is sent than there is.
TypeOK ==
    /\ ProxyTypeOK
    /\ phase \in {"dial", "proxy", "handshake", "open", "settings", "upload", "response", "body",
                  "done", "failed", "panicked"}
    /\ protocol \in Protocols
    /\ told \in {"none", "ok", "panic", "timeout", "cancelled", "upstream", "proxy", "internal"}
    /\ watch \in {"none", "on", "stopped", "fired"}
    /\ flow \in [connection : Int, stream : Int, initial : Nat, maxFrame : Nat \ {0}]
    /\ left \in 0..Upload
    /\ body \in [pending : Nat, done : BOOLEAN, got : 0..Download]
    /\ body.got + body.pending <= peer.sent
    /\ peer.received <= Upload - left

Init ==
    /\ phase = "dial" /\ protocol \in Protocols
    /\ ProxyInit /\ told = "none" /\ watch = "none"
    /\ flow = [connection |-> DefaultWindow, stream |-> DefaultWindow, initial |-> DefaultWindow,
               maxFrame |-> FrameSize]
    /\ left = Upload
    /\ body = [pending |-> 0, done |-> FALSE, got |-> 0]
    /\ toPeer = <<>> /\ toClient = <<>>
    /\ \E framed \in {TRUE, protocol = "h2"} :
        peer = [connection |-> DefaultWindow, stream |-> DefaultWindow, initial |-> DefaultWindow,
                unacked |-> <<>>, settled |-> FALSE, overrun |-> FALSE, asked |-> FALSE,
                received |-> 0, framed |-> framed, answer |-> "none", sent |-> 0,
                outConnection |-> DefaultWindow, outStream |-> DefaultWindow,
                controls |-> 0, faults |-> 0]

-----------------------------------------------------------------------------
(* The executor's goroutine.                                               *)

\* Returning runs executeWithDeployment's deferred cancel.
cancelled == IF context = "live" THEN "cancelled" ELSE context

\* The context's own end explains any error that comes after it.
mapHTTPError == IF context = "live" THEN "upstream" ELSE contextFailure

closeOnError(code) ==
    /\ phase' = "failed" /\ told' = code /\ context' = cancelled
    /\ conn' = (IF conn = "none" THEN "none" ELSE "closed")
    /\ watch' = (IF watch = "on" THEN "stopped" ELSE watch)
    /\ UNCHANGED <<local, openVars>>

\* The context cuts the step short, or the other side fails it.
FailsHere ==
    \/ context # "live" /\ UNCHANGED fault /\ closeOnError(mapHTTPError)
    \/ fault' = TRUE /\ closeOnError(mapHTTPError)

\* The profile is looked up, the host resolved to an address the policy lets pass, or the
\* proxy asked, and the request built; each can fail before anything is dialled.
doProfiledRequest ==
    /\ phase = "dial"
    /\ \/ closeOnError("internal") /\ UNCHANGED fault
       \/ FailsHere
       \/ /\ context = "live" /\ phase' = "handshake" /\ conn' = "open"
          /\ UNCHANGED <<told, watch, local, context, fault, openVars>>
       \/ /\ phase' = "proxy" /\ opening' = "profile"
          /\ UNCHANGED <<told, watch, local, context, late, conn, afterFunc, deadline, opened,
                         fault>>

profiledProxyDial == phase = "proxy" /\ Open /\ UNCHANGED <<phase, told, watch, local>>

\* Open's failure is an executionError already, which mapHTTPError keeps.
profiledProxyDialed ==
    /\ phase = "proxy" /\ opening = "over" /\ UNCHANGED fault
    /\ CASE opened = "open" ->
                phase' = "handshake" /\ UNCHANGED <<told, watch, local, context, conn, openVars>>
         [] opened = "instruction_invalid" -> closeOnError("internal")
         [] opened \in {"timeout", "cancelled"} -> closeOnError(opened)
         [] OTHER -> closeOnError("proxy")

\* Mutant: nobody watches the context.
upgradeProfiledTLSUnwatched ==
    /\ phase = "handshake"
    /\ \/ FailsHere
       \/ /\ context = "live" /\ phase' = "open"
          /\ UNCHANGED <<told, watch, local, proxyVars>>

\* The handshake minds the context itself; the watch starts once it is over.
upgradeProfiledTLS ==
    /\ phase = "handshake"
    /\ \/ FailsHere
       \/ /\ context = "live" /\ phase' = "open" /\ watch' = "on"
          /\ UNCHANGED <<told, local, proxyVars>>

\* doProfiledHTTP1 writes the request, body and all, and then reads.
doProfiledHTTP1 ==
    /\ phase = "open" /\ protocol = "http/1.1" /\ conn = "open"
    /\ phase' = "response" /\ left' = 0
    /\ toPeer' = toPeer \o <<F("headers", 0, Upload = 0)>>
                        \o (IF Upload = 0 THEN <<>> ELSE <<F("data", Upload, TRUE)>>)
    /\ UNCHANGED <<told, watch, protocol, flow, body, toClient, peer, proxyVars>>

\* initializeProfiledHTTP2 and the request's headers.
doProfiledHTTP2 ==
    /\ phase = "open" /\ protocol = "h2" /\ conn = "open"
    /\ phase' = (IF Upload = 0 THEN "response" ELSE "settings")
    /\ toPeer' = toPeer \o <<F("settings", StreamWindow, FALSE)>>
                        \o (IF ConnectionWindow = 0 THEN <<>>
                            ELSE <<F("window", ConnectionWindow, FALSE)>>)
                        \o <<F("headers", 0, Upload = 0)>>
    /\ UNCHANGED <<told, watch, protocol, flow, left, body, toClient, peer, proxyVars>>

available == Least({flow.connection, flow.stream, flow.maxFrame, left})

\* Mutant: only the stream's window holds data back.
writeDataPastConnection ==
    /\ phase = "upload" /\ conn = "open"
    /\ LET n == Least({flow.stream, flow.maxFrame, left}) IN
        /\ n > 0
        /\ toPeer' = Append(toPeer, F("data", n, n = left))
        /\ flow' = [flow EXCEPT !.connection = @ - n, !.stream = @ - n]
        /\ left' = left - n
        /\ phase' = (IF n = left THEN "response" ELSE "upload")
    /\ UNCHANGED <<told, watch, protocol, body, toClient, peer, proxyVars>>

writeProfiledHTTP2Data ==
    /\ phase = "upload" /\ conn = "open" /\ available > 0
    /\ toPeer' = Append(toPeer, F("data", available, available = left))
    /\ flow' = [flow EXCEPT !.connection = @ - available, !.stream = @ - available]
    /\ left' = left - available
    /\ phase' = (IF available = left THEN "response" ELSE "upload")
    /\ UNCHANGED <<told, watch, protocol, body, toClient, peer, proxyVars>>

\* The code tests available == 0: a window that SETTINGS have made negative is used to slice
\* the body.  The deferred cancel runs as the panic unwinds.
panic ==
    /\ phase = "upload" /\ available < 0
    /\ phase' = "panicked" /\ told' = "panic" /\ context' = cancelled
    /\ UNCHANGED <<watch, local, conn, openVars, fault>>

-----------------------------------------------------------------------------
(* Reading.  Every read takes the next frame, and fails once the           *)
(* connection is closed at either end.                                     *)

Waiting ==
    \/ phase \in {"settings", "response"}
    \/ phase = "upload" /\ available = 0
    \/ phase = "body" /\ body.pending = 0 /\ ~body.done

Reads(kind) == Waiting /\ conn = "open" /\ toClient # <<>> /\ Head(toClient).kind = kind

Writing == phase \in {"open", "settings", "upload"}

Acknowledged(kind) == toPeer' = Append(toPeer, F(kind, 0, FALSE))

readFrame ==
    /\ toClient' = Tail(toClient)
    /\ UNCHANGED <<told, watch, protocol, left, peer, proxyVars>>

\* applyProfiledPeerSettings while there is a body to send, acknowledgeProfiledSettings later.
applyProfiledPeerSettings ==
    /\ Reads("settings") /\ readFrame /\ Acknowledged("ack")
    /\ IF Writing THEN /\ flow' = [flow EXCEPT !.stream = @ + Head(toClient).n - flow.initial,
                                               !.initial = Head(toClient).n,
                                               !.maxFrame = PeerFrames[Head(toClient).n]]
                       /\ phase' = "upload"
                  ELSE UNCHANGED <<flow, phase>>
    /\ UNCHANGED body

\* Mutant: an update of the connection's window is taken for one of the stream's.
windowUpdateOfStream ==
    /\ \E kind \in {"window0", "window1"} : Reads(kind)
    /\ readFrame
    /\ flow' = IF Writing THEN [flow EXCEPT !.stream = @ + Head(toClient).n] ELSE flow
    /\ UNCHANGED <<phase, body, toPeer>>

applyProfiledWindowUpdate ==
    /\ \E kind \in {"window0", "window1"} : Reads(kind)
    /\ readFrame
    /\ flow' = IF ~Writing THEN flow
               ELSE IF Head(toClient).kind = "window0"
               THEN [flow EXCEPT !.connection = @ + Head(toClient).n]
               ELSE [flow EXCEPT !.stream = @ + Head(toClient).n]
    /\ UNCHANGED <<phase, body, toPeer>>

acknowledgeProfiledPing ==
    /\ Reads("ping") /\ readFrame /\ Acknowledged("pong")
    /\ UNCHANGED <<phase, flow, body>>

\* An acknowledgement of Straw's SETTINGS, and a 1xx response, are read and forgotten.
ignoreFrame ==
    /\ \E kind \in {"ack", "1xx"} : Reads(kind)
    /\ readFrame
    /\ UNCHANGED <<phase, flow, body, toPeer>>

\* The final headers end the upload, wherever it is, and start the body.
finalProfiledResponseHeaders ==
    /\ phase # "body" /\ Reads("headers") /\ readFrame
    /\ phase' = "body" /\ body' = [body EXCEPT !.done = Head(toClient).last]
    /\ UNCHANGED <<flow, toPeer>>

\* acceptData and acceptTrailers.
acceptData ==
    /\ phase = "body" /\ \E kind \in {"data", "headers"} : Reads(kind)
    /\ readFrame
    /\ body' = [body EXCEPT !.pending = Head(toClient).n, !.done = Head(toClient).last]
    /\ UNCHANGED <<phase, flow, toPeer>>

\* An HTTP/1.1 body without a length ends with the connection, whatever ended that.
readUntilEOF ==
    /\ phase = "body" /\ ~peer.framed /\ Reads("eof")
    /\ readFrame
    /\ body' = [body EXCEPT !.done = TRUE]
    /\ UNCHANGED <<phase, flow, toPeer>>

readFails ==
    /\ \/ phase = "open" /\ conn = "closed"
       \/ phase = "upload" /\ available > 0 /\ conn = "closed"
       \/ Waiting /\ conn = "closed"
       \/ /\ phase = "body" => peer.framed
          /\ \E kind \in {"rst", "goaway", "eof"} : Reads(kind)
    /\ closeOnError(mapHTTPError) /\ UNCHANGED fault

\* Mutant: the end of the stream is reported with bytes still pending.
readEOFEarly ==
    /\ phase = "body" /\ body.done
    /\ phase' = "done" /\ told' = "ok" /\ context' = cancelled /\ conn' = "closed"
    /\ watch' = (IF watch = "on" THEN "stopped" ELSE watch)
    /\ UNCHANGED <<local, openVars, fault>>

\* Read returns io.EOF: trailers and the end frame follow, and closeResponse.
readEOF ==
    /\ phase = "body" /\ body.pending = 0 /\ body.done
    /\ phase' = "done" /\ told' = "ok" /\ context' = cancelled /\ conn' = "closed"
    /\ watch' = (IF watch = "on" THEN "stopped" ELSE watch)
    /\ UNCHANGED <<local, openVars, fault>>

consumePending ==
    /\ phase = "body" /\ body.pending > 0
    /\ LET n == Least({ReadSize, body.pending}) IN
        body' = [body EXCEPT !.got = @ + n, !.pending = @ - n]
    /\ UNCHANGED <<phase, told, watch, protocol, flow, left, toPeer, toClient, peer, proxyVars>>

Executor ==
    \/ doProfiledRequest \/ profiledProxyDial \/ profiledProxyDialed
    \/ upgradeProfiledTLS \/ doProfiledHTTP1 \/ doProfiledHTTP2
    \/ writeProfiledHTTP2Data \/ panic
    \/ applyProfiledPeerSettings \/ applyProfiledWindowUpdate \/ acknowledgeProfiledPing
    \/ ignoreFrame \/ finalProfiledResponseHeaders \/ acceptData \/ readUntilEOF \/ readFails
    \/ readEOF \/ consumePending

-----------------------------------------------------------------------------
(* The context and its watchers.                                           *)

Elsewhere == UNCHANGED <<phase, told, watch, local>>

Interrupts == (DeadlinePasses \/ ContextEnds) /\ Elsewhere

closeOnCancel ==
    /\ watch = "on" /\ context # "live"
    /\ watch' = "fired" /\ conn' = "closed"
    /\ UNCHANGED <<phase, told, local, context, fault, openVars>>

Watchers == closeOnCancel \/ (closeAfterCancel /\ Elsewhere)

-----------------------------------------------------------------------------
(* The origin.                                                             *)

PeerOnly == UNCHANGED <<phase, told, watch, protocol, flow, left, body, proxyVars>>

Sends(frame) == toClient' = Append(toClient, frame)

HTTP2 == protocol = "h2"
Live == conn = "open" /\ peer.faults = 0 /\ phase \notin {"dial", "proxy", "handshake"}

\* A window the origin lowers counts from the acknowledgement on.
PeerReceives ==
    /\ Live /\ toPeer # <<>>
    /\ toPeer' = Tail(toPeer)
    /\ LET f == Head(toPeer) IN
        CASE f.kind = "settings" ->
                /\ peer' = [peer EXCEPT !.outStream = @ + f.n - DefaultWindow] /\ Sends(F("ack", 0, FALSE))
          [] f.kind = "window" ->
                peer' = [peer EXCEPT !.outConnection = @ + f.n] /\ UNCHANGED toClient
          [] f.kind = "headers" ->
                peer' = [peer EXCEPT !.asked = TRUE] /\ UNCHANGED toClient
          [] f.kind = "data" ->
                /\ peer' = [peer EXCEPT !.received = @ + f.n, !.connection = @ - f.n, !.stream = @ - f.n,
                                        !.overrun = @ \/ (HTTP2 /\ f.n > Least({peer.connection, peer.stream}))]
                /\ UNCHANGED toClient
          [] f.kind = "ack" ->
                /\ peer' = [peer EXCEPT !.stream = @ + Head(peer.unacked) - peer.initial,
                                        !.initial = Head(peer.unacked), !.unacked = Tail(@)]
                /\ UNCHANGED toClient
          [] OTHER -> UNCHANGED <<peer, toClient>>
    /\ PeerOnly

PeerSettings ==
    /\ Live /\ HTTP2 /\ peer.unacked = <<>> /\ (peer.settled => peer.controls < MaxControl)
    /\ \E w \in PeerWindows :
        /\ Sends(F("settings", w, FALSE))
        /\ peer' = [peer EXCEPT !.settled = TRUE, !.unacked = Append(@, w),
                                !.controls = IF peer.settled THEN @ + 1 ELSE @]
    /\ UNCHANGED toPeer /\ PeerOnly

\* Used-up windows are opened again, once no SETTINGS are under way.
PeerGrants ==
    /\ Live /\ HTTP2 /\ peer.settled /\ peer.unacked = <<>> /\ peer.received < Upload
    /\ \/ /\ peer.connection <= 0
          /\ Sends(F("window0", DefaultWindow, FALSE))
          /\ peer' = [peer EXCEPT !.connection = @ + DefaultWindow]
       \/ /\ peer.stream <= 0
          /\ Sends(F("window1", 1 - peer.stream, FALSE))
          /\ peer' = [peer EXCEPT !.stream = 1]
    /\ UNCHANGED toPeer /\ PeerOnly

PeerControls ==
    /\ Live /\ (HTTP2 => peer.settled) /\ peer.controls < MaxControl
    /\ \/ HTTP2 /\ Sends(F("ping", 0, FALSE))
       \/ peer.asked /\ peer.answer = "none" /\ Sends(F("1xx", 0, FALSE))
    /\ peer' = [peer EXCEPT !.controls = @ + 1]
    /\ UNCHANGED toPeer /\ PeerOnly

\* With HTTP/2 the answer may come before the request's body is in.
PeerAnswers ==
    /\ Live /\ peer.asked /\ peer.answer = "none"
    /\ IF HTTP2 THEN peer.settled ELSE peer.received = Upload
    /\ \E last \in {peer.framed /\ Download = 0, FALSE} :
        /\ Sends(F("headers", 0, last))
        /\ peer' = [peer EXCEPT !.answer = IF last THEN "over" ELSE "body"]
    /\ UNCHANGED toPeer /\ PeerOnly

\* An end that comes by itself is a frame of kind "headers": trailers, the last chunk, or the
\* end of the connection of a response without a length, which never ends otherwise.
PeerBody ==
    /\ Live /\ peer.answer = "body"
    /\ LET rest == Download - peer.sent
           n == IF HTTP2 THEN Least({peer.outConnection, peer.outStream, FrameSize, rest}) ELSE rest
       IN  /\ n > 0 \/ rest = 0
           /\ \E last \in {n = rest /\ (n = 0 \/ peer.framed), FALSE} :
                /\ n > 0 \/ last
                /\ Sends(F(IF n = 0 THEN "headers" ELSE "data", n, last))
                /\ peer' = [peer EXCEPT !.sent = @ + n, !.answer = IF last THEN "over" ELSE "body",
                                        !.outConnection = @ - n, !.outStream = @ - n]
    /\ UNCHANGED toPeer /\ PeerOnly

PeerFault ==
    /\ Live /\ peer.faults < MaxFaults
    /\ \E kind \in IF HTTP2 THEN {"rst", "goaway", "eof"} ELSE {"eof"} : Sends(F(kind, 0, TRUE))
    /\ peer' = [peer EXCEPT !.faults = @ + 1] /\ fault' = TRUE
    /\ UNCHANGED <<phase, told, watch, protocol, flow, left, body, toPeer, context, conn, openVars>>

Origin == PeerReceives \/ PeerSettings \/ PeerGrants \/ PeerAnswers \/ PeerBody

Next == Executor \/ Interrupts \/ Watchers \/ Origin \/ PeerControls \/ PeerFault

\* The executor's goroutine is in a call that returns when the other end lets it, and nothing
\* has interrupted it.
Blocked ==
    \/ phase \in {"dial", "handshake"} /\ context = "live"
    \/ phase = "proxy" /\ ProxyIsAwaited
    \/ (phase = "open" \/ Waiting \/ (phase = "upload" /\ available > 0)) /\ conn = "open"

\* Both goroutines run as far as they depend on nobody else.
Fairness == WF_vars(Executor /\ ~Blocked) /\ WF_vars(Watchers)

Spec == Init /\ [][Next]_vars /\ Fairness

\* The other end lets every call return.  The origin reads, sends its first SETTINGS, opens
\* used-up windows and answers a whole request; an early answer, pings, 1xx responses, later
\* SETTINGS, faults and cancellation need not happen.
OthersAnswer ==
    /\ WF_vars(Executor)
    /\ WF_vars(PeerReceives) /\ WF_vars(PeerSettings /\ ~peer.settled) /\ WF_vars(PeerGrants)
    /\ WF_vars(PeerAnswers /\ peer.received = Upload) /\ WF_vars(PeerBody)

-----------------------------------------------------------------------------
(* Properties.                                                             *)

\* writeProfiledHTTP2Data keeps two windows that the origin moves with frames still on their
\* way: no DATA frame is ever larger than what the origin has granted when it arrives.
UploadWithinWindows == ~peer.overrun

\* streamResponseBody reports success only for the whole body of a stream that the origin
\* ended, however the body was cut into frames and the frames into reads; of an HTTP/1.1 body
\* without a length it cannot know when the connection broke.
EndIsWhole ==
    phase = "done" => (peer.answer = "over" /\ body.got = Download) \/ (~peer.framed /\ fault)

\* mapHTTPError and phaseFailure: the origin or the proxy is blamed only for what it did.  A
\* cancellation or the deadline is told as such, whichever of the watch, Open's AfterFunc, the
\* connection's deadline and the context's timer interrupts the request, and wherever.
BlamedFairly == told \in {"upstream", "proxy"} => fault

\* watchProfiledCancellation and Open's AfterFunc: after a cancellation or the deadline the
\* request ends and its connection is closed, whatever the goroutine was blocked on, also when
\* it panicked, and though neither the proxy nor the origin ever answers.
CancellationReleases == context # "live" ~> (Over /\ conn # "open")

\* The response fits the windows announced for it, which are never opened again.
ResponseFits == Download <= StreamWindow /\ Download <= DefaultWindow + ConnectionWindow

\* A request whose response fits comes to an end without a deadline's help, if the proxy and
\* the origin answer: neither side waits for a window or a frame that the other has already
\* sent or will never send.
ExchangeEnds == ResponseFits /\ OthersAnswer => <>Over

\* docs/public/api/requests.md on inline responses: one within the configured bound is
\* returned.  A response that fits arrives, unless the request is interrupted or fails.
InlineResponseArrives == OthersAnswer => <>(phase = "done" \/ context # "live" \/ fault)

=============================================================================
