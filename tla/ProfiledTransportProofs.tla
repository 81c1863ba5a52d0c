----------------------- MODULE ProfiledTransportProofs -----------------------
(***************************************************************************)
(* Proofs about ProfiledTransport and UpstreamProxy, for bodies, windows,  *)
(* frames and reads of any size.                                           *)
(*                                                                         *)
(* Three inductive invariants, one on top of the other: who can have       *)
(* closed the connection (Control), how much of the response is on its way *)
(* (Arriving), and how much of the request is, and of the windows that the *)
(* origin opens meanwhile (Windows).  The last two add up what the frames  *)
(* between the two ends carry; the sums are ledgers, a running total for   *)
(* every frame, which need only exist.                                     *)
(***************************************************************************)
EXTENDS ProfiledTransport, TLAPS

PeerKinds == {"settings", "window", "headers", "data", "ack", "pong"}
ClientKinds == {"ack", "settings", "window0", "window1", "ping", "1xx", "headers", "data",
                "rst", "goaway", "eof"}

Frames(kinds) == [kind : kinds, n : Nat, last : BOOLEAN]

Peers ==
    [connection : Int, stream : Int, initial : Nat, unacked : Seq(PeerWindows),
     settled : BOOLEAN, overrun : BOOLEAN, asked : BOOLEAN, received : Nat,
     framed : BOOLEAN, answer : {"none", "body", "over"}, sent : Nat,
     outConnection : Int, outStream : Int, controls : Nat, faults : Nat]

Phases == {"dial", "proxy", "handshake", "open", "settings", "upload", "response", "body",
           "done", "failed", "panicked"}

LocalTypes ==
    /\ protocol \in Protocols
    /\ flow \in [connection : Int, stream : Int, initial : Nat, maxFrame : Nat \ {0}]
    /\ left \in 0..Upload
    /\ body \in [pending : Nat, done : BOOLEAN, got : Nat]
    /\ toPeer \in Seq(Frames(PeerKinds)) /\ toClient \in Seq(Frames(ClientKinds))
    /\ peer \in Peers

ControlTypes ==
    /\ ProxyTypeOK
    /\ phase \in Phases
    /\ told \in {"none", "ok", "panic", "timeout", "cancelled", "upstream", "proxy", "internal"}
    /\ watch \in {"none", "on", "stopped", "fired"}

Has(q, kinds) == \E i \in 1..Len(q) : q[i].kind \in kinds

\* SETTINGS of the origin that are not acknowledged: on their way to the client, or their
\* acknowledgement is on its way back.
Settings ==
    /\ Len(peer.unacked) <= 1
    /\ peer.unacked = <<>> => ~Has(toClient, {"settings"}) /\ ~Has(toPeer, {"ack"})
    /\ ~(Has(toClient, {"settings"}) /\ Has(toPeer, {"ack"}))
    /\ \A i, j \in 1..Len(toClient) :
        toClient[i].kind = "settings" /\ toClient[j].kind = "settings" => i = j
    /\ \A i, j \in 1..Len(toPeer) : toPeer[i].kind = "ack" /\ toPeer[j].kind = "ack" => i = j
    /\ \A i \in 1..Len(toClient) :
        toClient[i].kind = "settings" => toClient[i].n = Head(peer.unacked)

Fresh == phase \in {"dial", "proxy", "handshake", "open"} => toPeer = <<>> /\ left = Upload

Local == LocalTypes /\ Settings /\ Fresh

Types == Local /\ ControlTypes

-----------------------------------------------------------------------------
(* Who closed the connection, and why.                                     *)

Handshaking == opening \in {"tls", "connect", "reply", "finish"}

\* While Open runs only its AfterFunc closes the connection, and only for the context.
Opening ==
    /\ opening \in {"idle", "profile", "dial"} => afterFunc = "none" /\ ~deadline /\ opened = "none"
    /\ opening \in {"profile", "dial"} => conn = "none"
    /\ Handshaking =>
        /\ opened = "none"
        /\ \/ conn = "open" /\ afterFunc = "armed"
           \/ conn = "closed" /\ afterFunc = "ran" /\ context # "live"
    /\ opening = "over" =>
        /\ opened # "none" /\ afterFunc # "armed"
        /\ opened \in ProxyFacts => fault

\* Afterwards only the watch does, again for the context.
Carrying ==
    /\ phase = "dial" => opening = "idle" /\ conn = "none"
    /\ phase \in {"dial", "proxy", "handshake"} => watch = "none"
    /\ phase = "proxy" => opening # "idle" /\ (opened = "open" => conn = "open")
    /\ opening \in {"profile", "dial"} \/ Handshaking => phase = "proxy"
    /\ phase \notin {"dial", "proxy"} /\ ~Over =>
        /\ opening = "over" => opened = "open"
        /\ conn = "open" \/ (conn = "closed" /\ context # "live")

Failing == Has(toClient, {"rst", "goaway", "eof"}) => fault

Control == Opening /\ HandedOverOrClosed /\ Carrying /\ Failing /\ BlamedFairly

-----------------------------------------------------------------------------
(* What is under way.                                                      *)

Amount(f, kind) == IF f.kind = kind THEN f.n ELSE 0

\* The running total of what the frames of q of one kind carry.
Counts(q, kind, led) ==
    /\ led \in [0..Len(q) -> Int]
    /\ \A i \in 1..Len(q) : led[i] = led[i - 1] + Amount(q[i], kind)
    /\ \A i, j \in 0..Len(q) : i <= j => led[i] <= led[j]

\* ... and that it leads from a to b.
Sums(q, kind, a, b) == \E led : Counts(q, kind, led) /\ led[0] = a /\ led[Len(q)] = b

\* The response.  What the caller has, and what is between the origin and it, is what the
\* origin sent, and the frame that ends the stream is the last that carries any of it.
Ends(f) == f.kind \in {"data", "headers"} /\ f.last

Delivers(led) ==
    /\ Counts(toClient, "data", led)
    /\ led[0] = body.got + body.pending /\ led[Len(toClient)] = peer.sent
    /\ \A i \in 1..Len(toClient) :
        /\ toClient[i].kind = "headers" => toClient[i].n = 0
        /\ Ends(toClient[i]) => peer.answer = "over" /\ led[i] = peer.sent

\* The end of the connection passes for the body's.
Cut == ~peer.framed /\ fault

Arriving ==
    /\ phase \notin {"body", "done", "failed"} => body.pending = 0 /\ ~body.done
    /\ peer.sent <= Download /\ (peer.answer = "over" => peer.sent = Download)
    /\ body.done => Cut \/ (peer.answer = "over" /\ body.got + body.pending = peer.sent)
    /\ phase = "done" => body.done /\ body.pending = 0
    /\ \E led : Delivers(led)

\* How much of the request the origin will have let through by the time it has taken the
\* first i frames: an acknowledgement among them moves the stream's window.
Limit(i) ==
    peer.stream + peer.received
        + (IF \E j \in 1..i : toPeer[j].kind = "ack" THEN Head(peer.unacked) - peer.initial ELSE 0)

\* The request.  Every DATA frame on its way fits the windows as they will be on its arrival.
Sent(led) ==
    /\ Counts(toPeer, "data", led)
    /\ led[0] = peer.received /\ led[Len(toPeer)] = Upload - left
    /\ HTTP2 => \A i \in 1..Len(toPeer) : toPeer[i].kind = "data" =>
                    led[i] <= Limit(i) /\ led[i] <= peer.connection + peer.received

\* Until the upload is over, the windows the client keeps and the updates that are on their
\* way to it make up the origin's.
Uploads == phase \in {"dial", "proxy", "handshake"} \/ Writing

Granted ==
    /\ flow.initial = (IF Has(toPeer, {"ack"}) THEN Head(peer.unacked) ELSE peer.initial)
    /\ Sums(toClient, "window0", flow.connection + Upload - left, peer.connection + peer.received)
    /\ Sums(toClient, "window1", flow.stream + Upload - left, Limit(Len(toPeer)))

Windows ==
    /\ \E led : Sent(led)
    /\ HTTP2 /\ Uploads => Granted
    /\ UploadWithinWindows

-----------------------------------------------------------------------------
(* Sequences of frames, and the least of a few numbers.                    *)

LEMMA AppendFacts ==
    ASSUME NEW S, NEW q \in Seq(S), NEW f \in S
    PROVE  /\ Append(q, f) \in Seq(S) /\ Len(q) \in Nat /\ Len(Append(q, f)) = Len(q) + 1
           /\ \A i \in 1..Len(q) : Append(q, f)[i] = q[i]
           /\ Append(q, f)[Len(q) + 1] = f
OBVIOUS

LEMMA TailFacts ==
    ASSUME NEW S, NEW q \in Seq(S), q # <<>>
    PROVE  /\ Head(q) \in S /\ Head(q) = q[1]
           /\ Tail(q) \in Seq(S) /\ Len(q) \in Nat \ {0} /\ Len(Tail(q)) = Len(q) - 1
           /\ \A i \in 1..Len(q) - 1 : Tail(q)[i] = q[i + 1]
OBVIOUS

LEMMA TwoFrames ==
    ASSUME NEW x, NEW y
    PROVE  <<x>> \o <<y>> = <<x, y>>
<1>1. <<x>> \in Seq({x, y}) /\ <<y>> \in Seq({x, y}) /\ <<x, y>> \in Seq({x, y})
  OBVIOUS
<1>2. PICK s : s = <<x>> \o <<y>>
  BY Zenon
<1>3. s \in Seq({x, y}) /\ Len(s) = 2
  BY <1>1, <1>2
<1>4. s[1] = x
  BY <1>1, <1>2
<1>5. s[2] = y
  BY <1>1, <1>2
<1>6. s = <<x, y>>
  BY <1>1, <1>3, <1>4, <1>5
<1> QED BY Zenon, <1>2, <1>6

LEMMA ThreeFrames ==
    ASSUME NEW x, NEW y, NEW z
    PROVE  <<x, y>> \o <<z>> = <<x, y, z>>
<1>1. <<x, y>> \in Seq({x, y, z}) /\ <<z>> \in Seq({x, y, z}) /\ <<x, y, z>> \in Seq({x, y, z})
  OBVIOUS
<1>2. PICK s : s = <<x, y>> \o <<z>>
  BY Zenon
<1>3. s \in Seq({x, y, z}) /\ Len(s) = 3
  BY <1>1, <1>2
<1>4. s[1] = x
  BY <1>1, <1>2
<1>5. s[2] = y
  BY <1>1, <1>2
<1>6. s[3] = z
  BY <1>1, <1>2
<1>7. s = <<x, y, z>>
  BY <1>1, <1>3, <1>4, <1>5, <1>6
<1> QED BY Zenon, <1>2, <1>7

LEMMA HasAppend ==
    ASSUME NEW S, NEW q \in Seq(S), NEW f \in S, NEW kinds
    PROVE  Has(Append(q, f), kinds) <=> Has(q, kinds) \/ f.kind \in kinds
<1>1. Len(q) \in Nat /\ Len(Append(q, f)) = Len(q) + 1
      /\ (\A i \in 1..Len(q) : Append(q, f)[i] = q[i]) /\ Append(q, f)[Len(q) + 1] = f
  BY AppendFacts
<1> QED BY <1>1 DEF Has

LEMMA HasTail ==
    ASSUME NEW S, NEW q \in Seq(S), q # <<>>, NEW kinds
    PROVE  Has(q, kinds) <=> Has(Tail(q), kinds) \/ Head(q).kind \in kinds
<1>1. Head(q) = q[1] /\ Len(q) \in Nat \ {0} /\ Len(Tail(q)) = Len(q) - 1
      /\ (\A i \in 1..Len(q) - 1 : Tail(q)[i] = q[i + 1])
  BY Zenon, TailFacts
<1>2. ASSUME Has(q, kinds), Head(q).kind \notin kinds PROVE Has(Tail(q), kinds)
  <2>1. PICK i \in 1..Len(q) : q[i].kind \in kinds
    BY Zenon, <1>2 DEF Has
  <2>2. i # 1 /\ i - 1 \in 1..Len(Tail(q)) /\ Tail(q)[i - 1] = q[i]
    BY <1>1, <1>2, <2>1
  <2> QED BY Zenon, <2>1, <2>2 DEF Has
<1>3. ASSUME Has(Tail(q), kinds) PROVE Has(q, kinds)
  <2>1. PICK i \in 1..Len(Tail(q)) : Tail(q)[i].kind \in kinds
    BY Zenon, <1>3 DEF Has
  <2>2. i + 1 \in 1..Len(q) /\ q[i + 1] = Tail(q)[i]
    BY <1>1, <2>1
  <2> QED BY Zenon, <2>1, <2>2 DEF Has
<1>4. Head(q).kind \in kinds => Has(q, kinds)
  BY <1>1 DEF Has
<1> QED BY Zenon, <1>2, <1>3, <1>4

LEMMA Least2 ==
    ASSUME NEW a \in Int, NEW b \in Int
    PROVE  Least({a, b}) \in {a, b} /\ Least({a, b}) <= a /\ Least({a, b}) <= b
<1>1. \E x \in {a, b} : \A y \in {a, b} : x <= y
  OBVIOUS
<1>2. Least({a, b}) \in {a, b} /\ \A y \in {a, b} : Least({a, b}) <= y
  BY Zenon, <1>1 DEF Least
<1> QED BY Zenon, <1>2

LEMMA Least4 ==
    ASSUME NEW a \in Int, NEW b \in Int, NEW c \in Int, NEW d \in Int
    PROVE  LET m == Least({a, b, c, d})
           IN  m \in {a, b, c, d} /\ m \in Int /\ m <= a /\ m <= b /\ m <= c /\ m <= d
<1>1. \E x \in {a, b, c, d} : \A y \in {a, b, c, d} : x <= y
  OBVIOUS
<1>2. Least({a, b, c, d}) \in {a, b, c, d} /\ \A y \in {a, b, c, d} : Least({a, b, c, d}) <= y
  BY Zenon, <1>1 DEF Least
<1> QED BY Zenon, <1>2

LEMMA AvailableFacts ==
    ASSUME LocalTypes
    PROVE  /\ available \in Int /\ available <= left
           /\ available <= flow.connection /\ available <= flow.stream
<1>1. flow.connection \in Int /\ flow.stream \in Int /\ flow.maxFrame \in Int /\ left \in Int
  BY ProfileAssumption DEF LocalTypes
<1> QED BY Zenon, <1>1, Least4 DEF available

-----------------------------------------------------------------------------
(* Ledgers.                                                                *)

LEMMA AmountType ==
    ASSUME NEW kinds, NEW f \in Frames(kinds), NEW kind
    PROVE  Amount(f, kind) \in Nat
BY Zenon DEF Frames, Amount

LEMMA CountsAppend ==
    ASSUME NEW S, NEW q \in Seq(S), NEW f \in S, NEW kind, NEW led, Counts(q, kind, led),
           Amount(f, kind) \in Nat
    PROVE  \E new : /\ Counts(Append(q, f), kind, new)
                    /\ \A i \in 0..Len(q) : new[i] = led[i]
                    /\ new[Len(q) + 1] = led[Len(q)] + Amount(f, kind)
<1>1. Len(q) \in Nat /\ Len(Append(q, f)) = Len(q) + 1
      /\ (\A i \in 1..Len(q) : Append(q, f)[i] = q[i]) /\ Append(q, f)[Len(q) + 1] = f
  BY AppendFacts
<1>2. PICK new : new = [i \in 0..Len(q) + 1 |->
                          IF i = Len(q) + 1 THEN led[Len(q)] + Amount(f, kind) ELSE led[i]]
  BY Zenon
<1>3. led \in [0..Len(q) -> Int] /\ (\A i \in 1..Len(q) : led[i] = led[i - 1] + Amount(q[i], kind))
      /\ (\A i, j \in 0..Len(q) : i <= j => led[i] <= led[j])
  BY Zenon DEF Counts
<1>4. (\A i \in 0..Len(q) : new[i] = led[i]) /\ new[Len(q) + 1] = led[Len(q)] + Amount(f, kind)
  BY <1>1, <1>2
<1>5. new \in [0..Len(Append(q, f)) -> Int]
  BY <1>1, <1>2, <1>3
<1>6. \A i \in 1..Len(Append(q, f)) : new[i] = new[i - 1] + Amount(Append(q, f)[i], kind)
  <2> SUFFICES ASSUME NEW i \in 1..Len(q) + 1
               PROVE  new[i] = new[i - 1] + Amount(Append(q, f)[i], kind)
    BY Zenon, <1>1
  <2>1. CASE i = Len(q) + 1
    BY <1>1, <1>4, <2>1
  <2>2. CASE i \in 1..Len(q)
    BY SMTT(40), <1>1, <1>3, <1>4, <2>2
  <2> QED BY <1>1, <2>1, <2>2
<1>7. \A i, j \in 0..Len(Append(q, f)) : i <= j => new[i] <= new[j]
  <2>1. \A i \in 0..Len(q) : led[i] <= led[Len(q)] /\ led[i] \in Int
    BY <1>1, <1>3
  <2> QED BY SMTT(40), <1>1, <1>3, <1>4, <2>1
<1> QED BY Zenon, <1>4, <1>5, <1>6, <1>7 DEF Counts

LEMMA CountsTail ==
    ASSUME NEW S, NEW q \in Seq(S), q # <<>>, NEW kind, NEW led, Counts(q, kind, led)
    PROVE  \E new : /\ Counts(Tail(q), kind, new)
                    /\ \A i \in 0..Len(q) - 1 : new[i] = led[i + 1]
                    /\ led[1] = led[0] + Amount(Head(q), kind)
<1>1. Head(q) = q[1] /\ Len(q) \in Nat \ {0} /\ Len(Tail(q)) = Len(q) - 1
      /\ (\A i \in 1..Len(q) - 1 : Tail(q)[i] = q[i + 1])
  BY Zenon, TailFacts
<1>2. PICK new : new = [i \in 0..Len(q) - 1 |-> led[i + 1]]
  BY Zenon
<1>3. led \in [0..Len(q) -> Int] /\ (\A i \in 1..Len(q) : led[i] = led[i - 1] + Amount(q[i], kind))
      /\ (\A i, j \in 0..Len(q) : i <= j => led[i] <= led[j])
  BY Zenon DEF Counts
<1>4. new \in [0..Len(Tail(q)) -> Int]
  BY <1>1, <1>2, <1>3
<1>5. \A i \in 1..Len(Tail(q)) : new[i] = new[i - 1] + Amount(Tail(q)[i], kind)
  <2> SUFFICES ASSUME NEW i \in 1..Len(q) - 1
               PROVE  new[i] = new[i - 1] + Amount(Tail(q)[i], kind)
    BY Zenon, <1>1
  <2>1. i + 1 \in 1..Len(q) /\ led[i + 1] = led[(i + 1) - 1] + Amount(q[i + 1], kind)
    BY <1>1, <1>3
  <2>2. new[i] = led[i + 1] /\ new[i - 1] = led[i] /\ (i + 1) - 1 = i
    BY <1>1, <1>2
  <2> QED BY Zenon, <1>1, <2>1, <2>2
<1>6. \A i, j \in 0..Len(Tail(q)) : i <= j => new[i] <= new[j]
  BY <1>1, <1>2, <1>3
<1>7. led[1] = led[0] + Amount(Head(q), kind)
  BY <1>1, <1>3
<1> QED BY Zenon, <1>2, <1>4, <1>5, <1>6, <1>7 DEF Counts

LEMMA SumsEmpty ==
    ASSUME NEW kind, NEW a \in Int
    PROVE  Sums(<<>>, kind, a, a)
<1>1. PICK led : led = [i \in 0..0 |-> a]
  BY Zenon
<1>2. Len(<<>>) = 0 /\ led \in [0..0 -> Int] /\ led[0] = a
  BY <1>1
<1>3. Counts(<<>>, kind, led)
  BY <1>2 DEF Counts
<1> QED BY Zenon, <1>2, <1>3 DEF Sums

LEMMA SumsOrder ==
    ASSUME NEW S, NEW q \in Seq(S), NEW kind, NEW a, NEW b, Sums(q, kind, a, b)
    PROVE  a \in Int /\ b \in Int /\ a <= b
<1>1. PICK led : Counts(q, kind, led) /\ led[0] = a /\ led[Len(q)] = b
  BY Zenon DEF Sums
<1>2. Len(q) \in Nat /\ 0 \in 0..Len(q) /\ Len(q) \in 0..Len(q)
  OBVIOUS
<1> QED BY <1>1, <1>2 DEF Counts

LEMMA SumsAppend ==
    ASSUME NEW kinds, NEW q \in Seq(Frames(kinds)), NEW f \in Frames(kinds), NEW kind,
           NEW a, NEW b, Sums(q, kind, a, b)
    PROVE  Sums(Append(q, f), kind, a, b + Amount(f, kind))
<1>1. PICK led : Counts(q, kind, led) /\ led[0] = a /\ led[Len(q)] = b
  BY Zenon DEF Sums
<1>2. PICK new : /\ Counts(Append(q, f), kind, new) /\ \A i \in 0..Len(q) : new[i] = led[i]
                 /\ new[Len(q) + 1] = led[Len(q)] + Amount(f, kind)
  BY <1>1, AmountType, CountsAppend
<1>3. Len(q) \in Nat /\ 0 \in 0..Len(q) /\ Len(Append(q, f)) = Len(q) + 1
  BY AppendFacts
<1> QED BY Zenon, <1>1, <1>2, <1>3 DEF Sums

LEMMA SumsTail ==
    ASSUME NEW kinds, NEW q \in Seq(Frames(kinds)), q # <<>>, NEW kind, NEW a, NEW b,
           Sums(q, kind, a, b)
    PROVE  Sums(Tail(q), kind, a + Amount(Head(q), kind), b)
<1>1. PICK led : Counts(q, kind, led) /\ led[0] = a /\ led[Len(q)] = b
  BY Zenon DEF Sums
<1>2. PICK new : /\ Counts(Tail(q), kind, new) /\ \A i \in 0..Len(q) - 1 : new[i] = led[i + 1]
                 /\ led[1] = led[0] + Amount(Head(q), kind)
  BY Zenon, <1>1, CountsTail
<1>3. Len(q) \in Nat \ {0} /\ Len(Tail(q)) = Len(q) - 1
  BY Zenon, TailFacts
<1>4. new[0] = a + Amount(Head(q), kind) /\ new[Len(Tail(q))] = b
  BY <1>1, <1>2, <1>3
<1> QED BY Zenon, <1>2, <1>4 DEF Sums

LEMMA SumsShift ==
    ASSUME NEW kinds, NEW q \in Seq(Frames(kinds)), NEW kind, NEW a, NEW b,
           Sums(q, kind, a, b), NEW k \in Int
    PROVE  Sums(q, kind, a + k, b + k)
<1>1. PICK led : Counts(q, kind, led) /\ led[0] = a /\ led[Len(q)] = b
  BY Zenon DEF Sums
<1>2. Len(q) \in Nat
  OBVIOUS
<1>3. PICK new : new = [i \in 0..Len(q) |-> led[i] + k]
  BY Zenon
<1>4. led \in [0..Len(q) -> Int] /\ (\A i \in 1..Len(q) : led[i] = led[i - 1] + Amount(q[i], kind))
      /\ (\A i, j \in 0..Len(q) : i <= j => led[i] <= led[j])
  BY Zenon, <1>1 DEF Counts
<1>5. \A i \in 1..Len(q) : new[i] = new[i - 1] + Amount(q[i], kind)
  <2> SUFFICES ASSUME NEW i \in 1..Len(q) PROVE new[i] = new[i - 1] + Amount(q[i], kind)
    BY Zenon
  <2>1. Amount(q[i], kind) \in Nat
    BY AmountType
  <2>2. led[i] = led[i - 1] + Amount(q[i], kind) /\ led[i - 1] \in Int
    BY <1>2, <1>4
  <2> QED BY <1>2, <1>3, <2>1, <2>2
<1>6. new \in [0..Len(q) -> Int] /\ \A i \in 0..Len(q) : led[i] \in Int /\ new[i] = led[i] + k
  BY <1>2, <1>3, <1>4
<1>7. \A i, j \in 0..Len(q) : i <= j => new[i] <= new[j]
  BY <1>2, <1>4, <1>6
<1>8. Counts(q, kind, new)
  BY Zenon, <1>5, <1>6, <1>7 DEF Counts
<1> QED BY <1>1, <1>2, <1>6, <1>8 DEF Sums

-----------------------------------------------------------------------------
(* Types, and SETTINGS under way.                                          *)

\* A frame to the origin that acknowledges nothing, and one to the client that sets nothing,
\* leave SETTINGS where they were; so does taking any other frame.
LEMMA SettingsKept ==
    ASSUME LocalTypes, Settings, LocalTypes', peer'.unacked = peer.unacked,
           \/ toPeer' = toPeer
           \/ \E f \in Frames(PeerKinds) : f.kind # "ack" /\ toPeer' = Append(toPeer, f)
           \/ toPeer # <<>> /\ toPeer' = Tail(toPeer) /\ Head(toPeer).kind # "ack",
           \/ toClient' = toClient
           \/ \E f \in Frames(ClientKinds) : f.kind # "settings" /\ toClient' = Append(toClient, f)
           \/ toClient # <<>> /\ toClient' = Tail(toClient) /\ Head(toClient).kind # "settings"
    PROVE  Settings' /\ (Has(toPeer, {"ack"})' <=> Has(toPeer, {"ack"}))
<1>0. toPeer \in Seq(Frames(PeerKinds)) /\ toClient \in Seq(Frames(ClientKinds))
  BY Zenon DEF LocalTypes
<1>1. /\ Has(toPeer, {"ack"})' <=> Has(toPeer, {"ack"})
      /\ \A i, j \in 1..Len(toPeer') : toPeer'[i].kind = "ack" /\ toPeer'[j].kind = "ack" => i = j
  <2>1. CASE toPeer' = toPeer
    BY Zenon, <2>1 DEF Settings, Has
  <2>2. ASSUME NEW f \in Frames(PeerKinds), f.kind # "ack", toPeer' = Append(toPeer, f)
        PROVE  <1>1!:
    <3>1. Len(toPeer) \in Nat /\ Len(toPeer') = Len(toPeer) + 1
          /\ (\A i \in 1..Len(toPeer) : toPeer'[i] = toPeer[i]) /\ toPeer'[Len(toPeer) + 1] = f
      BY <1>0, <2>2, AppendFacts
    <3>2. \A i \in 1..Len(toPeer') : toPeer'[i].kind = "ack" => i \in 1..Len(toPeer) /\ toPeer[i].kind = "ack"
      BY <2>2, <3>1
    <3> QED BY <3>1, <3>2 DEF Settings, Has
  <2>3. CASE toPeer # <<>> /\ toPeer' = Tail(toPeer) /\ Head(toPeer).kind # "ack"
    <3>1. Head(toPeer) = toPeer[1] /\ Len(toPeer) \in Nat \ {0} /\ Len(toPeer') = Len(toPeer) - 1
          /\ (\A i \in 1..Len(toPeer) - 1 : toPeer'[i] = toPeer[i + 1])
      BY Zenon, <1>0, <2>3, TailFacts
    <3>2. \A i \in 1..Len(toPeer') : i + 1 \in 1..Len(toPeer) /\ toPeer'[i] = toPeer[i + 1]
      BY <3>1
    <3>3. \A i, j \in 1..Len(toPeer') : toPeer'[i].kind = "ack" /\ toPeer'[j].kind = "ack" => i = j
      <4> SUFFICES ASSUME NEW i \in 1..Len(toPeer'), NEW j \in 1..Len(toPeer'),
                          toPeer'[i].kind = "ack", toPeer'[j].kind = "ack"
                   PROVE  i = j
        BY Zenon
      <4>1. i + 1 \in 1..Len(toPeer) /\ j + 1 \in 1..Len(toPeer)
            /\ toPeer[i + 1].kind = "ack" /\ toPeer[j + 1].kind = "ack"
        BY Zenon, <3>2
      <4>2. i + 1 = j + 1
        BY Zenon, <4>1 DEF Settings
      <4> QED BY <3>1, <4>2
    <3>4. Has(toPeer', {"ack"}) <=> Has(toPeer, {"ack"})
      BY Zenon, <1>0, <2>3, HasTail
    <3> QED BY Zenon, <3>3, <3>4 DEF Has
  <2> QED BY Zenon, <2>1, <2>2, <2>3
<1>2. /\ Has(toClient, {"settings"})' <=> Has(toClient, {"settings"})
      /\ \A i, j \in 1..Len(toClient') :
            toClient'[i].kind = "settings" /\ toClient'[j].kind = "settings" => i = j
      /\ \A i \in 1..Len(toClient') : toClient'[i].kind = "settings" => toClient'[i].n = Head(peer.unacked)
  <2>1. CASE toClient' = toClient
    BY Zenon, <2>1 DEF Settings, Has
  <2>2. ASSUME NEW f \in Frames(ClientKinds), f.kind # "settings", toClient' = Append(toClient, f)
        PROVE  <1>2!:
    <3>1. Len(toClient) \in Nat /\ Len(toClient') = Len(toClient) + 1
          /\ (\A i \in 1..Len(toClient) : toClient'[i] = toClient[i]) /\ toClient'[Len(toClient) + 1] = f
      BY <1>0, <2>2, AppendFacts
    <3>2. \A i \in 1..Len(toClient') : toClient'[i].kind = "settings" =>
            i \in 1..Len(toClient) /\ toClient'[i] = toClient[i]
      BY <2>2, <3>1
    <3> QED BY SMTT(40), <3>1, <3>2 DEF Settings, Has
  <2>3. CASE toClient # <<>> /\ toClient' = Tail(toClient) /\ Head(toClient).kind # "settings"
    <3>1. Head(toClient) = toClient[1] /\ Len(toClient) \in Nat \ {0} /\ Len(toClient') = Len(toClient) - 1
          /\ (\A i \in 1..Len(toClient) - 1 : toClient'[i] = toClient[i + 1])
      BY Zenon, <1>0, <2>3, TailFacts
    <3>2. \A i \in 1..Len(toClient') : i + 1 \in 1..Len(toClient) /\ toClient'[i] = toClient[i + 1]
      BY <3>1
    <3>3. \A i, j \in 1..Len(toClient') :
            toClient'[i].kind = "settings" /\ toClient'[j].kind = "settings" => i = j
      <4> SUFFICES ASSUME NEW i \in 1..Len(toClient'), NEW j \in 1..Len(toClient'),
                          toClient'[i].kind = "settings", toClient'[j].kind = "settings"
                   PROVE  i = j
        BY Zenon
      <4>1. i + 1 \in 1..Len(toClient) /\ j + 1 \in 1..Len(toClient)
            /\ toClient[i + 1].kind = "settings" /\ toClient[j + 1].kind = "settings"
        BY Zenon, <3>2
      <4>2. i + 1 = j + 1
        BY Zenon, <4>1 DEF Settings
      <4> QED BY <3>1, <4>2
    <3>4. Has(toClient', {"settings"}) <=> Has(toClient, {"settings"})
      BY Zenon, <1>0, <2>3, HasTail
    <3> QED BY Zenon, <3>2, <3>3, <3>4 DEF Settings, Has
  <2> QED BY Zenon, <2>1, <2>2, <2>3
<1> QED BY Zenon, <1>1, <1>2 DEF Settings

LEMMA LocalSame ==
    ASSUME Local, UNCHANGED local,
           phase' \in {"dial", "proxy", "handshake", "open"} =>
               phase \in {"dial", "proxy", "handshake", "open"}
    PROVE  Local'
<1>1. LocalTypes' /\ Settings'
  BY Zenon DEF Local, LocalTypes, Settings, Has, local
<1>2. Fresh'
  BY Zenon DEF Local, Fresh, local
<1> QED BY Zenon, <1>1, <1>2 DEF Local

\* The request's first frames: none of them an acknowledgement.
LEMMA OpenedFrames ==
    ASSUME Local, phase = "open"
    PROVE  /\ doProfiledHTTP1 =>
                LET headers == F("headers", 0, Upload = 0)
                    data == F("data", Upload, TRUE)
                IN  toPeer' = IF Upload = 0 THEN <<headers>> ELSE <<headers, data>>
           /\ doProfiledHTTP2 =>
                LET settings == F("settings", StreamWindow, FALSE)
                    window == F("window", ConnectionWindow, FALSE)
                    headers == F("headers", 0, Upload = 0)
                IN  toPeer' = IF ConnectionWindow = 0 THEN <<settings, headers>>
                                                      ELSE <<settings, window, headers>>
<1>1. toPeer = <<>>
  BY Zenon DEF Local, Fresh
<1>2. \A x, y, z : /\ <<>> \o <<x>> \o <<>> = <<x>> /\ <<>> \o <<x>> \o <<y>> = <<x, y>>
                   /\ <<>> \o <<x>> \o <<>> \o <<z>> = <<x, z>>
                   /\ <<>> \o <<x>> \o <<y>> \o <<z>> = <<x, y, z>>
  <2> SUFFICES ASSUME NEW x, NEW y, NEW z
               PROVE  /\ <<>> \o <<x>> \o <<>> = <<x>> /\ <<>> \o <<x>> \o <<y>> = <<x, y>>
                      /\ <<>> \o <<x>> \o <<>> \o <<z>> = <<x, z>>
                      /\ <<>> \o <<x>> \o <<y>> \o <<z>> = <<x, y, z>>
    BY Zenon
  <2>1. <<>> \o <<x>> = <<x>>
    OBVIOUS
  <2>2. <<x>> \o <<>> = <<x>>
    OBVIOUS
  <2>3. <<x>> \o <<y>> = <<x, y>> /\ <<x>> \o <<z>> = <<x, z>>
    BY Zenon, TwoFrames
  <2>4. <<x, y>> \o <<z>> = <<x, y, z>>
    BY Zenon, ThreeFrames
  <2> QED BY Zenon, <2>1, <2>2, <2>3, <2>4
<1>3. ASSUME doProfiledHTTP1, NEW headers, NEW data,
             headers = F("headers", 0, Upload = 0), data = F("data", Upload, TRUE)
      PROVE  toPeer' = IF Upload = 0 THEN <<headers>> ELSE <<headers, data>>
  <2>1. toPeer' = <<>> \o <<headers>> \o (IF Upload = 0 THEN <<>> ELSE <<data>>)
    BY Zenon, <1>1, <1>3 DEF doProfiledHTTP1
  <2>2. CASE Upload = 0
    BY Zenon, <1>2, <2>1, <2>2
  <2>3. CASE Upload # 0
    BY Zenon, <1>2, <2>1, <2>3
  <2> QED BY Zenon, <2>2, <2>3
<1>4. ASSUME doProfiledHTTP2, NEW settings, NEW window, NEW headers,
             settings = F("settings", StreamWindow, FALSE),
             window = F("window", ConnectionWindow, FALSE), headers = F("headers", 0, Upload = 0)
      PROVE  toPeer' = IF ConnectionWindow = 0 THEN <<settings, headers>>
                                               ELSE <<settings, window, headers>>
  <2>1. toPeer' = <<>> \o <<settings>> \o (IF ConnectionWindow = 0 THEN <<>> ELSE <<window>>)
                       \o <<headers>>
    BY Zenon, <1>1, <1>4 DEF doProfiledHTTP2
  <2>2. CASE ConnectionWindow = 0
    BY Zenon, <1>2, <2>1, <2>2
  <2>3. CASE ConnectionWindow # 0
    BY Zenon, <1>2, <2>1, <2>3
  <2> QED BY Zenon, <2>2, <2>3
<1> QED BY Zenon, <1>3, <1>4

LEMMA HTTP1Local ==
    ASSUME Local, doProfiledHTTP1
    PROVE  Local' /\ ~Has(toPeer', {"ack"})
<1>1. PICK headers, data : headers = F("headers", 0, Upload = 0) /\ data = F("data", Upload, TRUE)
  BY Zenon
<1>2. headers \in Frames(PeerKinds) /\ data \in Frames(PeerKinds)
      /\ headers.kind = "headers" /\ data.kind = "data"
  BY Zenon, <1>1, ProfileAssumption DEF F, Frames, PeerKinds
<1>3. toPeer' = <<headers>> \/ toPeer' = <<headers, data>>
  BY Zenon, <1>1, OpenedFrames DEF doProfiledHTTP1
<1>4. toPeer' \in Seq(Frames(PeerKinds)) /\ \A i \in 1..Len(toPeer') : toPeer'[i].kind # "ack"
  <2>1. CASE toPeer' = <<headers>>
    BY <1>2, <2>1
  <2>2. CASE toPeer' = <<headers, data>>
    BY <1>2, <2>2
  <2> QED BY Zenon, <1>3, <2>1, <2>2
<1>5. phase' = "response" /\ left' = 0 /\ UNCHANGED <<protocol, flow, body, toClient, peer>>
  BY Zenon DEF doProfiledHTTP1
<1>6. LocalTypes'
  BY <1>4, <1>5, ProfileAssumption DEF Local, LocalTypes
<1>7. ~Has(toPeer', {"ack"})
  BY Zenon, <1>4 DEF Has
<1>8. Settings'
  BY Zenon, <1>4, <1>5, <1>7 DEF Local, Settings, Has
<1> QED BY Zenon, <1>5, <1>6, <1>7, <1>8 DEF Local, Fresh

LEMMA HTTP2Local ==
    ASSUME Local, doProfiledHTTP2
    PROVE  Local' /\ (\A i \in 1..Len(toPeer') : toPeer'[i].kind \in {"settings", "window", "headers"})
<1>1. PICK settings, window, headers :
        /\ settings = F("settings", StreamWindow, FALSE)
        /\ window = F("window", ConnectionWindow, FALSE) /\ headers = F("headers", 0, Upload = 0)
  BY Zenon
<1>2. settings \in Frames(PeerKinds) /\ window \in Frames(PeerKinds) /\ headers \in Frames(PeerKinds)
      /\ settings.kind = "settings" /\ window.kind = "window" /\ headers.kind = "headers"
  BY Zenon, <1>1, ProfileAssumption DEF F, Frames, PeerKinds
<1>3. toPeer' = <<settings, headers>> \/ toPeer' = <<settings, window, headers>>
  BY Zenon, <1>1, OpenedFrames DEF doProfiledHTTP2
<1>4. toPeer' \in Seq(Frames(PeerKinds))
      /\ \A i \in 1..Len(toPeer') : toPeer'[i].kind \in {"settings", "window", "headers"}
  BY <1>2, <1>3
<1>5. phase' \in {"response", "settings"} /\ UNCHANGED <<protocol, flow, left, body, toClient, peer>>
  BY Zenon DEF doProfiledHTTP2
<1>6. LocalTypes'
  BY Zenon, <1>4, <1>5 DEF Local, LocalTypes
<1>7. ~Has(toPeer', {"ack"})
  BY Zenon, <1>4 DEF Has
<1>8. Settings'
  BY Zenon, <1>4, <1>5, <1>7 DEF Local, Settings, Has
<1> QED BY Zenon, <1>4, <1>5, <1>6, <1>8 DEF Local, Fresh

LEMMA WriteLocal ==
    ASSUME Local, writeProfiledHTTP2Data
    PROVE  Local' /\ (Has(toPeer, {"ack"})' <=> Has(toPeer, {"ack"}))
<1>1. /\ available \in Nat \ {0} /\ available <= left
  BY AvailableFacts DEF Local, writeProfiledHTTP2Data
<1>2. PICK f : f = F("data", available, available = left)
  BY Zenon
<1>3. f \in Frames(PeerKinds) /\ f.kind = "data"
  BY Zenon, <1>1, <1>2 DEF F, Frames, PeerKinds
<1>4. /\ toPeer' = Append(toPeer, f) /\ left' = left - available
      /\ flow' = [flow EXCEPT !.connection = @ - available, !.stream = @ - available]
      /\ UNCHANGED <<protocol, body, toClient, peer>> /\ phase' \in {"response", "upload"}
  BY Zenon, <1>2 DEF writeProfiledHTTP2Data
<1>5. toPeer' \in Seq(Frames(PeerKinds))
  BY Zenon, <1>3, <1>4, AppendFacts DEF Local, LocalTypes
<1>6. left' \in 0..Upload /\ flow' \in [connection : Int, stream : Int, initial : Nat, maxFrame : Nat \ {0}]
  <2>1. left \in 0..Upload /\ Upload \in Nat /\ flow \in [connection : Int, stream : Int, initial : Nat, maxFrame : Nat \ {0}]
    BY Zenon, ProfileAssumption DEF Local, LocalTypes
  <2>2. left' \in 0..Upload
    BY <1>1, <1>4, <2>1
  <2>3. flow.connection - available \in Int /\ flow.stream - available \in Int
    BY <1>1, <2>1
  <2> QED BY Zenon, <1>4, <2>1, <2>2, <2>3
<1>7. LocalTypes'
  BY Zenon, <1>4, <1>5, <1>6 DEF Local, LocalTypes
<1>8. Settings' /\ (Has(toPeer, {"ack"})' <=> Has(toPeer, {"ack"}))
  BY Zenon, <1>3, <1>4, <1>7, SettingsKept DEF Local
<1> QED BY Zenon, <1>4, <1>7, <1>8 DEF Local, Fresh

LEMMA ReadFacts ==
    ASSUME Local, NEW kind, Reads(kind)
    PROVE  /\ toClient # <<>> /\ Head(toClient) \in Frames(ClientKinds) /\ Head(toClient).kind = kind
           /\ phase \in {"settings", "response", "upload", "body"} /\ conn = "open"
BY Zenon, TailFacts DEF Local, LocalTypes, Reads, Waiting

LEMMA SettingsLocal ==
    ASSUME Local, applyProfiledPeerSettings
    PROVE  /\ Local' /\ ~Has(toPeer, {"ack"}) /\ Has(toPeer', {"ack"})
           /\ Head(toClient).n = Head(peer.unacked) /\ Head(toClient).n \in Nat
<1>1. /\ toClient # <<>> /\ Head(toClient) \in Frames(ClientKinds) /\ Head(toClient).kind = "settings"
      /\ phase \in {"settings", "response", "upload", "body"}
  BY Zenon, ReadFacts DEF applyProfiledPeerSettings
<1>2. PICK ack : ack = F("ack", 0, FALSE)
  BY Zenon
<1>3. ack \in Frames(PeerKinds) /\ ack.kind = "ack"
  BY Zenon, <1>2 DEF F, Frames, PeerKinds
<1>4. /\ toPeer' = Append(toPeer, ack) /\ toClient' = Tail(toClient)
      /\ UNCHANGED <<protocol, left, body, peer>> /\ phase' \in {phase, "upload"}
      /\ \/ flow' = flow
         \/ flow' = [flow EXCEPT !.stream = @ + Head(toClient).n - flow.initial,
                                 !.initial = Head(toClient).n,
                                 !.maxFrame = PeerFrames[Head(toClient).n]]
  BY Zenon, <1>2 DEF applyProfiledPeerSettings, readFrame, Acknowledged
<1>5. /\ toPeer \in Seq(Frames(PeerKinds)) /\ toClient \in Seq(Frames(ClientKinds))
      /\ flow \in [connection : Int, stream : Int, initial : Nat, maxFrame : Nat \ {0}]
  BY Zenon DEF Local, LocalTypes
<1>6. Head(toClient).n \in Nat
  BY Zenon, <1>1 DEF Frames
<1>9. Head(toClient) = toClient[1] /\ Len(toClient) \in Nat \ {0} /\ Len(toClient') = Len(toClient) - 1
      /\ (\A i \in 1..Len(toClient) - 1 : toClient'[i] = toClient[i + 1])
  BY <1>1, <1>4, <1>5, TailFacts
<1>10. Has(toClient, {"settings"}) /\ Head(toClient).n = Head(peer.unacked)
  BY <1>1, <1>9 DEF Local, Settings, Has
<1>11. ~Has(toPeer, {"ack"}) /\ peer.unacked # <<>>
  BY Zenon, <1>10 DEF Local, Settings
<1>7. flow' \in [connection : Int, stream : Int, initial : Nat, maxFrame : Nat \ {0}]
  <2>1. flow.stream + Head(toClient).n - flow.initial \in Int
    BY <1>5, <1>6
  <2>2. peer.unacked \in Seq(PeerWindows)
    BY Zenon DEF Local, LocalTypes, Peers
  <2>3. Head(toClient).n \in PeerWindows
    BY Zenon, <1>10, <1>11, <2>2, TailFacts
  <2>4. PeerFrames[Head(toClient).n] \in Nat \ {0}
    BY Zenon, <2>3, ProfileAssumption
  <2> QED BY Zenon, <1>4, <1>5, <1>6, <2>1, <2>4
<1>8. LocalTypes'
  BY Zenon, <1>3, <1>4, <1>5, <1>1, <1>7, AppendFacts, TailFacts DEF Local, LocalTypes
<1>12. ~Has(toClient', {"settings"})
  <2> SUFFICES ASSUME NEW i \in 1..Len(toClient'), toClient'[i].kind = "settings" PROVE FALSE
    BY Zenon DEF Has
  <2>1. i + 1 \in 1..Len(toClient) /\ toClient[i + 1].kind = "settings" /\ 1 \in 1..Len(toClient)
        /\ toClient[1].kind = "settings"
    BY <1>1, <1>9
  <2>2. i + 1 = 1
    BY Zenon, <2>1 DEF Local, Settings
  <2> QED BY <1>9, <2>2
<1>13. Len(toPeer) \in Nat /\ Len(toPeer') = Len(toPeer) + 1
       /\ (\A i \in 1..Len(toPeer) : toPeer'[i] = toPeer[i]) /\ toPeer'[Len(toPeer) + 1] = ack
  BY <1>3, <1>4, <1>5, AppendFacts
<1>14. \A i, j \in 1..Len(toPeer') : toPeer'[i].kind = "ack" /\ toPeer'[j].kind = "ack" => i = j
  <2>1. \A i \in 1..Len(toPeer') : toPeer'[i].kind = "ack" => i = Len(toPeer) + 1
    BY <1>11, <1>13 DEF Has
  <2> QED BY Zenon, <2>1
<1>15. Has(toPeer', {"ack"})
  BY <1>3, <1>13 DEF Has
<1>16. Settings'
  <2>1. peer'.unacked # <<>> /\ Len(peer'.unacked) <= 1
    BY Zenon, <1>4, <1>11 DEF Local, Settings
  <2>2. \A i \in 1..Len(toClient') : toClient'[i].kind # "settings"
    BY Zenon, <1>12 DEF Has
  <2> QED BY Zenon, <1>12, <1>14, <2>1, <2>2 DEF Settings, Has
<1>17. Fresh'
  BY Zenon, <1>1, <1>4 DEF Fresh
<1> QED BY Zenon, <1>6, <1>8, <1>10, <1>11, <1>15, <1>16, <1>17 DEF Local

\* The other reads.
LEMMA ReadLocal ==
    ASSUME Local,
           \/ applyProfiledWindowUpdate \/ acknowledgeProfiledPing \/ ignoreFrame
           \/ finalProfiledResponseHeaders \/ acceptData \/ readUntilEOF
    PROVE  Local' /\ (Has(toPeer, {"ack"})' <=> Has(toPeer, {"ack"}))
<1>1. PICK kind \in ClientKinds \ {"settings"} : Reads(kind)
  BY Zenon DEF applyProfiledWindowUpdate, acknowledgeProfiledPing, ignoreFrame,
         finalProfiledResponseHeaders, acceptData, readUntilEOF, ClientKinds
<1>2. /\ toClient # <<>> /\ Head(toClient) \in Frames(ClientKinds) /\ Head(toClient).kind = kind
      /\ phase \in {"settings", "response", "upload", "body"}
  BY Zenon, <1>1, ReadFacts
<1>3. PICK pong : pong = F("pong", 0, FALSE)
  BY Zenon
<1>4. pong \in Frames(PeerKinds) /\ pong.kind = "pong"
  BY Zenon, <1>3 DEF F, Frames, PeerKinds
<1>5. /\ toPeer' = toPeer \/ toPeer' = Append(toPeer, pong)
      /\ toClient' = Tail(toClient) /\ UNCHANGED <<protocol, left, peer>> /\ phase' \in {phase, "body"}
  BY Zenon, <1>3 DEF applyProfiledWindowUpdate, acknowledgeProfiledPing, ignoreFrame,
              finalProfiledResponseHeaders, acceptData, readUntilEOF, readFrame, Acknowledged
<1>6. /\ toPeer \in Seq(Frames(PeerKinds)) /\ toClient \in Seq(Frames(ClientKinds))
      /\ flow \in [connection : Int, stream : Int, initial : Nat, maxFrame : Nat \ {0}]
      /\ body \in [pending : Nat, done : BOOLEAN, got : Nat]
  BY Zenon DEF Local, LocalTypes
<1>7. Head(toClient).n \in Nat /\ Head(toClient).last \in BOOLEAN
  BY Zenon, <1>2 DEF Frames
<1>8. flow' \in [connection : Int, stream : Int, initial : Nat, maxFrame : Nat \ {0}]
  <2>1. \/ flow' = flow \/ flow' = [flow EXCEPT !.connection = @ + Head(toClient).n]
        \/ flow' = [flow EXCEPT !.stream = @ + Head(toClient).n]
    BY Zenon DEF applyProfiledWindowUpdate, acknowledgeProfiledPing, ignoreFrame,
           finalProfiledResponseHeaders, acceptData, readUntilEOF
  <2>2. flow.connection + Head(toClient).n \in Int /\ flow.stream + Head(toClient).n \in Int
    BY <1>6, <1>7
  <2> QED BY Zenon, <1>6, <2>1, <2>2
<1>9. body' \in [pending : Nat, done : BOOLEAN, got : Nat]
  <2>1. \/ body' = body \/ body' = [body EXCEPT !.done = Head(toClient).last]
        \/ body' = [body EXCEPT !.done = TRUE]
        \/ body' = [body EXCEPT !.pending = Head(toClient).n, !.done = Head(toClient).last]
    BY Zenon DEF applyProfiledWindowUpdate, acknowledgeProfiledPing, ignoreFrame,
           finalProfiledResponseHeaders, acceptData, readUntilEOF
  <2> QED BY Zenon, <1>6, <1>7, <2>1
<1>10. toPeer' \in Seq(Frames(PeerKinds)) /\ toClient' \in Seq(Frames(ClientKinds))
  <2>1. Append(toPeer, pong) \in Seq(Frames(PeerKinds))
    BY Zenon, <1>4, <1>6, AppendFacts
  <2>2. Tail(toClient) \in Seq(Frames(ClientKinds))
    BY Zenon, <1>2, <1>6, TailFacts
  <2> QED BY Zenon, <1>5, <1>6, <2>1, <2>2
<1>11. LocalTypes'
  BY Zenon, <1>5, <1>8, <1>9, <1>10 DEF Local, LocalTypes
<1>12. Settings' /\ (Has(toPeer, {"ack"})' <=> Has(toPeer, {"ack"}))
  BY Zenon, <1>1, <1>2, <1>4, <1>5, <1>11, SettingsKept DEF Local
<1> QED BY Zenon, <1>2, <1>5, <1>11, <1>12 DEF Local, Fresh

LEMMA ConsumeLocal ==
    ASSUME Local, consumePending
    PROVE  /\ Local' /\ phase = "body" /\ UNCHANGED <<phase, protocol, flow, left, toPeer, toClient, peer>>
           /\ body'.got + body'.pending = body.got + body.pending
           /\ body'.done = body.done /\ body'.pending < body.pending
<1>1. /\ phase = "body" /\ body.pending > 0 /\ UNCHANGED <<phase, protocol, flow, left, toPeer, toClient, peer>>
      /\ body' = [body EXCEPT !.got = @ + Least({ReadSize, body.pending}),
                              !.pending = @ - Least({ReadSize, body.pending})]
  BY Zenon DEF consumePending
<1>2. body \in [pending : Nat, done : BOOLEAN, got : Nat] /\ ReadSize \in Nat \ {0}
  BY Zenon, ProfileAssumption DEF Local, LocalTypes
<1>3. PICK n : n = Least({ReadSize, body.pending})
  BY Zenon
<1>4. n \in Nat \ {0} /\ n <= body.pending
  BY <1>1, <1>2, <1>3, Least2
<1>5. body' = [body EXCEPT !.got = @ + n, !.pending = @ - n]
  BY Zenon, <1>1, <1>3
<1>6. /\ body' \in [pending : Nat, done : BOOLEAN, got : Nat]
      /\ body'.got = body.got + n /\ body'.pending = body.pending - n /\ body'.done = body.done
  <2>1. body.got + n \in Nat /\ body.pending - n \in Nat
    BY <1>2, <1>4
  <2> QED BY Zenon, <1>2, <1>5, <2>1
<1>7. body'.got + body'.pending = body.got + body.pending /\ body'.pending < body.pending
  BY <1>2, <1>4, <1>6
<1>8. LocalTypes'
  BY Zenon, <1>1, <1>6 DEF Local, LocalTypes
<1>9. Settings' /\ Fresh'
  BY Zenon, <1>1 DEF Local, Settings, Fresh, Has
<1> QED BY Zenon, <1>1, <1>6, <1>7, <1>8, <1>9 DEF Local

\* What the origin makes of a frame.
LEMMA ReceiveFacts ==
    ASSUME Local, PeerReceives
    PROVE  LET f == Head(toPeer) IN
           /\ toPeer # <<>> /\ f \in Frames(PeerKinds) /\ toPeer' = Tail(toPeer)
           /\ UNCHANGED <<phase, protocol, flow, left, body>>
           /\ toClient' = toClient \/ toClient' = Append(toClient, F("ack", 0, FALSE))
           /\ peer' \in Peers
           /\ peer'.sent = peer.sent /\ peer'.answer = peer.answer
           /\ peer'.received = peer.received + Amount(f, "data")
           /\ peer'.connection = peer.connection - Amount(f, "data")
           /\ IF f.kind = "ack"
              THEN /\ peer.unacked # <<>> /\ peer'.unacked = Tail(peer.unacked)
                   /\ peer'.initial = Head(peer.unacked)
                   /\ peer'.stream = peer.stream + Head(peer.unacked) - peer.initial
              ELSE /\ peer'.unacked = peer.unacked /\ peer'.initial = peer.initial
                   /\ peer'.stream = peer.stream - Amount(f, "data")
           /\ peer'.overrun => peer.overrun
                            \/ (f.kind = "data" /\ HTTP2 /\ f.n > Least({peer.connection, peer.stream}))
<1> DEFINE f == Head(toPeer)
<1>1. /\ toPeer # <<>> /\ toPeer' = Tail(toPeer)
      /\ UNCHANGED <<phase, protocol, flow, left, body>>
  BY Zenon DEF PeerReceives, PeerOnly
<1>2. toPeer \in Seq(Frames(PeerKinds)) /\ peer \in Peers
  BY Zenon DEF Local, LocalTypes
<1>3. f \in Frames(PeerKinds) /\ f = toPeer[1] /\ 1 \in 1..Len(toPeer)
  BY <1>1, <1>2, TailFacts
<1>4. f.n \in Nat /\ f.kind \in PeerKinds
  BY Zenon, <1>3 DEF Frames
<1>5. peer.connection \in Int /\ peer.stream \in Int /\ peer.initial \in Nat /\ peer.received \in Nat
      /\ peer.unacked \in Seq(PeerWindows) /\ peer.outStream \in Int /\ peer.outConnection \in Int
      /\ DefaultWindow \in Nat
  BY Zenon, <1>2, ProfileAssumption DEF Peers
<1>6. CASE f.kind = "settings"
  <2>1. peer' = [peer EXCEPT !.outStream = @ + f.n - DefaultWindow]
        /\ toClient' = Append(toClient, F("ack", 0, FALSE))
    BY Zenon, <1>6 DEF PeerReceives, Sends
  <2>2. peer.outStream + f.n - DefaultWindow \in Int
    BY <1>4, <1>5
  <2>3. peer' \in Peers
    BY Zenon, <1>2, <2>1, <2>2 DEF Peers
  <2>4. /\ peer'.sent = peer.sent /\ peer'.answer = peer.answer
        /\ peer'.received = peer.received /\ peer'.connection = peer.connection
        /\ peer'.stream = peer.stream /\ peer'.unacked = peer.unacked
        /\ peer'.initial = peer.initial /\ peer'.overrun = peer.overrun
    BY Zenon, <1>2, <2>1 DEF Peers
  <2>5. Amount(f, "data") = 0
    BY Zenon, <1>6 DEF Amount
  <2> QED BY SMTT(40), <1>1, <1>3, <1>5, <1>6, <2>1, <2>3, <2>4, <2>5
<1>7. CASE f.kind = "window"
  <2>1. peer' = [peer EXCEPT !.outConnection = @ + f.n] /\ toClient' = toClient
    BY Zenon, <1>7 DEF PeerReceives
  <2>2. peer.outConnection + f.n \in Int
    BY <1>4, <1>5
  <2>3. peer' \in Peers
    BY Zenon, <1>2, <2>1, <2>2 DEF Peers
  <2>4. /\ peer'.sent = peer.sent /\ peer'.answer = peer.answer
        /\ peer'.received = peer.received /\ peer'.connection = peer.connection
        /\ peer'.stream = peer.stream /\ peer'.unacked = peer.unacked
        /\ peer'.initial = peer.initial /\ peer'.overrun = peer.overrun
    BY Zenon, <1>2, <2>1 DEF Peers
  <2>5. Amount(f, "data") = 0
    BY Zenon, <1>7 DEF Amount
  <2> QED BY <1>1, <1>3, <1>5, <1>7, <2>1, <2>3, <2>4, <2>5
<1>8. CASE f.kind = "headers"
  <2>1. peer' = [peer EXCEPT !.asked = TRUE] /\ toClient' = toClient
    BY Zenon, <1>8 DEF PeerReceives
  <2>2. peer' \in Peers
    BY Zenon, <1>2, <2>1 DEF Peers
  <2>3. /\ peer'.sent = peer.sent /\ peer'.answer = peer.answer
        /\ peer'.received = peer.received /\ peer'.connection = peer.connection
        /\ peer'.stream = peer.stream /\ peer'.unacked = peer.unacked
        /\ peer'.initial = peer.initial /\ peer'.overrun = peer.overrun
    BY Zenon, <1>2, <2>1 DEF Peers
  <2>4. Amount(f, "data") = 0
    BY Zenon, <1>8 DEF Amount
  <2> QED BY SMTT(40), <1>1, <1>3, <1>5, <1>8, <2>1, <2>2, <2>3, <2>4
<1>9. CASE f.kind = "data"
  <2>1. /\ peer' = [peer EXCEPT !.received = @ + f.n, !.connection = @ - f.n, !.stream = @ - f.n,
                     !.overrun = @ \/ (HTTP2 /\ f.n > Least({peer.connection, peer.stream}))]
        /\ toClient' = toClient
    BY Zenon, <1>9 DEF PeerReceives
  <2>2. peer.received + f.n \in Nat /\ peer.connection - f.n \in Int /\ peer.stream - f.n \in Int
    BY SMTT(40), <1>4, <1>5
  <2>3. (peer.overrun \/ (HTTP2 /\ f.n > Least({peer.connection, peer.stream}))) \in BOOLEAN
    BY Zenon
  <2>4. peer' \in Peers
    BY Zenon, <1>2, <2>1, <2>2, <2>3 DEF Peers
  <2>5. Amount(f, "data") = f.n
    BY Zenon, <1>9 DEF Amount
  <2>6. /\ peer'.sent = peer.sent /\ peer'.answer = peer.answer
        /\ peer'.received = peer.received + f.n /\ peer'.connection = peer.connection - f.n
        /\ peer'.stream = peer.stream - f.n /\ peer'.unacked = peer.unacked
        /\ peer'.initial = peer.initial
    BY Zenon, <1>2, <2>1 DEF Peers
  <2>7. peer'.overrun => peer.overrun
                      \/ (f.kind = "data" /\ HTTP2 /\ f.n > Least({peer.connection, peer.stream}))
    BY Zenon, <1>2, <1>9, <2>1 DEF Peers
  <2> QED BY Zenon, <1>1, <1>3, <1>9, <2>1, <2>4, <2>5, <2>6, <2>7
<1>10. CASE f.kind = "ack"
  <2>1. /\ peer' = [peer EXCEPT !.stream = @ + Head(peer.unacked) - peer.initial,
                                !.initial = Head(peer.unacked), !.unacked = Tail(@)]
        /\ toClient' = toClient
    BY Zenon, <1>10 DEF PeerReceives
  <2>2. peer.unacked # <<>>
    BY Zenon, <1>3, <1>10 DEF Local, Settings, Has
  <2>3. Head(peer.unacked) \in Nat /\ Tail(peer.unacked) \in Seq(PeerWindows)
    BY Zenon, <1>5, <2>2, TailFacts, ProfileAssumption
  <2>4. peer.stream + Head(peer.unacked) - peer.initial \in Int
    BY <1>5, <2>3
  <2>5. peer' \in Peers
    BY Zenon, <1>2, <2>1, <2>3, <2>4 DEF Peers
  <2>6. /\ peer'.sent = peer.sent /\ peer'.answer = peer.answer
        /\ peer'.received = peer.received /\ peer'.connection = peer.connection
        /\ peer'.stream = peer.stream + Head(peer.unacked) - peer.initial
        /\ peer'.unacked = Tail(peer.unacked) /\ peer'.initial = Head(peer.unacked)
        /\ peer'.overrun = peer.overrun
    BY Zenon, <1>2, <2>1 DEF Peers
  <2>7. Amount(f, "data") = 0
    BY Zenon, <1>10 DEF Amount
  <2> QED BY <1>1, <1>3, <1>5, <1>10, <2>1, <2>2, <2>5, <2>6, <2>7
<1>11. CASE f.kind = "pong"
  <2>1. peer' = peer /\ toClient' = toClient
    BY Zenon, <1>11 DEF PeerReceives
  <2> QED BY <1>1, <1>2, <1>3, <1>5, <1>11, <2>1 DEF Peers, Amount
<1> QED BY Zenon, <1>4, <1>6, <1>7, <1>8, <1>9, <1>10, <1>11 DEF PeerKinds

LEMMA ReceiveLocal ==
    ASSUME Local, PeerReceives
    PROVE  /\ Local'
           /\ Head(toPeer).kind = "ack" => ~Has(toPeer', {"ack"}) /\ ~Has(toClient, {"settings"})
           /\ Head(toPeer).kind # "ack" => (Has(toPeer', {"ack"}) <=> Has(toPeer, {"ack"}))
<1>1. PICK ack : ack = F("ack", 0, FALSE)
  BY Zenon
<1>2. ack \in Frames(ClientKinds) /\ ack.kind = "ack"
  BY Zenon, <1>1 DEF F, Frames, ClientKinds
<1>3. /\ toPeer # <<>> /\ toPeer' = Tail(toPeer) /\ UNCHANGED <<phase, protocol, flow, left, body>>
      /\ toClient' = toClient \/ toClient' = Append(toClient, ack)
      /\ peer' \in Peers
      /\ IF Head(toPeer).kind = "ack" THEN peer.unacked # <<>> /\ peer'.unacked = Tail(peer.unacked)
                                      ELSE peer'.unacked = peer.unacked
  BY Zenon, <1>1, ReceiveFacts
<1>4. toPeer \in Seq(Frames(PeerKinds)) /\ toClient \in Seq(Frames(ClientKinds)) /\ peer \in Peers
  BY Zenon DEF Local, LocalTypes
<1>5. Append(toClient, ack) \in Seq(Frames(ClientKinds)) /\ Tail(toPeer) \in Seq(Frames(PeerKinds))
  BY Zenon, <1>2, <1>3, <1>4, AppendFacts, TailFacts
<1>6. LocalTypes'
  BY Zenon, <1>3, <1>4, <1>5 DEF Local, LocalTypes
<1>7. Fresh'
  BY Zenon, <1>3 DEF Local, Fresh
<1>8. CASE Head(toPeer).kind # "ack"
  BY Zenon, <1>2, <1>3, <1>6, <1>7, <1>8, SettingsKept DEF Local
<1>9. CASE Head(toPeer).kind = "ack"
  <2>1. Head(toPeer) = toPeer[1] /\ Len(toPeer) \in Nat \ {0} /\ Len(toPeer') = Len(toPeer) - 1
        /\ (\A i \in 1..Len(toPeer) - 1 : toPeer'[i] = toPeer[i + 1])
    BY Zenon, <1>3, <1>4, TailFacts
  <2>2. Has(toPeer, {"ack"})
    BY <1>9, <2>1 DEF Has
  <2>3. ~Has(toClient, {"settings"})
    BY Zenon, <2>2 DEF Local, Settings
  <2>4. ~Has(toPeer', {"ack"})
    <3> SUFFICES ASSUME NEW i \in 1..Len(toPeer'), toPeer'[i].kind = "ack" PROVE FALSE
      BY Zenon DEF Has
    <3>1. i + 1 \in 1..Len(toPeer) /\ toPeer[i + 1].kind = "ack" /\ 1 \in 1..Len(toPeer)
          /\ toPeer[1].kind = "ack"
      BY <1>9, <2>1
    <3>2. i + 1 = 1
      BY Zenon, <3>1 DEF Local, Settings
    <3> QED BY <2>1, <3>2
  <2>5. ~Has(toClient', {"settings"})
    BY Zenon, <1>2, <1>3, <1>4, <2>3, HasAppend
  <2>6. peer.unacked \in Seq(PeerWindows) /\ Len(peer.unacked) <= 1
    BY Zenon, <1>4 DEF Peers, Local, Settings
  <2>7. Len(peer'.unacked) <= 1
    <3>1. Len(Tail(peer.unacked)) = Len(peer.unacked) - 1 /\ Len(peer.unacked) \in Nat
      BY Zenon, <1>3, <1>9, <2>6, TailFacts
    <3>2. peer'.unacked = Tail(peer.unacked)
      BY Zenon, <1>3, <1>9
    <3> QED BY <2>6, <3>1, <3>2
  <2>8. Settings'
    BY Zenon, <2>4, <2>5, <2>7 DEF Settings, Has
  <2> QED BY Zenon, <1>6, <1>7, <1>9, <2>3, <2>4, <2>8 DEF Local
<1> QED BY Zenon, <1>8, <1>9

\* What the origin sends of its own accord, but for SETTINGS.
LEMMA SendsLocal ==
    ASSUME Local, NEW f \in Frames(ClientKinds), f.kind # "settings", Sends(f), peer' \in Peers,
           peer'.unacked = peer.unacked, UNCHANGED <<phase, protocol, flow, left, body, toPeer>>
    PROVE  Local'
<1>1. toClient' = Append(toClient, f) /\ toClient' \in Seq(Frames(ClientKinds))
  BY Zenon, AppendFacts DEF Sends, Local, LocalTypes
<1>2. LocalTypes'
  BY Zenon, <1>1 DEF Local, LocalTypes
<1>3. Settings'
  BY Zenon, <1>1, <1>2, SettingsKept DEF Local
<1> QED BY Zenon, <1>2, <1>3 DEF Local, Fresh

LEMMA PeerSettingsFacts ==
    ASSUME Local, PeerSettings
    PROVE  \E w \in PeerWindows :
           /\ peer.unacked = <<>> /\ peer'.unacked = <<w>>
           /\ HTTP2 /\ UNCHANGED <<phase, protocol, flow, left, body, toPeer>>
           /\ Sends(F("settings", w, FALSE)) /\ peer' \in Peers
           /\ peer'.sent = peer.sent /\ peer'.answer = peer.answer
           /\ peer'.received = peer.received /\ peer'.connection = peer.connection
           /\ peer'.stream = peer.stream /\ peer'.initial = peer.initial
           /\ peer'.overrun = peer.overrun
<1>1. PICK w \in PeerWindows :
        /\ Sends(F("settings", w, FALSE))
        /\ peer' = [peer EXCEPT !.settled = TRUE, !.unacked = Append(@, w),
                                !.controls = IF peer.settled THEN @ + 1 ELSE @]
  BY Zenon DEF PeerSettings
<1>2. peer.unacked = <<>> /\ HTTP2 /\ UNCHANGED <<phase, protocol, flow, left, body, toPeer>>
  BY Zenon DEF PeerSettings, PeerOnly
<1>3. peer \in Peers
  BY Zenon DEF Local, LocalTypes
<1>4. PICK new : new = IF peer.settled THEN peer.controls + 1 ELSE peer.controls
  BY Zenon
<1>5. new \in Nat
  BY <1>3, <1>4 DEF Peers
<1>6. Append(peer.unacked, w) = <<w>> /\ <<w>> \in Seq(PeerWindows)
  BY <1>2
<1>7. peer' = [peer EXCEPT !.settled = TRUE, !.unacked = <<w>>, !.controls = new]
  BY Zenon, <1>1, <1>4, <1>6
<1>8. /\ peer' \in Peers
      /\ peer'.unacked = <<w>> /\ peer'.sent = peer.sent /\ peer'.answer = peer.answer
      /\ peer'.received = peer.received /\ peer'.connection = peer.connection
      /\ peer'.stream = peer.stream /\ peer'.initial = peer.initial /\ peer'.overrun = peer.overrun
  BY Zenon, <1>3, <1>5, <1>6, <1>7 DEF Peers
<1> QED BY Zenon, <1>1, <1>2, <1>8

LEMMA PeerSettingsLocal ==
    ASSUME Local, PeerSettings
    PROVE  Local'
<1>1. PICK w \in PeerWindows :
           /\ peer.unacked = <<>> /\ peer'.unacked = <<w>>
           /\ UNCHANGED <<phase, protocol, flow, left, body, toPeer>>
           /\ Sends(F("settings", w, FALSE)) /\ peer' \in Peers
  BY Zenon, PeerSettingsFacts
<1>2. PICK f : f = F("settings", w, FALSE)
  BY Zenon
<1>3. f \in Frames(ClientKinds) /\ f.kind = "settings" /\ f.n = w
  BY Zenon, <1>2, ProfileAssumption DEF F, Frames, ClientKinds
<1>4. toClient \in Seq(Frames(ClientKinds)) /\ toClient' = Append(toClient, f)
  BY Zenon, <1>1, <1>2 DEF Local, LocalTypes, Sends
<1>5. Len(toClient) \in Nat /\ Len(toClient') = Len(toClient) + 1 /\ toClient' \in Seq(Frames(ClientKinds))
      /\ (\A i \in 1..Len(toClient) : toClient'[i] = toClient[i]) /\ toClient'[Len(toClient) + 1] = f
  BY <1>3, <1>4, AppendFacts
<1>6. LocalTypes'
  BY Zenon, <1>1, <1>5 DEF Local, LocalTypes
<1>7. ~Has(toClient, {"settings"}) /\ ~Has(toPeer', {"ack"})
  BY Zenon, <1>1 DEF Local, Settings, Has
<1>8. \A i \in 1..Len(toClient') : toClient'[i].kind = "settings" => i = Len(toClient) + 1
  BY <1>5, <1>7 DEF Has
<1>9. Head(peer'.unacked) = w /\ Len(peer'.unacked) = 1 /\ peer'.unacked # <<>>
  BY <1>1
<1>10. \A i \in 1..Len(toClient') : toClient'[i].kind = "settings" => toClient'[i].n = Head(peer'.unacked)
  BY Zenon, <1>3, <1>5, <1>8, <1>9
<1>11. \A i, j \in 1..Len(toClient') :
         toClient'[i].kind = "settings" /\ toClient'[j].kind = "settings" => i = j
  BY Zenon, <1>8
<1>12. \A i \in 1..Len(toPeer') : toPeer'[i].kind # "ack"
  BY Zenon, <1>7 DEF Has
<1>13. Settings'
  BY <1>7, <1>9, <1>10, <1>11, <1>12 DEF Settings, Has
<1> QED BY Zenon, <1>1, <1>6, <1>13 DEF Local, Fresh

\* A window grows by n, and the client is told.
Grants(kind, n) ==
    /\ Sends(F(kind, n, FALSE)) /\ peer' \in Peers
    /\ peer'.sent = peer.sent /\ peer'.answer = peer.answer
    /\ peer'.received = peer.received /\ peer'.overrun = peer.overrun
    /\ peer'.unacked = peer.unacked /\ peer'.initial = peer.initial
    /\ peer'.connection = peer.connection + (IF kind = "window0" THEN n ELSE 0)
    /\ peer'.stream = peer.stream + (IF kind = "window1" THEN n ELSE 0)

LEMMA GrantsFacts ==
    ASSUME Local, PeerGrants
    PROVE  /\ UNCHANGED <<phase, protocol, flow, left, body, toPeer>> /\ peer.unacked = <<>>
           /\ \E n \in Nat, kind \in {"window0", "window1"} : Grants(kind, n)
<1>1. UNCHANGED <<phase, protocol, flow, left, body, toPeer>> /\ peer.unacked = <<>>
  BY Zenon DEF PeerGrants, PeerOnly
<1>2. peer \in Peers /\ DefaultWindow \in Nat /\ peer.connection \in Int /\ peer.stream \in Int
  BY Zenon, ProfileAssumption DEF Local, LocalTypes, Peers
<1>3. ASSUME Sends(F("window0", DefaultWindow, FALSE)),
             peer' = [peer EXCEPT !.connection = @ + DefaultWindow]
      PROVE  Grants("window0", DefaultWindow)
  <2>1. peer.connection + DefaultWindow \in Int
    BY <1>2
  <2>2. peer' \in Peers /\ peer'.connection = peer.connection + DefaultWindow
        /\ peer'.sent = peer.sent /\ peer'.answer = peer.answer
        /\ peer'.received = peer.received /\ peer'.overrun = peer.overrun
        /\ peer'.unacked = peer.unacked /\ peer'.initial = peer.initial /\ peer'.stream = peer.stream
    BY Zenon, <1>2, <1>3, <2>1 DEF Peers
  <2>3. peer'.stream = peer.stream + 0
    BY <1>2, <2>2
  <2> QED BY Zenon, <1>3, <2>2, <2>3 DEF Grants
<1>4. ASSUME peer.stream <= 0, Sends(F("window1", 1 - peer.stream, FALSE)),
             peer' = [peer EXCEPT !.stream = 1]
      PROVE  Grants("window1", 1 - peer.stream)
  <2>1. 1 - peer.stream \in Nat /\ peer.stream + (1 - peer.stream) = 1
    BY <1>2, <1>4
  <2>2. peer' \in Peers /\ peer'.stream = 1
        /\ peer'.sent = peer.sent /\ peer'.answer = peer.answer
        /\ peer'.received = peer.received /\ peer'.overrun = peer.overrun
        /\ peer'.unacked = peer.unacked /\ peer'.initial = peer.initial
        /\ peer'.connection = peer.connection
    BY SMTT(40), <1>2, <1>4 DEF Peers
  <2>3. peer'.connection = peer.connection + 0
    BY <1>2, <2>2
  <2> QED BY Zenon, <1>4, <2>1, <2>2, <2>3 DEF Grants
<1>5. peer.stream <= 0 => 1 - peer.stream \in Nat
  BY <1>2
<1> QED BY Zenon, <1>1, <1>2, <1>3, <1>4, <1>5 DEF PeerGrants

LEMMA GrantsLocal ==
    ASSUME Local, PeerGrants
    PROVE  Local'
<1>1. PICK n \in Nat, kind \in {"window0", "window1"} : Grants(kind, n)
  BY Zenon, GrantsFacts
<1>2. F(kind, n, FALSE) \in Frames(ClientKinds) /\ F(kind, n, FALSE).kind # "settings"
  BY Zenon DEF F, Frames, ClientKinds
<1> QED BY Zenon, <1>1, <1>2, GrantsFacts, SendsLocal DEF Grants

\* The frame f is sent, and nothing that has to do with the request's body changes.
Tells(f) ==
    /\ Sends(f) /\ f \in Frames(ClientKinds) /\ peer' \in Peers
    /\ peer'.received = peer.received /\ peer'.overrun = peer.overrun
    /\ peer'.unacked = peer.unacked /\ peer'.initial = peer.initial
    /\ peer'.connection = peer.connection /\ peer'.stream = peer.stream

LEMMA TellsLocal ==
    ASSUME Local, NEW f, f.kind \notin {"settings", "window0", "window1"}, Tells(f),
           UNCHANGED <<phase, protocol, flow, left, body, toPeer>>
    PROVE  Local'
BY Zenon, SendsLocal DEF Tells

LEMMA ControlsFacts ==
    ASSUME Local, PeerControls \/ PeerFault
    PROVE  /\ UNCHANGED <<phase, protocol, flow, left, body, toPeer>>
           /\ peer'.sent = peer.sent /\ peer'.answer = peer.answer
           /\ \E f : /\ f.kind \in {"ping", "1xx", "rst", "goaway", "eof"} /\ Tells(f)
                     /\ f.kind \in {"rst", "goaway", "eof"} => PeerFault
<1>1. peer \in Peers
  BY Zenon DEF Local, LocalTypes
<1>2. peer.controls + 1 \in Nat /\ peer.faults + 1 \in Nat
  BY <1>1 DEF Peers
<1>3. CASE PeerControls
  <2>1. PICK kind \in {"ping", "1xx"} : Sends(F(kind, 0, FALSE))
    BY Zenon, <1>3 DEF PeerControls
  <2>2. peer' = [peer EXCEPT !.controls = @ + 1]
        /\ UNCHANGED <<phase, protocol, flow, left, body, toPeer>>
    BY Zenon, <1>3 DEF PeerControls, PeerOnly
  <2>3. peer' \in Peers
    BY Zenon, <1>1, <1>2, <2>2 DEF Peers
  <2>4. F(kind, 0, FALSE) \in Frames(ClientKinds) /\ F(kind, 0, FALSE).kind = kind
    BY Zenon DEF F, Frames, ClientKinds
  <2>5. /\ peer'.sent = peer.sent /\ peer'.answer = peer.answer
        /\ peer'.received = peer.received /\ peer'.overrun = peer.overrun
        /\ peer'.unacked = peer.unacked /\ peer'.initial = peer.initial
        /\ peer'.connection = peer.connection /\ peer'.stream = peer.stream
    BY Zenon, <1>1, <2>2 DEF Peers
  <2>6. Tells(F(kind, 0, FALSE))
    BY Zenon, <2>1, <2>3, <2>4, <2>5 DEF Tells
  <2> QED BY Zenon, <2>2, <2>4, <2>5, <2>6
<1>4. CASE PeerFault
  <2>1. PICK kind \in {"rst", "goaway", "eof"} : Sends(F(kind, 0, TRUE))
    BY Zenon, <1>4 DEF PeerFault
  <2>2. peer' = [peer EXCEPT !.faults = @ + 1]
        /\ UNCHANGED <<phase, protocol, flow, left, body, toPeer>>
    BY Zenon, <1>4 DEF PeerFault
  <2>3. peer' \in Peers
    BY Zenon, <1>1, <1>2, <2>2 DEF Peers
  <2>4. F(kind, 0, TRUE) \in Frames(ClientKinds) /\ F(kind, 0, TRUE).kind = kind
    BY Zenon DEF F, Frames, ClientKinds
  <2>5. /\ peer'.sent = peer.sent /\ peer'.answer = peer.answer
        /\ peer'.received = peer.received /\ peer'.overrun = peer.overrun
        /\ peer'.unacked = peer.unacked /\ peer'.initial = peer.initial
        /\ peer'.connection = peer.connection /\ peer'.stream = peer.stream
    BY Zenon, <1>1, <2>2 DEF Peers
  <2>6. Tells(F(kind, 0, TRUE))
    BY Zenon, <2>1, <2>3, <2>4, <2>5 DEF Tells
  <2> QED BY Zenon, <1>4, <2>2, <2>4, <2>5, <2>6
<1> QED BY Zenon, <1>3, <1>4

\* The response's headers and its body, of which the last frame ends it.
LEMMA AnswersFacts ==
    ASSUME Local, PeerAnswers \/ PeerBody, peer.sent <= Download
    PROVE  /\ UNCHANGED <<phase, protocol, flow, left, body, toPeer>> /\ peer.answer # "over"
           /\ \E f : /\ Tells(f) /\ f.kind \in {"data", "headers"}
                     /\ f.kind = "headers" => f.n = 0
                     /\ peer'.sent = peer.sent + f.n /\ peer'.sent <= Download
                     /\ f.last => peer'.answer = "over"
                     /\ peer'.answer = "over" => peer'.sent = Download
<1>1. peer \in Peers /\ peer.sent \in Nat /\ peer.outConnection \in Int /\ peer.outStream \in Int
      /\ Download \in Nat /\ FrameSize \in Nat
  BY Zenon, ProfileAssumption DEF Local, LocalTypes, Peers
<1>2. CASE PeerAnswers
  <2>1. PICK last \in {peer.framed /\ Download = 0, FALSE} :
          /\ Sends(F("headers", 0, last))
          /\ peer' = [peer EXCEPT !.answer = IF last THEN "over" ELSE "body"]
    BY Zenon, <1>2 DEF PeerAnswers
  <2>2. peer.answer = "none" /\ UNCHANGED <<phase, protocol, flow, left, body, toPeer>>
    BY Zenon, <1>2 DEF PeerAnswers, PeerOnly
  <2>3. PICK answer : answer = IF last THEN "over" ELSE "body"
    BY Zenon
  <2>4. answer \in {"none", "body", "over"} /\ last \in BOOLEAN /\ (last => Download = 0)
        /\ (answer = "over" <=> last)
    BY Zenon, <2>3
  <2>5. peer' = [peer EXCEPT !.answer = answer]
    BY Zenon, <2>1, <2>3
  <2>6. /\ peer' \in Peers /\ peer'.answer = answer /\ peer'.sent = peer.sent
        /\ peer'.received = peer.received /\ peer'.overrun = peer.overrun
        /\ peer'.unacked = peer.unacked /\ peer'.initial = peer.initial
        /\ peer'.connection = peer.connection /\ peer'.stream = peer.stream
    BY Zenon, <1>1, <2>4, <2>5 DEF Peers
  <2>7. PICK f : f = F("headers", 0, last)
    BY Zenon
  <2>8. f \in Frames(ClientKinds) /\ f.kind = "headers" /\ f.n = 0 /\ f.last = last
    BY Zenon, <2>4, <2>7 DEF F, Frames, ClientKinds
  <2>9. Tells(f)
    BY Zenon, <2>1, <2>6, <2>7, <2>8 DEF Tells
  <2>10. peer'.sent = peer.sent + f.n /\ peer'.sent <= Download
    BY <1>1, <2>6, <2>8
  <2>11. peer'.answer = "over" => peer'.sent = Download
    BY <1>1, <2>4, <2>6
  <2>12. f.last => peer'.answer = "over"
    BY Zenon, <2>4, <2>6, <2>8
  <2> QED BY Zenon, <2>2, <2>8, <2>9, <2>10, <2>11, <2>12
<1>3. CASE PeerBody
  <2>1. PICK rest : rest = Download - peer.sent
    BY Zenon
  <2>2. PICK n : n = IF HTTP2 THEN Least({peer.outConnection, peer.outStream, FrameSize, rest}) ELSE rest
    BY Zenon
  <2>3. /\ n > 0 \/ rest = 0
        /\ \E last \in {n = rest /\ (n = 0 \/ peer.framed), FALSE} :
            /\ n > 0 \/ last
            /\ Sends(F(IF n = 0 THEN "headers" ELSE "data", n, last))
            /\ peer' = [peer EXCEPT !.sent = @ + n, !.answer = IF last THEN "over" ELSE "body",
                                    !.outConnection = @ - n, !.outStream = @ - n]
    BY Zenon, <1>3, <2>1, <2>2 DEF PeerBody
  <2>4. PICK last \in {n = rest /\ (n = 0 \/ peer.framed), FALSE} :
            /\ n > 0 \/ last
            /\ Sends(F(IF n = 0 THEN "headers" ELSE "data", n, last))
            /\ peer' = [peer EXCEPT !.sent = @ + n, !.answer = IF last THEN "over" ELSE "body",
                                    !.outConnection = @ - n, !.outStream = @ - n]
    BY Zenon, <2>3
  <2>5. rest \in Nat
    BY <1>1, <2>1
  <2>6. n \in Int /\ n <= rest
    <3>1. rest \in Int /\ FrameSize \in Int
      BY <1>1, <2>5
    <3>2. HTTP2 => n \in Int /\ n <= rest
      BY Zenon, <1>1, <2>2, <3>1, Least4
    <3> QED BY <2>2, <3>1, <3>2
  <2>7. n \in Nat
    <3>1. last => n = rest
      BY Zenon
    <3>2. n > 0 \/ n = rest
      BY Zenon, <2>4, <3>1
    <3> QED BY <2>5, <2>6, <3>2
  <2>8. PICK answer : answer = IF last THEN "over" ELSE "body"
    BY Zenon
  <2>9. answer \in {"none", "body", "over"} /\ last \in BOOLEAN /\ (last => n = rest)
        /\ (answer = "over" <=> last)
    BY Zenon, <2>8
  <2>10. PICK kind : kind = IF n = 0 THEN "headers" ELSE "data"
    BY Zenon
  <2>11. kind \in {"headers", "data"} /\ (kind = "headers" => n = 0)
    BY Zenon, <2>10
  <2>12. peer' = [peer EXCEPT !.sent = @ + n, !.answer = answer,
                              !.outConnection = @ - n, !.outStream = @ - n]
    BY Zenon, <2>4, <2>8
  <2>13. peer.sent + n \in Nat /\ peer.outConnection - n \in Int /\ peer.outStream - n \in Int
    BY <1>1, <2>7
  <2>14. /\ peer' \in Peers /\ peer'.answer = answer /\ peer'.sent = peer.sent + n
         /\ peer'.received = peer.received /\ peer'.overrun = peer.overrun
         /\ peer'.unacked = peer.unacked /\ peer'.initial = peer.initial
         /\ peer'.connection = peer.connection /\ peer'.stream = peer.stream
    BY Zenon, <1>1, <2>9, <2>12, <2>13 DEF Peers
  <2>15. PICK f : f = F(kind, n, last)
    BY Zenon
  <2>16. f \in Frames(ClientKinds) /\ f.kind = kind /\ f.n = n /\ f.last = last
    BY Zenon, <2>7, <2>9, <2>11, <2>15 DEF F, Frames, ClientKinds
  <2>17. Tells(f)
    BY Zenon, <2>4, <2>10, <2>14, <2>15, <2>16 DEF Tells
  <2>18. peer'.sent = peer.sent + f.n /\ peer'.sent <= Download /\ (last => peer'.sent = Download)
    BY <1>1, <2>1, <2>6, <2>9, <2>14, <2>16
  <2>19. peer.answer # "over" /\ UNCHANGED <<phase, protocol, flow, left, body, toPeer>>
    BY Zenon, <1>3 DEF PeerBody, PeerOnly
  <2> QED BY Zenon, <2>9, <2>11, <2>14, <2>16, <2>17, <2>18, <2>19
<1> QED BY Zenon, <1>2, <1>3

-----------------------------------------------------------------------------
(* Who closes the connection, and why.                                     *)

Fatal == {"rst", "goaway", "eof"}

Exchanging == {"open", "settings", "upload", "response", "body"}

\* Frames that come and go, and an upload that gives way to the response, blame nobody.
LEMMA ExchangeControl ==
    ASSUME ControlTypes, Control, fault' \in {fault, TRUE},
           UNCHANGED <<told, watch, opening, context, late, conn, afterFunc, deadline, opened>>,
           phase' = phase \/ {phase, phase'} \subseteq Exchanging,
           Has(toClient', Fatal) => fault'
    PROVE  ControlTypes' /\ Control'
<1>1. fault' \in BOOLEAN /\ (fault => fault')
  BY Zenon DEF ControlTypes, ProxyTypeOK
<1>2. ControlTypes'
  BY <1>1 DEF ControlTypes, ProxyTypeOK, Contexts, ProxyFacts, Phases, Exchanging
<1>3. Opening' /\ HandedOverOrClosed' /\ BlamedFairly'
  BY Zenon, <1>1 DEF Control, Opening, Handshaking, ProxyFacts, HandedOverOrClosed, BlamedFairly
<1>4. Carrying'
  BY Zenon DEF Control, Carrying, Handshaking, Over, Exchanging
<1>5. Failing'
  BY Zenon DEF Failing, Has, Fatal
<1> QED BY Zenon, <1>2, <1>3, <1>4, <1>5 DEF Control

LEMMA FatalRead ==
    ASSUME Local, Control, toClient # <<>>, toClient' = Tail(toClient)
    PROVE  Has(toClient', Fatal) => fault
BY Zenon, HasTail DEF Local, LocalTypes, Control, Failing, Fatal

LEMMA FatalSent ==
    ASSUME Local, Control, NEW f \in Frames(ClientKinds), toClient' = Append(toClient, f)
    PROVE  Has(toClient', Fatal) => fault \/ f.kind \in Fatal
BY HasAppend DEF Local, LocalTypes, Control, Failing, Fatal

LEMMA FatalSame ==
    ASSUME Control, toClient' = toClient
    PROVE  Has(toClient', Fatal) => fault
BY Zenon DEF Control, Failing, Fatal

LEMMA WriterControl ==
    ASSUME Local, ControlTypes, Control,
           doProfiledHTTP1 \/ doProfiledHTTP2 \/ writeProfiledHTTP2Data \/ consumePending
    PROVE  ControlTypes' /\ Control'
<1>1. /\ UNCHANGED <<told, watch, opening, context, late, conn, afterFunc, deadline, opened, fault, toClient>>
      /\ {phase, phase'} \subseteq Exchanging
  BY Zenon DEF doProfiledHTTP1, doProfiledHTTP2, writeProfiledHTTP2Data, consumePending, proxyVars, Exchanging
<1>2. Has(toClient', Fatal) => fault'
  BY Zenon, <1>1, FatalSame
<1> QED BY Zenon, <1>1, <1>2, ExchangeControl

LEMMA ReaderControl ==
    ASSUME Local, ControlTypes, Control,
           \/ applyProfiledPeerSettings \/ applyProfiledWindowUpdate \/ acknowledgeProfiledPing
           \/ ignoreFrame \/ finalProfiledResponseHeaders \/ acceptData \/ readUntilEOF
    PROVE  ControlTypes' /\ Control'
<1>1. /\ UNCHANGED <<told, watch, opening, context, late, conn, afterFunc, deadline, opened, fault>>
      /\ toClient' = Tail(toClient)
  BY Zenon DEF applyProfiledPeerSettings, applyProfiledWindowUpdate, acknowledgeProfiledPing,
         ignoreFrame, finalProfiledResponseHeaders, acceptData, readUntilEOF, readFrame, proxyVars
<1>2. PICK kind : Reads(kind)
  BY Zenon DEF applyProfiledPeerSettings, applyProfiledWindowUpdate, acknowledgeProfiledPing,
         ignoreFrame, finalProfiledResponseHeaders, acceptData, readUntilEOF
<1>3. phase \in Exchanging /\ toClient # <<>>
  BY Zenon, <1>2, ReadFacts DEF Exchanging
<1>4. phase' \in {phase, "upload", "body"}
  BY Zenon DEF applyProfiledPeerSettings, applyProfiledWindowUpdate, acknowledgeProfiledPing,
         ignoreFrame, finalProfiledResponseHeaders, acceptData, readUntilEOF
<1>5. Has(toClient', Fatal) => fault'
  BY Zenon, <1>1, <1>3, FatalRead
<1>6. {phase, phase'} \subseteq Exchanging
  BY Zenon, <1>3, <1>4 DEF Exchanging
<1> QED BY Zenon, <1>1, <1>5, <1>6, ExchangeControl

LEMMA OriginControl ==
    ASSUME Local, ControlTypes, Control, peer.sent <= Download,
           Origin \/ PeerControls \/ PeerFault
    PROVE  ControlTypes' /\ Control'
<1>1. /\ UNCHANGED <<told, watch, opening, context, late, conn, afterFunc, deadline, opened, phase>>
      /\ PeerFault => fault' = TRUE
      /\ ~PeerFault => fault' = fault
  BY Zenon DEF Origin, PeerReceives, PeerSettings, PeerGrants, PeerControls, PeerAnswers, PeerBody,
         PeerFault, PeerOnly, proxyVars, openVars
<1>2. \/ toClient' = toClient
      \/ \E f \in Frames(ClientKinds) :
            toClient' = Append(toClient, f) /\ (f.kind \in Fatal => PeerFault)
  <2>1. CASE PeerReceives
    <3>1. PICK f : f = F("ack", 0, FALSE)
      BY Zenon
    <3>2. f \in Frames(ClientKinds) /\ f.kind \notin Fatal
      BY Zenon, <3>1 DEF F, Frames, ClientKinds, Fatal
    <3>3. toClient' = toClient \/ toClient' = Append(toClient, f)
      BY Zenon, <2>1, <3>1, ReceiveFacts
    <3> QED BY Zenon, <3>2, <3>3
  <2>2. CASE PeerSettings
    <3>1. PICK w \in PeerWindows : Sends(F("settings", w, FALSE))
      BY Zenon, <2>2 DEF PeerSettings
    <3>2. PICK f : f = F("settings", w, FALSE)
      BY Zenon
    <3>3. f \in Frames(ClientKinds) /\ f.kind \notin Fatal
      BY Zenon, <3>2, ProfileAssumption DEF F, Frames, ClientKinds, Fatal
    <3>4. toClient' = Append(toClient, f)
      BY Zenon, <3>1, <3>2 DEF Sends
    <3> QED BY Zenon, <3>3, <3>4
  <2>3. CASE PeerGrants
    <3>1. PICK n \in Nat, kind \in {"window0", "window1"} : Grants(kind, n)
      BY Zenon, <2>3, GrantsFacts
    <3>2. PICK f : f = F(kind, n, FALSE)
      BY Zenon
    <3>3. f \in Frames(ClientKinds) /\ f.kind \notin Fatal
      BY Zenon, <3>2 DEF F, Frames, ClientKinds, Fatal
    <3>4. toClient' = Append(toClient, f)
      BY Zenon, <3>1, <3>2 DEF Grants, Sends
    <3> QED BY Zenon, <3>3, <3>4
  <2>4. CASE PeerAnswers \/ PeerBody
    <3>1. PICK f : Tells(f) /\ f.kind \in {"data", "headers"}
      BY Zenon, <2>4, AnswersFacts
    <3>2. f \in Frames(ClientKinds) /\ f.kind \notin Fatal /\ toClient' = Append(toClient, f)
      BY Zenon, <3>1 DEF Tells, Sends, Fatal
    <3> QED BY Zenon, <3>2
  <2>5. CASE PeerControls \/ PeerFault
    <3>1. PICK f : Tells(f) /\ (f.kind \in {"rst", "goaway", "eof"} => PeerFault)
      BY Zenon, <2>5, ControlsFacts
    <3>2. f \in Frames(ClientKinds) /\ toClient' = Append(toClient, f) /\ (f.kind \in Fatal => PeerFault)
      BY Zenon, <3>1 DEF Tells, Sends, Fatal
    <3> QED BY Zenon, <3>2
  <2> QED BY Zenon, <2>1, <2>2, <2>3, <2>4, <2>5 DEF Origin
<1>3. Has(toClient', Fatal) => fault'
  <2>1. CASE PeerFault
    BY Zenon, <1>1, <2>1
  <2>2. CASE ~PeerFault /\ toClient' = toClient
    BY <1>1, <2>2, FatalSame
  <2>3. ASSUME ~PeerFault, NEW f \in Frames(ClientKinds), toClient' = Append(toClient, f), f.kind \notin Fatal
        PROVE  Has(toClient', Fatal) => fault'
    BY <1>1, <2>3, FatalSent
  <2> QED BY Zenon, <1>2, <2>1, <2>2, <2>3
<1> QED BY Zenon, <1>1, <1>3, ExchangeControl

\* A request that fails, at any point, for a reason that is not the other side's or with the
\* other side at fault.
LEMMA CloseControl ==
    ASSUME ControlTypes, Control, NEW code, closeOnError(code), fault' \in {fault, TRUE},
           phase = "proxy" => opening = "over",
           code \in {"timeout", "cancelled", "upstream", "proxy", "internal"},
           code \in {"upstream", "proxy"} => fault'
    PROVE  ControlTypes' /\ Control'
<1>1. fault' \in BOOLEAN /\ (fault => fault')
  BY Zenon DEF ControlTypes, ProxyTypeOK
<1>2. /\ phase' = "failed" /\ told' = code
      /\ context' \in Contexts /\ (context # "live" => context' = context)
      /\ context' = "expired" => context = "expired"
      /\ conn' = (IF conn = "none" THEN "none" ELSE "closed")
      /\ watch' \in {watch, "stopped"}
      /\ UNCHANGED <<opening, late, afterFunc, deadline, opened, toClient>>
  BY Zenon DEF closeOnError, cancelled, openVars, local, ControlTypes, ProxyTypeOK, Contexts
<1>3. ControlTypes'
  BY <1>1, <1>2 DEF ControlTypes, ProxyTypeOK, Contexts, ProxyFacts, Phases
<1>4. opening \in {"idle", "over"}
  BY Zenon DEF Control, Carrying, Handshaking, ControlTypes, ProxyTypeOK
<1>5. Opening' /\ HandedOverOrClosed'
  BY Zenon, <1>1, <1>2, <1>4 DEF Control, Opening, Handshaking, ProxyFacts, HandedOverOrClosed
<1>6. Carrying'
  BY Zenon, <1>2, <1>4 DEF Carrying, Handshaking, Over
<1>7. Failing' /\ BlamedFairly'
  BY Zenon, <1>1, <1>2 DEF Control, Failing, Has, BlamedFairly
<1> QED BY Zenon, <1>3, <1>5, <1>6, <1>7 DEF Control

LEMMA ErrorCode ==
    ASSUME ControlTypes
    PROVE  /\ mapHTTPError \in {"timeout", "cancelled", "upstream"}
           /\ context # "live" => mapHTTPError \in {"timeout", "cancelled"}
BY Zenon DEF mapHTTPError, contextFailure

LEMMA FailsHereControl ==
    ASSUME ControlTypes, Control, FailsHere, phase # "proxy"
    PROVE  ControlTypes' /\ Control'
<1>1. CASE context # "live" /\ UNCHANGED fault /\ closeOnError(mapHTTPError)
  BY Zenon, <1>1, ErrorCode, CloseControl
<1>2. CASE fault' = TRUE /\ closeOnError(mapHTTPError)
  BY Zenon, <1>2, ErrorCode, CloseControl
<1> QED BY Zenon, <1>1, <1>2 DEF FailsHere

LEMMA RequestControl ==
    ASSUME ControlTypes, Control, doProfiledRequest
    PROVE  ControlTypes' /\ Control'
<1>1. phase = "dial" /\ opening = "idle" /\ conn = "none" /\ afterFunc = "none" /\ ~deadline /\ opened = "none"
  BY Zenon DEF doProfiledRequest, Control, Carrying, Opening
<1>2. CASE closeOnError("internal") /\ UNCHANGED fault
  BY Zenon, <1>1, <1>2, CloseControl
<1>3. CASE FailsHere
  BY Zenon, <1>1, <1>3, FailsHereControl
<1>4. CASE /\ context = "live" /\ phase' = "handshake" /\ conn' = "open"
           /\ UNCHANGED <<told, watch, local, context, fault, openVars>>
  <2>1. UNCHANGED <<told, watch, context, fault, opening, late, afterFunc, deadline, opened, toClient>>
    BY Zenon, <1>4 DEF local, openVars
  <2>2. ControlTypes'
    BY <1>4, <2>1 DEF ControlTypes, ProxyTypeOK, Phases, Contexts, ProxyFacts
  <2>3. Control'
    BY <1>1, <1>4, <2>1 DEF Control, Opening, Handshaking, ProxyFacts, HandedOverOrClosed, Carrying, Over,
                            Failing, Has, BlamedFairly
  <2> QED BY Zenon, <2>2, <2>3
<1>5. CASE /\ phase' = "proxy" /\ opening' = "profile"
           /\ UNCHANGED <<told, watch, local, context, late, conn, afterFunc, deadline, opened, fault>>
  <2>1. UNCHANGED <<told, watch, context, fault, late, conn, afterFunc, deadline, opened, toClient>>
    BY Zenon, <1>5 DEF local
  <2>2. ControlTypes'
    BY <1>5, <2>1 DEF ControlTypes, ProxyTypeOK, Phases, Contexts, ProxyFacts
  <2>3. Control'
    BY <1>1, <1>5, <2>1 DEF Control, Opening, Handshaking, ProxyFacts, HandedOverOrClosed, Carrying, Over,
                            Failing, Has, BlamedFairly
  <2> QED BY Zenon, <2>2, <2>3
<1> QED BY Zenon, <1>2, <1>3, <1>4, <1>5 DEF doProfiledRequest

\* Open fails: for a reason of its own, for the context or its deadline, or with the proxy at
\* fault.
LEMMA OpenFailsControl ==
    ASSUME ControlTypes, Control, NEW result, Fails(result), fault' \in {fault, TRUE},
           phase = "proxy", UNCHANGED <<phase, told, watch, local>>,
           opening \in {"profile", "dial"} \/ Handshaking,
           result \in ProxyFacts \cup {"instruction_invalid", "cancelled", "timeout"},
           result \in ProxyFacts => fault'
    PROVE  ControlTypes' /\ Control'
<1>1. fault' \in BOOLEAN /\ (fault => fault')
  BY Zenon DEF ControlTypes, ProxyTypeOK
<1>2. /\ opening' = "over" /\ opened' = result
      /\ afterFunc' = (IF afterFunc = "armed" THEN "stopped" ELSE afterFunc)
      /\ conn' = (IF conn = "none" THEN "none" ELSE "closed")
      /\ UNCHANGED <<context, late, deadline, toClient, phase, told, watch>>
  BY Zenon DEF Fails, local
<1>3. ControlTypes'
  BY <1>1, <1>2 DEF ControlTypes, ProxyTypeOK, Phases, Contexts
<1>4. Opening' /\ HandedOverOrClosed'
  BY Zenon, <1>2 DEF Opening, Handshaking, ProxyFacts, HandedOverOrClosed
<1>5. Carrying'
  BY Zenon, <1>2 DEF Control, Opening, ProxyFacts, Carrying, Handshaking, Over
<1>6. Failing' /\ BlamedFairly'
  BY Zenon, <1>1, <1>2 DEF Control, Failing, Has, BlamedFairly
<1> QED BY Zenon, <1>3, <1>4, <1>5, <1>6 DEF Control

\* Open goes on, with the connection and its guards as they were or as they are set up.
LEMMA OpenGoesOnControl ==
    ASSUME ControlTypes, Control, phase = "proxy", UNCHANGED <<phase, told, watch, local>>,
           UNCHANGED <<context, late, opened, fault>>,
           \/ opening = "profile" /\ opening' = "dial" /\ UNCHANGED <<conn, afterFunc, deadline>>
           \/ /\ opening = "dial" /\ opening' \in {"tls", "connect"}
              /\ conn' = "open" /\ afterFunc' = "armed" /\ deadline' = TRUE
           \/ /\ Handshaking /\ opening' \in {"connect", "reply", "finish"}
              /\ UNCHANGED <<conn, afterFunc, deadline>>
    PROVE  ControlTypes' /\ Control'
<1>1. UNCHANGED <<told, watch, context, late, opened, fault, toClient, phase>>
  BY Zenon DEF local
<1>2. ControlTypes'
  <2>1. deadline' \in BOOLEAN /\ opening' \in {"dial", "tls", "connect", "reply", "finish"}
        /\ conn' \in {"none", "open", "closed"} /\ afterFunc' \in {"none", "armed", "stopped", "ran"}
    BY Zenon DEF ControlTypes, ProxyTypeOK
  <2> QED BY <1>1, <2>1 DEF ControlTypes, ProxyTypeOK, Contexts, ProxyFacts, Phases
<1>3. Opening' /\ HandedOverOrClosed'
  BY <1>1 DEF Control, Opening, Handshaking, ProxyFacts, HandedOverOrClosed
<1>4. Carrying'
  BY Zenon, <1>1 DEF Control, Opening, Carrying, Handshaking, Over
<1>5. Failing' /\ BlamedFairly'
  BY <1>1 DEF Control, Failing, Has, BlamedFairly
<1> QED BY Zenon, <1>2, <1>3, <1>4, <1>5 DEF Control

LEMMA PhaseFailureIs ==
    ASSUME NEW fact \in ProxyFacts
    PROVE  /\ phaseFailure(fact) \in {fact, "cancelled", "timeout"}
           /\ context # "live" \/ late => phaseFailure(fact) \in {"cancelled", "timeout"}
BY Zenon DEF phaseFailure, contextFailure

LEMMA ExchangeKeeps ==
    ASSUME ControlTypes, Control, phase = "proxy", UNCHANGED <<phase, told, watch, local>>,
           NEW at \in {"tls", "connect", "reply"}, NEW fact \in ProxyFacts,
           NEW next \in {"connect", "reply", "finish"}, Exchange(at, fact, next)
    PROVE  ControlTypes' /\ Control'
<1>1. opening = at /\ Handshaking
  BY Zenon DEF Exchange, Handshaking
<1>2. CASE Interrupted /\ UNCHANGED fault /\ Fails(phaseFailure(fact))
  <2>1. context # "live" \/ late
    BY Zenon, <1>1, <1>2 DEF Interrupted, Control, Opening
  <2>2. phaseFailure(fact) \in {"cancelled", "timeout"}
    BY Zenon, <2>1, PhaseFailureIs
  <2> QED BY Zenon, <1>1, <1>2, <2>2, OpenFailsControl DEF ProxyFacts
<1>3. CASE conn = "open" /\ fault' = TRUE /\ Fails(phaseFailure(fact))
  BY Zenon, <1>1, <1>3, PhaseFailureIs, OpenFailsControl
<1>4. CASE /\ opening' = next
           /\ UNCHANGED <<context, late, conn, afterFunc, deadline, opened, fault>>
  BY Zenon, <1>1, <1>4, OpenGoesOnControl
<1> QED BY Zenon, <1>2, <1>3, <1>4 DEF Exchange

LEMMA OpenControl ==
    ASSUME ControlTypes, Control, profiledProxyDial
    PROVE  ControlTypes' /\ Control'
<1>0. phase = "proxy" /\ Open /\ UNCHANGED <<phase, told, watch, local>>
  BY Zenon DEF profiledProxyDial
<1>1. CASE openProfile
  <2>1. opening = "profile" /\ UNCHANGED fault
    BY Zenon, <1>1 DEF openProfile
  <2>2. CASE Fails("instruction_invalid")
    BY Zenon, <1>0, <2>1, <2>2, OpenFailsControl DEF ProxyFacts
  <2>3. CASE opening' = "dial" /\ UNCHANGED <<context, late, conn, afterFunc, deadline, opened>>
    BY Zenon, <1>0, <2>1, <2>3, OpenGoesOnControl
  <2> QED BY Zenon, <1>1, <2>2, <2>3 DEF openProfile
<1>2. CASE dialUpstreamProxy
  <2>1. opening = "dial" /\ "connect_failed" \in ProxyFacts
    BY Zenon, <1>2 DEF dialUpstreamProxy, ProxyFacts
  <2>2. CASE fault' = TRUE /\ Fails(phaseFailure("connect_failed"))
    BY Zenon, <1>0, <2>1, <2>2, PhaseFailureIs, OpenFailsControl
  <2>3. CASE (context # "live" \/ late) /\ UNCHANGED fault /\ Fails(phaseFailure("connect_failed"))
    <3>1. phaseFailure("connect_failed") \in {"cancelled", "timeout"}
      BY Zenon, <2>1, <2>3, PhaseFailureIs
    <3> QED BY Zenon, <1>0, <2>1, <2>3, <3>1, OpenFailsControl DEF ProxyFacts
  <2>4. CASE /\ opening' \in {"tls", "connect"}
             /\ conn' = "open" /\ afterFunc' = "armed" /\ deadline' = TRUE
             /\ UNCHANGED <<context, late, opened, fault>>
    BY Zenon, <1>0, <2>1, <2>4, OpenGoesOnControl
  <2> QED BY Zenon, <1>2, <2>2, <2>3, <2>4 DEF dialUpstreamProxy
<1>3. CASE upgradeUpstreamProxyTLS \/ writeUpstreamProxyConnect \/ readUpstreamProxyResponse
  BY Zenon, <1>0, <1>3, ExchangeKeeps DEF upgradeUpstreamProxyTLS, writeUpstreamProxyConnect,
                                   readUpstreamProxyResponse, ProxyFacts
<1>4. CASE rejectUpstreamProxyStatus
  <2>1. opening = "reply" /\ fault' = TRUE
    BY Zenon, <1>4 DEF rejectUpstreamProxyStatus
  <2>2. PICK fact \in {"authentication_failed", "connect_rejected"} : Fails(fact)
    BY Zenon, <1>4 DEF rejectUpstreamProxyStatus
  <2> QED BY Zenon, <1>0, <2>1, <2>2, OpenFailsControl DEF Handshaking, ProxyFacts
<1>5. CASE finish
  <2>1. opening = "finish" /\ UNCHANGED fault
    BY Zenon, <1>5 DEF finish
  <2>2. CASE afterFunc # "armed" \/ context # "live"
    <3>1. Fails(contextFailure) /\ contextFailure \in {"cancelled", "timeout"}
      BY Zenon, <1>5, <2>2 DEF finish, contextFailure
    <3> QED BY Zenon, <1>0, <2>1, <3>1, OpenFailsControl DEF Handshaking, ProxyFacts
  <2>3. CASE afterFunc = "armed" /\ context = "live"
    <3>1. /\ opening' = "over" /\ opened' = "open" /\ afterFunc' = "stopped" /\ deadline' = FALSE
          /\ UNCHANGED <<context, late, conn>>
      BY Zenon, <1>5, <2>3 DEF finish
    <3>2. UNCHANGED <<phase, told, watch, toClient>>
      BY Zenon, <1>0 DEF local
    <3>3. ControlTypes'
      <4>1. deadline' \in BOOLEAN
        BY Zenon, <3>1
      <4> QED BY <2>1, <3>1, <3>2, <4>1 DEF ControlTypes, ProxyTypeOK, Contexts, Phases
    <3>4. Opening' /\ HandedOverOrClosed'
      BY Zenon, <3>1 DEF Opening, Handshaking, ProxyFacts, HandedOverOrClosed
    <3>5. Carrying'
      BY Zenon, <1>0, <2>1, <2>3, <3>1, <3>2 DEF Control, Opening, Carrying, Handshaking, Over
    <3>6. Failing' /\ BlamedFairly'
      BY Zenon, <2>1, <3>2 DEF Control, Failing, Has, BlamedFairly
    <3> QED BY Zenon, <3>3, <3>4, <3>5, <3>6 DEF Control
  <2> QED BY Zenon, <2>2, <2>3
<1> QED BY Zenon, <1>0, <1>1, <1>2, <1>3, <1>4, <1>5 DEF Open

LEMMA DialedControl ==
    ASSUME ControlTypes, Control, profiledProxyDialed
    PROVE  ControlTypes' /\ Control'
<1>1. phase = "proxy" /\ opening = "over" /\ UNCHANGED fault
  BY Zenon DEF profiledProxyDialed
<1>2. CASE opened = "open"
  <2>1. phase' = "handshake" /\ UNCHANGED <<told, watch, context, conn, opening, late, afterFunc, deadline, opened, toClient>>
    BY Zenon, <1>2 DEF profiledProxyDialed, local, openVars
  <2>2. ControlTypes'
    BY <1>1, <2>1 DEF ControlTypes, ProxyTypeOK, Contexts, Phases, ProxyFacts
  <2>3. Opening' /\ HandedOverOrClosed'
    BY Zenon, <1>1, <2>1 DEF Control, Opening, Handshaking, ProxyFacts, HandedOverOrClosed
  <2>4. Carrying'
    BY Zenon, <1>1, <1>2, <2>1 DEF Control, Carrying, Handshaking, Over
  <2>5. Failing' /\ BlamedFairly'
    BY Zenon, <1>1, <2>1 DEF Control, Failing, Has, BlamedFairly
  <2> QED BY Zenon, <2>2, <2>3, <2>4, <2>5 DEF Control
<1>3. CASE opened = "instruction_invalid"
  <2>1. closeOnError("internal")
    BY Zenon, <1>3 DEF profiledProxyDialed
  <2> QED BY Zenon, <1>1, <2>1, CloseControl
<1>4. CASE opened \in {"timeout", "cancelled"}
  <2>1. closeOnError(opened)
    BY Zenon, <1>4 DEF profiledProxyDialed
  <2> QED BY Zenon, <1>1, <1>4, <2>1, CloseControl
<1>5. CASE opened \in ProxyFacts
  <2>1. closeOnError("proxy") /\ fault
    BY Zenon, <1>1, <1>5 DEF profiledProxyDialed, ProxyFacts, Control, Opening
  <2> QED BY Zenon, <1>1, <2>1, CloseControl
<1>6. opened # "none"
  BY Zenon, <1>1 DEF Control, Opening
<1> QED BY Zenon, <1>2, <1>3, <1>4, <1>5, <1>6 DEF ControlTypes, ProxyTypeOK

LEMMA HandshakeControl ==
    ASSUME ControlTypes, Control, upgradeProfiledTLS
    PROVE  ControlTypes' /\ Control'
<1>1. phase = "handshake"
  BY Zenon DEF upgradeProfiledTLS
<1>2. CASE FailsHere
  BY Zenon, <1>1, <1>2, FailsHereControl
<1>3. CASE /\ context = "live" /\ phase' = "open" /\ watch' = "on"
           /\ UNCHANGED <<told, local, proxyVars>>
  <2>1. UNCHANGED <<told, opening, context, late, conn, afterFunc, deadline, opened, fault, toClient>>
    BY Zenon, <1>3 DEF local, proxyVars
  <2>2. ControlTypes'
    BY <1>3, <2>1 DEF ControlTypes, ProxyTypeOK, Contexts, Phases, ProxyFacts
  <2>3. Opening' /\ HandedOverOrClosed'
    BY Zenon, <2>1 DEF Control, Opening, Handshaking, ProxyFacts, HandedOverOrClosed
  <2>4. Carrying'
    BY Zenon, <1>1, <1>3, <2>1 DEF Control, Carrying, Handshaking, Over
  <2>5. Failing' /\ BlamedFairly'
    BY Zenon, <2>1 DEF Control, Failing, Has, BlamedFairly
  <2> QED BY Zenon, <2>2, <2>3, <2>4, <2>5 DEF Control
<1> QED BY Zenon, <1>2, <1>3 DEF upgradeProfiledTLS

\* What closed the connection under a reader or a writer was the context; what ended it with
\* a frame was the origin.
LEMMA ReadFailsControl ==
    ASSUME Local, ControlTypes, Control, readFails
    PROVE  ControlTypes' /\ Control'
<1>1. closeOnError(mapHTTPError) /\ UNCHANGED fault
  BY Zenon DEF readFails
<1>2. phase \in Exchanging /\ (context # "live" \/ fault)
  <2>1. CASE conn = "closed" /\ phase \in Exchanging
    BY Zenon, <2>1 DEF Control, Carrying, Over, Exchanging
  <2>2. ASSUME NEW kind \in {"rst", "goaway", "eof"}, Reads(kind)
        PROVE  phase \in Exchanging /\ fault
    <3>1. toClient # <<>> /\ Head(toClient).kind = kind /\ phase \in Exchanging
      BY Zenon, <2>2, ReadFacts DEF Exchanging
    <3>2. Has(toClient, {"rst", "goaway", "eof"})
      BY Zenon, <3>1, HasTail DEF Local, LocalTypes
    <3> QED BY Zenon, <3>1, <3>2 DEF Control, Failing
  <2> QED BY Zenon, <2>1, <2>2 DEF readFails, Waiting, Exchanging
<1>3. mapHTTPError \in {"timeout", "cancelled", "upstream"} /\ (mapHTTPError = "upstream" => fault)
  BY Zenon, <1>2, ErrorCode
<1> QED BY Zenon, <1>1, <1>2, <1>3, CloseControl DEF Exchanging

LEMMA EndControl ==
    ASSUME ControlTypes, Control, panic \/ readEOF
    PROVE  ControlTypes' /\ Control'
<1>1. /\ phase \in {"upload", "body"} /\ phase' \in {"panicked", "done"} /\ told' \in {"panic", "ok"}
      /\ context' \in Contexts /\ (context # "live" => context' = context)
      /\ context' = "expired" => context = "expired"
      /\ conn' \in {conn, "closed"} /\ watch' \in {watch, "stopped"}
      /\ UNCHANGED <<opening, late, afterFunc, deadline, opened, fault, toClient>>
  BY Zenon DEF panic, readEOF, cancelled, local, openVars, ControlTypes, ProxyTypeOK, Contexts
<1>2. ControlTypes'
  BY <1>1 DEF ControlTypes, ProxyTypeOK, Contexts, Phases, ProxyFacts
<1>3. Opening' /\ HandedOverOrClosed'
  BY Zenon, <1>1 DEF Control, Opening, Handshaking, ProxyFacts, HandedOverOrClosed, Carrying, Over
<1>4. Carrying'
  BY Zenon, <1>1 DEF Control, Carrying, Handshaking, Over
<1>5. Failing' /\ BlamedFairly'
  BY Zenon, <1>1 DEF Control, Failing, Has, BlamedFairly
<1> QED BY Zenon, <1>2, <1>3, <1>4, <1>5 DEF Control

LEMMA InterruptsControl ==
    ASSUME ControlTypes, Control, Interrupts
    PROVE  ControlTypes' /\ Control'
<1>1. /\ UNCHANGED <<phase, told, watch, toClient, opening, conn, afterFunc, deadline, opened, fault>>
      /\ context' \in Contexts /\ late' \in BOOLEAN /\ (late => late')
      /\ context' = "expired" => late'
      /\ context # "live" => context' = context
  BY Zenon DEF Interrupts, DeadlinePasses, ContextEnds, Elsewhere, local, ControlTypes, ProxyTypeOK, Contexts
<1>2. ControlTypes'
  BY <1>1 DEF ControlTypes, ProxyTypeOK, Contexts, Phases, ProxyFacts
<1>3. Opening' /\ HandedOverOrClosed'
  BY Zenon, <1>1 DEF Control, Opening, Handshaking, ProxyFacts, HandedOverOrClosed
<1>4. Carrying'
  BY Zenon, <1>1 DEF Control, Carrying, Handshaking, Over
<1>5. Failing' /\ BlamedFairly'
  BY Zenon, <1>1 DEF Control, Failing, Has, BlamedFairly
<1> QED BY Zenon, <1>2, <1>3, <1>4, <1>5 DEF Control

LEMMA WatchersControl ==
    ASSUME ControlTypes, Control, Watchers
    PROVE  ControlTypes' /\ Control'
<1>1. CASE closeOnCancel
  <2>1. /\ watch = "on" /\ context # "live" /\ watch' = "fired" /\ conn' = "closed"
        /\ UNCHANGED <<phase, told, context, fault, opening, late, afterFunc, deadline, opened, toClient>>
    BY Zenon, <1>1 DEF closeOnCancel, local, openVars
  <2>2. ControlTypes'
    BY <2>1 DEF ControlTypes, ProxyTypeOK, Contexts, Phases, ProxyFacts
  <2>3. phase \notin {"dial", "proxy", "handshake"} /\ opening \in {"idle", "over"}
    BY Zenon, <2>1 DEF Control, Carrying, Handshaking, ControlTypes, ProxyTypeOK
  <2>4. Opening' /\ HandedOverOrClosed'
    BY Zenon, <2>1, <2>3 DEF Control, Opening, Handshaking, ProxyFacts, HandedOverOrClosed
  <2>5. Carrying'
    BY Zenon, <2>1, <2>3 DEF Control, Carrying, Handshaking, Over
  <2>6. Failing' /\ BlamedFairly'
    BY Zenon, <2>1 DEF Control, Failing, Has, BlamedFairly
  <2> QED BY Zenon, <2>2, <2>4, <2>5, <2>6 DEF Control
<1>2. CASE closeAfterCancel /\ Elsewhere
  <2>1. /\ afterFunc = "armed" /\ context # "live" /\ afterFunc' = "ran" /\ conn' = "closed"
        /\ UNCHANGED <<phase, told, watch, context, fault, opening, late, deadline, opened, toClient>>
    BY Zenon, <1>2 DEF closeAfterCancel, Elsewhere, local
  <2>2. ControlTypes'
    BY <2>1 DEF ControlTypes, ProxyTypeOK, Contexts, Phases, ProxyFacts
  <2>3. Handshaking /\ phase = "proxy" /\ opened = "none"
    BY Zenon, <2>1 DEF Control, Opening, Carrying, Handshaking, ControlTypes, ProxyTypeOK
  <2>4. Opening' /\ HandedOverOrClosed'
    BY Zenon, <2>1, <2>3 DEF Opening, Handshaking, HandedOverOrClosed
  <2>5. Carrying'
    BY Zenon, <2>1, <2>3 DEF Control, Carrying, Handshaking, Over
  <2>6. Failing' /\ BlamedFairly'
    BY Zenon, <2>1 DEF Control, Failing, Has, BlamedFairly
  <2> QED BY Zenon, <2>2, <2>4, <2>5, <2>6 DEF Control
<1> QED BY Zenon, <1>1, <1>2 DEF Watchers

\* The steps that move no frame.
Steps ==
    \/ doProfiledRequest \/ profiledProxyDial \/ profiledProxyDialed \/ upgradeProfiledTLS
    \/ panic \/ readFails \/ readEOF \/ Interrupts \/ Watchers

LEMMA StepsFrame ==
    ASSUME Steps
    PROVE  /\ UNCHANGED local
           /\ phase' \in {"dial", "proxy", "handshake", "open"} =>
                phase \in {"dial", "proxy", "handshake", "open"}
           /\ phase' \notin {"body", "done", "failed"} => phase \notin {"body", "done", "failed"}
           /\ phase' = "done" => phase = "done" \/ (body.done /\ body.pending = 0)
           /\ Uploads' => Uploads
BY Zenon DEF Steps, doProfiledRequest, profiledProxyDial, profiledProxyDialed, upgradeProfiledTLS,
       panic, readFails, readEOF, Interrupts, Watchers, FailsHere, closeOnError, Elsewhere,
       closeOnCancel, Uploads, Writing

LEMMA FramedStays ==
    ASSUME Local, Origin \/ PeerControls \/ PeerFault
    PROVE  peer'.framed = peer.framed
<1>1. peer \in Peers
  BY Zenon DEF Local, LocalTypes
<1>2. CASE PeerReceives
  <2>1. PICK f : f = Head(toPeer)
    BY Zenon
  <2>2. \/ peer' = [peer EXCEPT !.outStream = @ + f.n - DefaultWindow]
        \/ peer' = [peer EXCEPT !.outConnection = @ + f.n]
        \/ peer' = [peer EXCEPT !.asked = TRUE]
        \/ peer' = [peer EXCEPT !.received = @ + f.n, !.connection = @ - f.n, !.stream = @ - f.n,
                     !.overrun = @ \/ (HTTP2 /\ f.n > Least({peer.connection, peer.stream}))]
        \/ peer' = [peer EXCEPT !.stream = @ + Head(peer.unacked) - peer.initial,
                                !.initial = Head(peer.unacked), !.unacked = Tail(@)]
        \/ peer' = peer
    BY Zenon, <1>2, <2>1 DEF PeerReceives
  <2> QED BY Zenon, <1>1, <2>2 DEF Peers
<1>3. CASE PeerSettings
  BY Zenon, <1>1, <1>3 DEF PeerSettings, Peers
<1>4. CASE PeerGrants
  BY Zenon, <1>1, <1>4 DEF PeerGrants, Peers
<1>5. CASE PeerAnswers
  BY Zenon, <1>1, <1>5 DEF PeerAnswers, Peers
<1>6. CASE PeerBody
  <2> DEFINE n == IF HTTP2 THEN Least({peer.outConnection, peer.outStream, FrameSize, Download - peer.sent})
                  ELSE Download - peer.sent
  <2>1. PICK last : peer' = [peer EXCEPT !.sent = @ + n, !.answer = IF last THEN "over" ELSE "body",
                                         !.outConnection = @ - n, !.outStream = @ - n]
    BY Zenon, <1>6 DEF PeerBody
  <2> HIDE DEF n
  <2> QED BY Zenon, <1>1, <2>1 DEF Peers
<1>7. CASE PeerControls \/ PeerFault
  BY Zenon, <1>1, <1>7 DEF PeerControls, PeerFault, Peers
<1> QED BY Zenon, <1>2, <1>3, <1>4, <1>5, <1>6, <1>7 DEF Origin

\* What is broken stays so.
LEMMA CutStays ==
    ASSUME Local, [Next]_vars
    PROVE  Cut => Cut'
<1> USE DEF Cut
<1>1. CASE Steps
  <2>1. UNCHANGED peer
    BY Zenon, <1>1, StepsFrame DEF local
  <2>2. fault => fault'
    <3>1. CASE doProfiledRequest \/ upgradeProfiledTLS
      BY Zenon, <3>1 DEF doProfiledRequest, upgradeProfiledTLS, FailsHere, proxyVars
    <3>2. CASE profiledProxyDial
      BY Zenon, <3>2 DEF profiledProxyDial, Open, openProfile, dialUpstreamProxy,
         upgradeUpstreamProxyTLS, writeUpstreamProxyConnect, readUpstreamProxyResponse,
         rejectUpstreamProxyStatus, finish, Exchange
    <3>3. CASE profiledProxyDialed \/ panic \/ readFails \/ readEOF
      BY Zenon, <3>3 DEF profiledProxyDialed, panic, readFails, readEOF
    <3>4. CASE Interrupts \/ Watchers
      BY Zenon, <3>4 DEF Interrupts, Watchers, closeOnCancel, closeAfterCancel, DeadlinePasses, ContextEnds
    <3> QED BY Zenon, <1>1, <3>1, <3>2, <3>3, <3>4 DEF Steps
  <2> QED BY Zenon, <2>1, <2>2
<1>2. CASE Executor /\ ~Steps
  BY Zenon, <1>2 DEF Executor, Steps, doProfiledHTTP1, doProfiledHTTP2, writeProfiledHTTP2Data,
     applyProfiledPeerSettings, applyProfiledWindowUpdate, acknowledgeProfiledPing, ignoreFrame,
     finalProfiledResponseHeaders, acceptData, readUntilEOF, consumePending, readFrame, proxyVars
<1>3. CASE Origin \/ PeerControls \/ PeerFault
  <2>1. fault => fault'
    BY Zenon, <1>3 DEF Origin, PeerReceives, PeerSettings, PeerGrants, PeerAnswers, PeerBody,
       PeerControls, PeerFault, PeerOnly, proxyVars
  <2> QED BY Zenon, <1>3, <2>1, FramedStays
<1>4. CASE UNCHANGED vars
  BY Zenon, <1>4 DEF vars, local, proxyVars
<1> QED BY Zenon, <1>1, <1>2, <1>3, <1>4 DEF Next, Steps

LEMMA StepsControl ==
    ASSUME Local, ControlTypes, Control, Steps
    PROVE  Local' /\ ControlTypes' /\ Control'
<1>1. Local'
  BY Zenon, StepsFrame, LocalSame
<1>2. ControlTypes' /\ Control'
  BY Zenon, RequestControl, OpenControl, DialedControl, HandshakeControl, EndControl, ReadFailsControl,
     InterruptsControl, WatchersControl DEF Steps
<1> QED BY Zenon, <1>1, <1>2

-----------------------------------------------------------------------------
(* The response.                                                           *)

LEMMA DeliversSame ==
    ASSUME NEW led, Delivers(led), toClient' = toClient,
           body'.got + body'.pending = body.got + body.pending,
           peer'.sent = peer.sent, peer'.answer = peer.answer
    PROVE  Delivers(led)'
BY Zenon DEF Delivers, Ends, Counts, Amount

LEMMA DeliversRead ==
    ASSUME Local, NEW led, Delivers(led), toClient # <<>>, toClient' = Tail(toClient),
           peer'.sent = peer.sent, peer'.answer = peer.answer,
           body'.got + body'.pending = led[0] + Amount(Head(toClient), "data")
    PROVE  \E new : Delivers(new)'
<1>0. toClient \in Seq(Frames(ClientKinds))
  BY Zenon DEF Local, LocalTypes
<1>1. PICK new : /\ Counts(Tail(toClient), "data", new)
                 /\ \A i \in 0..Len(toClient) - 1 : new[i] = led[i + 1]
                 /\ led[1] = led[0] + Amount(Head(toClient), "data")
  BY ZenonT(40), <1>0, CountsTail DEF Delivers
<1>2. Len(toClient) \in Nat \ {0} /\ Len(Tail(toClient)) = Len(toClient) - 1
      /\ (\A i \in 1..Len(toClient) - 1 : Tail(toClient)[i] = toClient[i + 1])
  BY Zenon, <1>0, TailFacts
<1>3. new[0] = led[1] /\ new[Len(toClient) - 1] = led[Len(toClient)]
  BY <1>1, <1>2
<1>4. \A i \in 1..Len(toClient') : i + 1 \in 1..Len(toClient) /\ toClient'[i] = toClient[i + 1]
                                   /\ new[i] = led[i + 1]
  BY <1>1, <1>2
<1>5. \A i \in 1..Len(toClient') :
        /\ toClient'[i].kind = "headers" => toClient'[i].n = 0
        /\ Ends(toClient'[i]) => peer'.answer = "over" /\ new[i] = peer'.sent
  BY Zenon, <1>4 DEF Delivers
<1>6. Counts(toClient, "data", new)'
  BY Zenon, <1>1 DEF Counts, Amount
<1>7. new[0] = body'.got + body'.pending /\ new[Len(toClient')] = peer'.sent
  BY Zenon, <1>1, <1>2, <1>3 DEF Delivers
<1> QED BY Zenon, <1>5, <1>6, <1>7 DEF Delivers, Ends

LEMMA DeliversSent ==
    ASSUME Local, NEW led, Delivers(led), NEW f \in Frames(ClientKinds), toClient' = Append(toClient, f),
           UNCHANGED body, peer'.sent = peer.sent + Amount(f, "data"),
           f.kind = "headers" => f.n = 0,
           Ends(f) => peer'.answer = "over",
           \/ f.kind \notin {"data", "headers"} /\ peer'.answer = peer.answer
           \/ peer.answer # "over"
    PROVE  \E new : Delivers(new)'
<1>0. toClient \in Seq(Frames(ClientKinds)) /\ Amount(f, "data") \in Nat
  BY Zenon, AmountType DEF Local, LocalTypes
<1>1. PICK new : /\ Counts(Append(toClient, f), "data", new)
                 /\ \A i \in 0..Len(toClient) : new[i] = led[i]
                 /\ new[Len(toClient) + 1] = led[Len(toClient)] + Amount(f, "data")
  BY <1>0, CountsAppend DEF Delivers
<1>2. Len(toClient) \in Nat /\ Len(toClient') = Len(toClient) + 1
      /\ (\A i \in 1..Len(toClient) : toClient'[i] = toClient[i]) /\ toClient'[Len(toClient) + 1] = f
  BY <1>0, AppendFacts
<1>3. new[0] = led[0] /\ led[Len(toClient)] = peer.sent /\ led[0] = body.got + body.pending
  BY <1>1, <1>2 DEF Delivers
<1>4. \A i \in 1..Len(toClient) : Ends(toClient[i]) => peer'.answer = "over" /\ new[i] = peer'.sent
  <2>1. CASE f.kind \notin {"data", "headers"} /\ peer'.answer = peer.answer
    <3>1. Amount(f, "data") = 0
      BY Zenon, <2>1 DEF Amount
    <3>2. peer'.sent = peer.sent
      BY <3>1 DEF Local, LocalTypes, Peers
    <3> QED BY <1>1, <1>2, <2>1, <3>2 DEF Delivers
  <2>2. CASE peer.answer # "over"
    BY Zenon, <2>2 DEF Delivers
  <2> QED BY Zenon, <2>1, <2>2
<1>5. \A i \in 1..Len(toClient') :
        /\ toClient'[i].kind = "headers" => toClient'[i].n = 0
        /\ Ends(toClient'[i]) => peer'.answer = "over" /\ new[i] = peer'.sent
  <2> SUFFICES ASSUME NEW i \in 1..Len(toClient')
               PROVE  /\ toClient'[i].kind = "headers" => toClient'[i].n = 0
                      /\ Ends(toClient'[i]) => peer'.answer = "over" /\ new[i] = peer'.sent
    BY Zenon
  <2>1. CASE i \in 1..Len(toClient)
    BY Zenon, <1>2, <1>4, <2>1 DEF Delivers
  <2>2. CASE i = Len(toClient) + 1
    BY Zenon, <1>1, <1>2, <1>3, <2>2
  <2> QED BY <1>2, <2>1, <2>2
<1>6. Counts(toClient, "data", new)'
  BY Zenon, <1>1 DEF Counts, Amount
<1>7. new[0] = body'.got + body'.pending /\ new[Len(toClient')] = peer'.sent
  BY Zenon, <1>1, <1>2, <1>3
<1> QED BY Zenon, <1>5, <1>6, <1>7 DEF Delivers, Ends

LEMMA StepsArriving ==
    ASSUME Arriving, Cut => Cut', Steps
    PROVE  Arriving'
<1>1. PICK led : Delivers(led)
  BY Zenon DEF Arriving
<1>2. UNCHANGED <<body, toClient, peer>>
  BY Zenon, StepsFrame DEF local
<1>3. Delivers(led)'
  BY Zenon, <1>1, <1>2, DeliversSame
<1> QED BY Zenon, <1>2, <1>3, StepsFrame DEF Arriving

LEMMA WriterArriving ==
    ASSUME Arriving, Cut => Cut', doProfiledHTTP1 \/ doProfiledHTTP2 \/ writeProfiledHTTP2Data
    PROVE  Arriving'
<1>1. PICK led : Delivers(led)
  BY Zenon DEF Arriving
<1>2. UNCHANGED <<body, toClient, peer>> /\ phase \in {"open", "upload"}
      /\ phase' \in {"response", "settings", "upload"}
  BY Zenon DEF doProfiledHTTP1, doProfiledHTTP2, writeProfiledHTTP2Data
<1>3. Delivers(led)'
  BY Zenon, <1>1, <1>2, DeliversSame
<1> QED BY Zenon, <1>2, <1>3 DEF Arriving

LEMMA ConsumeArriving ==
    ASSUME Local, Arriving, Cut => Cut', consumePending
    PROVE  Arriving'
<1>1. PICK led : Delivers(led)
  BY Zenon DEF Arriving
<1>2. /\ phase = "body" /\ UNCHANGED <<phase, toClient, peer>>
      /\ body'.got + body'.pending = body.got + body.pending /\ body'.done = body.done
  BY Zenon, ConsumeLocal
<1>3. Delivers(led)'
  BY Zenon, <1>1, <1>2, DeliversSame
<1> QED BY Zenon, <1>2, <1>3 DEF Arriving

\* Frames that carry nothing of the response.
LEMMA AsideArriving ==
    ASSUME Local, Arriving, Cut => Cut',
           \/ applyProfiledPeerSettings \/ applyProfiledWindowUpdate \/ acknowledgeProfiledPing
           \/ ignoreFrame
    PROVE  Arriving'
<1>1. PICK led : Delivers(led)
  BY Zenon DEF Arriving
<1>2. PICK kind \in {"settings", "window0", "window1", "ping", "ack", "1xx"} : Reads(kind)
  BY Zenon DEF applyProfiledPeerSettings, applyProfiledWindowUpdate, acknowledgeProfiledPing, ignoreFrame
<1>3. toClient # <<>> /\ Head(toClient).kind = kind /\ phase \in {"settings", "response", "upload", "body"}
  BY Zenon, <1>2, ReadFacts
<1>4. /\ UNCHANGED <<body, peer>> /\ toClient' = Tail(toClient)
      /\ phase' = phase \/ (phase \in {"open", "settings", "upload"} /\ phase' = "upload")
  BY Zenon DEF applyProfiledPeerSettings, applyProfiledWindowUpdate, acknowledgeProfiledPing,
         ignoreFrame, readFrame, Writing
<1>5. Amount(Head(toClient), "data") = 0
  BY Zenon, <1>2, <1>3 DEF Amount
<1>6. led[0] = body.got + body.pending /\ led[0] \in Int
  BY <1>1 DEF Delivers, Local, LocalTypes
<1>7. \E new : Delivers(new)'
  BY <1>1, <1>3, <1>4, <1>5, <1>6, DeliversRead
<1> QED BY Zenon, <1>4, <1>7 DEF Arriving

LEMMA HeadersArriving ==
    ASSUME Local, Arriving, finalProfiledResponseHeaders
    PROVE  Arriving'
<1>1. PICK led : Delivers(led)
  BY Zenon DEF Arriving
<1>2. /\ toClient # <<>> /\ Head(toClient) \in Frames(ClientKinds) /\ Head(toClient).kind = "headers"
      /\ phase \in {"settings", "response", "upload"}
  BY Zenon, ReadFacts DEF finalProfiledResponseHeaders
<1>3. /\ UNCHANGED peer /\ toClient' = Tail(toClient) /\ phase' = "body"
      /\ body' = [body EXCEPT !.done = Head(toClient).last]
  BY Zenon DEF finalProfiledResponseHeaders, readFrame
<1>4. body \in [pending : Nat, done : BOOLEAN, got : Nat]
  BY Zenon DEF Local, LocalTypes
<1>5. body'.got = body.got /\ body'.pending = body.pending /\ body'.done = Head(toClient).last
  BY Zenon, <1>3, <1>4
<1>6. Head(toClient) = toClient[1] /\ 1 \in 1..Len(toClient) /\ Len(toClient) \in Nat
  BY <1>2, TailFacts DEF Local, LocalTypes
<1>7. Amount(Head(toClient), "data") = 0 /\ led[1] = led[0] + Amount(Head(toClient), "data")
      /\ led[0] = body.got + body.pending /\ led[0] \in Int
  BY <1>1, <1>2, <1>4, <1>6, CountsTail DEF Amount, Delivers, Counts
<1>8. \E new : Delivers(new)'
  BY <1>1, <1>2, <1>3, <1>5, <1>7, DeliversRead
<1>9. Head(toClient).last => peer.answer = "over" /\ led[1] = peer.sent
  BY Zenon, <1>1, <1>2, <1>6 DEF Delivers, Ends
<1>10. body'.done => peer'.answer = "over" /\ body'.got + body'.pending = peer'.sent
  BY <1>3, <1>5, <1>7, <1>9
<1> QED BY Zenon, <1>3, <1>8, <1>10 DEF Arriving

LEMMA DataArriving ==
    ASSUME Local, Arriving, acceptData
    PROVE  Arriving'
<1>1. PICK led : Delivers(led)
  BY Zenon DEF Arriving
<1>2. PICK kind \in {"data", "headers"} : Reads(kind)
  BY Zenon DEF acceptData
<1>3. toClient # <<>> /\ Head(toClient) \in Frames(ClientKinds) /\ Head(toClient).kind = kind
  BY Zenon, <1>2, ReadFacts
<1>4. phase = "body" /\ body.pending = 0 /\ ~body.done
  BY Zenon, <1>2 DEF acceptData, Reads, Waiting
<1>5. /\ UNCHANGED <<peer, phase>> /\ toClient' = Tail(toClient)
      /\ body' = [body EXCEPT !.pending = Head(toClient).n, !.done = Head(toClient).last]
  BY Zenon DEF acceptData, readFrame
<1>6. body \in [pending : Nat, done : BOOLEAN, got : Nat] /\ Head(toClient).n \in Nat
  BY Zenon, <1>3 DEF Local, LocalTypes, Frames
<1>7. body'.got = body.got /\ body'.pending = Head(toClient).n /\ body'.done = Head(toClient).last
  BY Zenon, <1>5, <1>6
<1>8. Head(toClient) = toClient[1] /\ 1 \in 1..Len(toClient) /\ Len(toClient) \in Nat
  BY <1>3, TailFacts DEF Local, LocalTypes
<1>9. Amount(Head(toClient), "data") = Head(toClient).n
  BY Zenon, <1>1, <1>2, <1>3, <1>8 DEF Amount, Delivers
<1>10. led[0] = body.got /\ led[1] = led[0] + Amount(Head(toClient), "data")
  <2>1. led[1] = led[1 - 1] + Amount(toClient[1], "data")
    BY Zenon, <1>1, <1>8 DEF Delivers, Counts
  <2> QED BY <1>1, <1>4, <1>6, <1>8, <2>1 DEF Delivers
<1>11. \E new : Delivers(new)'
  BY Zenon, <1>1, <1>3, <1>5, <1>7, <1>9, <1>10, DeliversRead
<1>12. Head(toClient).last => peer.answer = "over" /\ led[1] = peer.sent
  BY Zenon, <1>1, <1>2, <1>3, <1>8 DEF Delivers, Ends
<1>13. body'.done => peer'.answer = "over" /\ body'.got + body'.pending = peer'.sent
  BY Zenon, <1>5, <1>7, <1>9, <1>10, <1>12
<1> QED BY Zenon, <1>4, <1>5, <1>11, <1>13 DEF Arriving

\* A body that ends with the connection: the origin broke it.
LEMMA UntilEOFArriving ==
    ASSUME Local, Control, Arriving, readUntilEOF
    PROVE  Arriving'
<1>1. PICK led : Delivers(led)
  BY Zenon DEF Arriving
<1>2. /\ toClient # <<>> /\ Head(toClient).kind = "eof" /\ phase = "body"
  BY Zenon, ReadFacts DEF readUntilEOF
<1>3. /\ UNCHANGED <<peer, phase, fault>> /\ toClient' = Tail(toClient) /\ ~peer.framed
      /\ body' = [body EXCEPT !.done = TRUE]
  BY Zenon DEF readUntilEOF, readFrame, proxyVars
<1>4. body \in [pending : Nat, done : BOOLEAN, got : Nat]
  BY Zenon DEF Local, LocalTypes
<1>5. body'.got = body.got /\ body'.pending = body.pending
  BY Zenon, <1>3, <1>4
<1>6. Amount(Head(toClient), "data") = 0
  BY Zenon, <1>2 DEF Amount
<1>7. led[0] = body.got + body.pending /\ led[0] \in Int
  BY <1>1, <1>4 DEF Delivers
<1>8. \E new : Delivers(new)'
  BY <1>1, <1>2, <1>3, <1>5, <1>6, <1>7, DeliversRead
<1>9. Has(toClient, {"rst", "goaway", "eof"})
  BY Zenon, <1>2, HasTail DEF Local, LocalTypes
<1>10. Cut'
  BY Zenon, <1>3, <1>9 DEF Control, Failing, Cut
<1> QED BY Zenon, <1>2, <1>3, <1>8, <1>10 DEF Arriving

LEMMA OriginArriving ==
    ASSUME Local, Arriving, Cut => Cut', Origin \/ PeerControls \/ PeerFault
    PROVE  Arriving'
<1>0. peer.sent <= Download
  BY Zenon DEF Arriving
<1>1. PICK led : Delivers(led)
  BY Zenon DEF Arriving
<1>2. ASSUME UNCHANGED <<phase, body>>, peer'.sent = peer.sent, peer'.answer = peer.answer,
             NEW f \in Frames(ClientKinds), f.kind \notin {"data", "headers"},
             toClient' = toClient \/ toClient' = Append(toClient, f)
      PROVE  Arriving'
  <2>1. CASE toClient' = toClient
    <3>1. Delivers(led)'
      BY Zenon, <1>1, <1>2, <2>1, DeliversSame
    <3> QED BY Zenon, <1>2, <3>1 DEF Arriving
  <2>2. CASE toClient' = Append(toClient, f)
    <3>1. Amount(f, "data") = 0 /\ peer.sent \in Nat
      BY Zenon, <1>2 DEF Amount, Local, LocalTypes, Peers
    <3>2. peer'.sent = peer.sent + Amount(f, "data")
      BY <1>2, <3>1
    <3>3. \E new : Delivers(new)'
      BY Zenon, <1>1, <1>2, <2>2, <3>2, DeliversSent DEF Ends
    <3> QED BY Zenon, <1>2, <3>3 DEF Arriving
  <2> QED BY Zenon, <1>2, <2>1, <2>2
<1>3. CASE PeerReceives
  <2>1. PICK f : f = F("ack", 0, FALSE)
    BY Zenon
  <2>2. f \in Frames(ClientKinds) /\ f.kind \notin {"data", "headers"}
    BY Zenon, <2>1 DEF F, Frames, ClientKinds
  <2>3. UNCHANGED <<phase, body>> /\ peer'.sent = peer.sent /\ peer'.answer = peer.answer
        /\ (toClient' = toClient \/ toClient' = Append(toClient, f))
    BY Zenon, <1>3, <2>1, ReceiveFacts
  <2> QED BY Zenon, <1>2, <2>2, <2>3
<1>4. CASE PeerSettings
  <2>1. PICK w \in PeerWindows :
           /\ UNCHANGED <<phase, body>> /\ Sends(F("settings", w, FALSE))
           /\ peer'.sent = peer.sent /\ peer'.answer = peer.answer
    BY Zenon, <1>4, PeerSettingsFacts
  <2>2. PICK f : f = F("settings", w, FALSE)
    BY Zenon
  <2>3. f \in Frames(ClientKinds) /\ f.kind \notin {"data", "headers"}
    BY Zenon, <2>2, ProfileAssumption DEF F, Frames, ClientKinds
  <2>4. toClient' = Append(toClient, f)
    BY Zenon, <2>1, <2>2 DEF Sends
  <2> QED BY Zenon, <1>2, <2>1, <2>3, <2>4
<1>5. CASE PeerGrants
  <2>1. PICK n \in Nat, kind \in {"window0", "window1"} : Grants(kind, n)
    BY Zenon, <1>5, GrantsFacts
  <2>2. PICK f : f = F(kind, n, FALSE)
    BY Zenon
  <2>3. f \in Frames(ClientKinds) /\ f.kind \notin {"data", "headers"}
    BY Zenon, <2>2 DEF F, Frames, ClientKinds
  <2>4. toClient' = Append(toClient, f) /\ UNCHANGED <<phase, body>>
        /\ peer'.sent = peer.sent /\ peer'.answer = peer.answer
    BY Zenon, <1>5, <2>1, <2>2, GrantsFacts DEF Grants, Sends
  <2> QED BY Zenon, <1>2, <2>3, <2>4
<1>6. CASE PeerControls \/ PeerFault
  <2>1. PICK f : f.kind \in {"ping", "1xx", "rst", "goaway", "eof"} /\ Tells(f)
    BY <1>6, ControlsFacts
  <2>2. f \in Frames(ClientKinds) /\ toClient' = Append(toClient, f) /\ f.kind \notin {"data", "headers"}
    BY Zenon, <2>1 DEF Tells, Sends
  <2>3. UNCHANGED <<phase, body>> /\ peer'.sent = peer.sent /\ peer'.answer = peer.answer
    BY Zenon, <1>6, ControlsFacts
  <2> QED BY Zenon, <1>2, <2>2, <2>3
<1>7. CASE PeerAnswers \/ PeerBody
  <2>1. UNCHANGED <<phase, body>> /\ peer.answer # "over"
    BY Zenon, <1>0, <1>7, AnswersFacts
  <2>2. PICK f : /\ Tells(f) /\ f.kind \in {"data", "headers"}
                 /\ f.kind = "headers" => f.n = 0
                 /\ peer'.sent = peer.sent + f.n /\ peer'.sent <= Download
                 /\ f.last => peer'.answer = "over"
                 /\ peer'.answer = "over" => peer'.sent = Download
    BY Zenon, <1>0, <1>7, AnswersFacts
  <2>3. f \in Frames(ClientKinds) /\ toClient' = Append(toClient, f)
    BY Zenon, <2>2 DEF Tells, Sends
  <2>4. Amount(f, "data") = f.n
    BY Zenon, <2>2 DEF Amount
  <2>5. Ends(f) => peer'.answer = "over"
    BY Zenon, <2>2 DEF Ends
  <2>6. \E new : Delivers(new)'
    BY Zenon, <1>1, <2>1, <2>2, <2>3, <2>4, <2>5, DeliversSent
  <2>7. body.done => Cut
    BY Zenon, <2>1 DEF Arriving
  <2> QED BY Zenon, <2>1, <2>2, <2>6, <2>7 DEF Arriving
<1> QED BY Zenon, <1>3, <1>4, <1>5, <1>6, <1>7 DEF Origin

-----------------------------------------------------------------------------
(* The request.                                                            *)

Credit == Head(peer.unacked) - peer.initial

LEMMA LimitAt ==
    Limit(Len(toPeer)) = peer.stream + peer.received + (IF Has(toPeer, {"ack"}) THEN Credit ELSE 0)
<1>1. (\E j \in 1..Len(toPeer) : toPeer[j].kind = "ack") <=> Has(toPeer, {"ack"})
  BY Zenon DEF Has
<1> QED BY Zenon, <1>1 DEF Limit, Credit

LEMMA LimitType ==
    ASSUME Local, NEW i \in 0..Len(toPeer)
    PROVE  Limit(i) \in Int /\ peer.stream \in Int /\ peer.received \in Nat /\ peer.connection \in Int
           /\ peer.initial \in Nat /\ (Has(toPeer, {"ack"}) => Head(peer.unacked) \in Nat)
<1>1. peer.stream \in Int /\ peer.received \in Nat /\ peer.connection \in Int /\ peer.initial \in Nat
      /\ peer.unacked \in Seq(PeerWindows)
  BY Zenon DEF Local, LocalTypes, Peers
<1>2. Has(toPeer, {"ack"}) => Head(peer.unacked) \in Nat
  <2>1. Has(toPeer, {"ack"}) => peer.unacked # <<>>
    BY Zenon DEF Local, Settings
  <2> QED BY Zenon, <1>1, <2>1, TailFacts, ProfileAssumption
<1>3. (\E j \in 1..i : toPeer[j].kind = "ack") => Has(toPeer, {"ack"})
  BY DEF Has, Local, LocalTypes
<1> QED BY SMTT(40), <1>1, <1>2, <1>3 DEF Limit

LEMMA WindowsSame ==
    ASSUME Windows, UNCHANGED <<protocol, flow, left, toPeer, toClient, peer>>, Uploads' => Uploads
    PROVE  Windows'
<1>1. PICK led : Sent(led)
  BY Zenon DEF Windows
<1>2. Sent(led)'
  BY Zenon, <1>1 DEF Sent, Counts, Amount, Limit, HTTP2
<1>3. Granted => Granted'
  BY Zenon DEF Granted, Sums, Counts, Amount, Limit, Has
<1> QED BY Zenon, <1>2, <1>3 DEF Windows, HTTP2, UploadWithinWindows

LEMMA HTTP1Windows ==
    ASSUME Local, Windows, doProfiledHTTP1
    PROVE  Windows'
<1>1. PICK led : Sent(led)
  BY Zenon DEF Windows
<1>2. toPeer = <<>> /\ left = Upload /\ Upload \in Nat
  BY Zenon, ProfileAssumption DEF Local, Fresh, doProfiledHTTP1
<1>3. peer.received = 0
  BY <1>1, <1>2 DEF Sent
<1>4. /\ phase' = "response" /\ left' = 0 /\ peer' = peer /\ protocol' = protocol /\ protocol # "h2"
      /\ phase = "open"
  BY Zenon DEF doProfiledHTTP1
<1>5. PICK headers, data : headers = F("headers", 0, Upload = 0) /\ data = F("data", Upload, TRUE)
  BY Zenon
<1>6. headers.kind = "headers" /\ data.kind = "data" /\ data.n = Upload
  BY Zenon, <1>5 DEF F
<1>7. toPeer' = IF Upload = 0 THEN <<headers>> ELSE <<headers, data>>
  BY Zenon, <1>4, <1>5, OpenedFrames
<1>8. PICK new : new = [i \in 0..Len(toPeer') |-> IF i = 2 THEN Upload ELSE 0]
  BY Zenon
<1>9. Counts(toPeer', "data", new) /\ new[0] = 0 /\ new[Len(toPeer')] = Upload
  <2>1. CASE Upload = 0
    <3>1. toPeer' = <<headers>> /\ Len(toPeer') = 1 /\ toPeer'[1] = headers
      BY Zenon, <1>7, <2>1
    <3>2. new \in [0..1 -> Int] /\ new[0] = 0 /\ new[1] = 0
      BY <1>8, <1>2, <3>1
    <3>3. Amount(headers, "data") = 0
      BY Zenon, <1>6 DEF Amount
    <3> QED BY <2>1, <3>1, <3>2, <3>3 DEF Counts
  <2>2. CASE Upload # 0
    <3>1. toPeer' = <<headers, data>> /\ Len(toPeer') = 2 /\ toPeer'[1] = headers /\ toPeer'[2] = data
      BY Zenon, <1>7, <2>2
    <3>2. new \in [0..2 -> Int] /\ new[0] = 0 /\ new[1] = 0 /\ new[2] = Upload
      BY <1>8, <1>2, <3>1
    <3>3. Amount(headers, "data") = 0 /\ Amount(data, "data") = Upload
      BY Zenon, <1>6 DEF Amount
    <3> QED BY <1>2, <3>1, <3>2, <3>3 DEF Counts
  <2> QED BY Zenon, <2>1, <2>2
<1>10. Sent(new)'
  <2>1. ~HTTP2' /\ Upload - left' = Upload
    BY <1>2, <1>4 DEF HTTP2
  <2>2. Counts(toPeer, "data", new)'
    BY Zenon, <1>9 DEF Counts, Amount
  <2> QED BY Zenon, <1>3, <1>4, <1>9, <2>1, <2>2 DEF Sent
<1>11. ~Uploads'
  BY Zenon, <1>4 DEF Uploads, Writing
<1> QED BY Zenon, <1>4, <1>10, <1>11 DEF Windows, UploadWithinWindows

LEMMA HTTP2Windows ==
    ASSUME Local, Windows, doProfiledHTTP2
    PROVE  Windows'
<1>1. PICK led : Sent(led)
  BY Zenon DEF Windows
<1>2. toPeer = <<>> /\ left = Upload /\ Upload \in Nat /\ Uploads /\ HTTP2
  BY Zenon, ProfileAssumption DEF Local, Fresh, doProfiledHTTP2, Uploads, Writing, HTTP2
<1>3. peer.received = 0
  BY <1>1, <1>2 DEF Sent
<1>4. UNCHANGED <<protocol, flow, left, toClient, peer>>
  BY Zenon DEF doProfiledHTTP2
<1>5. Local' /\ \A i \in 1..Len(toPeer') : toPeer'[i].kind \in {"settings", "window", "headers"}
  BY Zenon, HTTP2Local
<1>6. toPeer' \in Seq(Frames(PeerKinds)) /\ Len(toPeer') \in Nat
  BY <1>5 DEF Local, LocalTypes
<1>7. PICK new : new = [i \in 0..Len(toPeer') |-> 0]
  BY Zenon
<1>8. Counts(toPeer, "data", new)'
  <2>1. \A i \in 1..Len(toPeer') : Amount(toPeer'[i], "data") = 0
    BY Zenon, <1>5 DEF Amount
  <2>2. \A i \in 0..Len(toPeer') : new[i] = 0
    BY Zenon, <1>7
  <2>3. \A i \in 1..Len(toPeer') : new[i] = new[i - 1] + Amount(toPeer'[i], "data")
    BY <1>6, <2>1, <2>2
  <2> QED BY <1>6, <1>7, <2>2, <2>3 DEF Counts, Amount
<1>9. Sent(new)'
  BY <1>2, <1>3, <1>4, <1>5, <1>6, <1>7, <1>8 DEF Sent
<1>10. ~Has(toPeer, {"ack"}) /\ ~Has(toPeer', {"ack"})
  BY <1>2, <1>5 DEF Has
<1>11. Granted'
  <2>1. Granted
    BY Zenon, <1>2 DEF Windows
  <2>2. Limit(Len(toPeer)) = peer.stream + peer.received + 0
    BY Zenon, <1>10, LimitAt
  <2>3. Limit(Len(toPeer))' = peer'.stream + peer'.received + 0
    BY Zenon, <1>5, <1>4 DEF Limit
  <2>4. Limit(Len(toPeer))' = Limit(Len(toPeer))
    BY Zenon, <1>4, <2>2, <2>3
  <2> QED BY Zenon, <1>4, <1>10, <2>1, <2>4 DEF Granted, Sums, Counts, Amount, Has
<1> QED BY Zenon, <1>4, <1>9, <1>11 DEF Windows, UploadWithinWindows

\* A frame is added to those on their way to the origin.
LEMMA LimitKept ==
    ASSUME Local, NEW f \in Frames(PeerKinds), toPeer' = Append(toPeer, f), UNCHANGED peer
    PROVE  /\ \A i \in 0..Len(toPeer) : Limit(i)' = Limit(i)
           /\ f.kind # "ack" => Limit(Len(toPeer))' = Limit(Len(toPeer))
<1>0. toPeer \in Seq(Frames(PeerKinds))
  BY Zenon DEF Local, LocalTypes
<1>1. Len(toPeer) \in Nat /\ Len(toPeer') = Len(toPeer) + 1
      /\ (\A i \in 1..Len(toPeer) : toPeer'[i] = toPeer[i]) /\ toPeer'[Len(toPeer) + 1] = f
  BY <1>0, AppendFacts
<1>2. ASSUME NEW i \in 0..Len(toPeer) PROVE Limit(i)' = Limit(i)
  <2>1. \A j \in 1..i : toPeer'[j] = toPeer[j]
    BY <1>1
  <2>2. (\E j \in 1..i : toPeer'[j].kind = "ack") <=> (\E j \in 1..i : toPeer[j].kind = "ack")
    BY Zenon, <2>1
  <2> QED BY Zenon, <2>2 DEF Limit
<1>3. ASSUME f.kind # "ack" PROVE Limit(Len(toPeer))' = Limit(Len(toPeer))
  <2>1. (\E j \in 1..Len(toPeer') : toPeer'[j].kind = "ack")
        <=> (\E j \in 1..Len(toPeer) : toPeer[j].kind = "ack")
    BY <1>1, <1>3
  <2> QED BY Zenon, <2>1 DEF Limit
<1> QED BY Zenon, <1>2, <1>3

LEMMA SentWritten ==
    ASSUME Local, NEW led, Sent(led), NEW f \in Frames(PeerKinds), toPeer' = Append(toPeer, f),
           UNCHANGED <<peer, protocol>>, left' \in Nat, Upload - left' = Upload - left + Amount(f, "data"),
           HTTP2 /\ f.kind = "data" =>
               Upload - left' <= Limit(Len(toPeer)) /\ Upload - left' <= peer.connection + peer.received
    PROVE  \E new : Sent(new)'
<1>0. toPeer \in Seq(Frames(PeerKinds)) /\ Amount(f, "data") \in Nat
  BY Zenon, AmountType DEF Local, LocalTypes
<1>1. PICK new : /\ Counts(Append(toPeer, f), "data", new)
                 /\ \A i \in 0..Len(toPeer) : new[i] = led[i]
                 /\ new[Len(toPeer) + 1] = led[Len(toPeer)] + Amount(f, "data")
  BY <1>0, CountsAppend DEF Sent
<1>2. Len(toPeer) \in Nat /\ Len(toPeer') = Len(toPeer) + 1
      /\ (\A i \in 1..Len(toPeer) : toPeer'[i] = toPeer[i]) /\ toPeer'[Len(toPeer) + 1] = f
  BY <1>0, AppendFacts
<1>3. new[0] = led[0] /\ led[0] = peer.received /\ led[Len(toPeer)] = Upload - left
      /\ new[Len(toPeer) + 1] = Upload - left'
  BY <1>1, <1>2 DEF Sent
<1>4. ASSUME HTTP2, NEW i \in 1..Len(toPeer'), toPeer'[i].kind = "data"
      PROVE  new[i] <= Limit(i)' /\ new[i] <= peer'.connection + peer'.received
  <2>1. CASE i \in 1..Len(toPeer)
    <3>1. Limit(i)' = Limit(i) /\ new[i] = led[i] /\ toPeer[i].kind = "data"
      BY <1>1, <1>2, <1>4, <2>1, LimitKept
    <3>2. led[i] <= Limit(i) /\ led[i] <= peer.connection + peer.received
      BY Zenon, <1>4, <2>1, <3>1 DEF Sent
    <3> QED BY Zenon, <3>1, <3>2
  <2>2. CASE i = Len(toPeer) + 1
    <3>1. f.kind = "data" /\ new[i] = Upload - left'
      BY Zenon, <1>2, <1>3, <1>4, <2>2
    <3>2. Limit(Len(toPeer))' = Limit(Len(toPeer)) /\ i = Len(toPeer')
      BY Zenon, <1>2, <2>2, <3>1, LimitKept
    <3>3. Limit(i)' = Limit(Len(toPeer))
      BY Zenon, <3>2 DEF Limit
    <3> QED BY Zenon, <1>4, <3>1, <3>3
  <2> QED BY <1>2, <2>1, <2>2
<1>5. Counts(toPeer, "data", new)'
  BY Zenon, <1>1 DEF Counts, Amount
<1> QED BY Zenon, <1>2, <1>3, <1>4, <1>5 DEF Sent, HTTP2

LEMMA WriteWindows ==
    ASSUME Local, Windows, writeProfiledHTTP2Data
    PROVE  Windows'
<1>1. PICK led : Sent(led)
  BY Zenon DEF Windows
<1>2. PICK n : n = available
  BY Zenon
<1>3. n \in Nat \ {0} /\ n <= left /\ n <= flow.connection /\ n <= flow.stream
  BY <1>2, AvailableFacts DEF Local, writeProfiledHTTP2Data
<1>4. PICK f : f = F("data", n, n = left)
  BY Zenon
<1>5. f \in Frames(PeerKinds) /\ f.kind = "data" /\ f.n = n
  BY Zenon, <1>3, <1>4 DEF F, Frames, PeerKinds
<1>6. /\ toPeer' = Append(toPeer, f) /\ left' = left - n /\ UNCHANGED <<protocol, toClient, peer>>
      /\ flow' = [flow EXCEPT !.connection = @ - n, !.stream = @ - n] /\ phase = "upload"
  BY Zenon, <1>2, <1>4 DEF writeProfiledHTTP2Data
<1>7. /\ flow \in [connection : Int, stream : Int, initial : Nat, maxFrame : Nat \ {0}] /\ left \in Nat /\ Upload \in Nat
      /\ toClient \in Seq(Frames(ClientKinds)) /\ toPeer \in Seq(Frames(PeerKinds))
      /\ Len(toPeer) \in 0..Len(toPeer)
  BY ProfileAssumption DEF Local, LocalTypes
<1>8. flow'.connection = flow.connection - n /\ flow'.stream = flow.stream - n /\ flow'.initial = flow.initial
  BY Zenon, <1>6, <1>7
<1>9. HTTP2 => Granted
  BY Zenon, <1>6 DEF Windows, Uploads, Writing
<1>10. Limit(Len(toPeer)) \in Int /\ peer.connection + peer.received \in Int
  BY <1>7, LimitType
<1>11. HTTP2 =>
       /\ flow.connection + Upload - left <= peer.connection + peer.received
       /\ flow.stream + Upload - left <= Limit(Len(toPeer))
  BY Zenon, <1>7, <1>9, SumsOrder DEF Granted
<1>12. Amount(f, "data") = n
  BY Zenon, <1>5 DEF Amount
<1>13. left' \in Nat /\ Upload - left' = Upload - left + Amount(f, "data")
  BY <1>3, <1>6, <1>7, <1>12
<1>14. HTTP2 => Upload - left' <= Limit(Len(toPeer)) /\ Upload - left' <= peer.connection + peer.received
  BY SMTT(40), <1>3, <1>6, <1>7, <1>10, <1>11
<1>15. \E new : Sent(new)'
  BY Zenon, <1>1, <1>5, <1>6, <1>13, <1>14, SentWritten
<1>16. /\ Limit(Len(toPeer))' = Limit(Len(toPeer))
       /\ Has(toPeer', {"ack"}) <=> Has(toPeer, {"ack"})
  BY Zenon, <1>5, <1>6, <1>7, LimitKept, AppendFacts, HasAppend
<1>17. /\ flow'.connection + Upload - left' = flow.connection + Upload - left
       /\ flow'.stream + Upload - left' = flow.stream + Upload - left
  BY <1>3, <1>6, <1>7, <1>8
<1>18. HTTP2 => Granted'
  BY Zenon, <1>6, <1>8, <1>9, <1>16, <1>17 DEF Granted, Sums, Counts, Amount, Has
<1> QED BY Zenon, <1>6, <1>15, <1>18 DEF Windows, UploadWithinWindows, HTTP2

\* The origin takes a frame: the limits stay where they are.
LEMMA LimitReceived ==
    ASSUME Local, PeerReceives, NEW i \in 0..Len(toPeer) - 1
    PROVE  Limit(i)' = Limit(i + 1)
<1> DEFINE f == Head(toPeer)
<1>1. /\ toPeer # <<>> /\ f \in Frames(PeerKinds) /\ toPeer' = Tail(toPeer)
      /\ peer'.received = peer.received + Amount(f, "data")
      /\ IF f.kind = "ack"
         THEN /\ peer'.initial = Head(peer.unacked)
              /\ peer'.stream = peer.stream + Head(peer.unacked) - peer.initial
         ELSE /\ peer'.unacked = peer.unacked /\ peer'.initial = peer.initial
              /\ peer'.stream = peer.stream - Amount(f, "data")
  BY Zenon, ReceiveFacts
<1>2. Len(toPeer) \in Nat \ {0} /\ Len(toPeer') = Len(toPeer) - 1 /\ f = toPeer[1]
      /\ (\A j \in 1..Len(toPeer) - 1 : toPeer'[j] = toPeer[j + 1])
  BY <1>1, TailFacts DEF Local, LocalTypes
<1>3. Amount(f, "data") \in Nat
  BY Zenon, <1>1, AmountType
<1>4. peer.stream \in Int /\ peer.received \in Nat /\ peer.initial \in Nat
      /\ (Has(toPeer, {"ack"}) => Head(peer.unacked) \in Nat) /\ i + 1 \in 0..Len(toPeer)
  BY <1>2, LimitType
<1>5. CASE f.kind = "ack"
  <2>1. ~Has(toPeer', {"ack"}) /\ Has(toPeer, {"ack"})
    BY <1>2, <1>5, ReceiveLocal DEF Has
  <2>2. ~(\E j \in 1..i : toPeer'[j].kind = "ack") /\ (\E j \in 1..i + 1 : toPeer[j].kind = "ack")
    BY <1>2, <1>5, <2>1 DEF Has
  <2>3. Amount(f, "data") = 0
    BY Zenon, <1>5 DEF Amount
  <2>4. peer'.stream = peer.stream + Head(peer.unacked) - peer.initial /\ peer'.received = peer.received
    BY <1>1, <1>4, <1>5, <2>3
  <2>5. Limit(i)' = peer'.stream + peer'.received + 0
    BY Zenon, <2>2 DEF Limit
  <2>6. Limit(i + 1) = peer.stream + peer.received + (Head(peer.unacked) - peer.initial)
    BY Zenon, <2>2 DEF Limit
  <2> QED BY <1>4, <2>1, <2>4, <2>5, <2>6
<1>6. CASE f.kind # "ack"
  <2>1. (\E j \in 1..i : toPeer'[j].kind = "ack") <=> (\E j \in 1..i + 1 : toPeer[j].kind = "ack")
    <3>1. ASSUME NEW j \in 1..i + 1, toPeer[j].kind = "ack"
          PROVE  \E k \in 1..i : toPeer'[k].kind = "ack"
      <4>1. j # 1
        BY Zenon, <1>2, <1>6, <3>1
      <4>2. j - 1 \in 1..i /\ toPeer'[j - 1] = toPeer[j]
        BY <1>2, <4>1
      <4> QED BY Zenon, <3>1, <4>2
    <3>2. ASSUME NEW j \in 1..i, toPeer'[j].kind = "ack"
          PROVE  \E k \in 1..i + 1 : toPeer[k].kind = "ack"
      <4>1. j + 1 \in 1..i + 1 /\ toPeer'[j] = toPeer[j + 1]
        BY <1>2
      <4> QED BY Zenon, <3>2, <4>1
    <3> QED BY Zenon, <3>1, <3>2
  <2>2. peer'.stream + peer'.received = peer.stream + peer.received
    BY <1>1, <1>3, <1>4, <1>6
  <2>3. peer'.unacked = peer.unacked /\ peer'.initial = peer.initial
    BY Zenon, <1>1, <1>6
  <2> QED BY Zenon, <2>1, <2>2, <2>3 DEF Limit
<1> QED BY Zenon, <1>5, <1>6

LEMMA ReceiveWindows ==
    ASSUME Local, Windows, PeerReceives
    PROVE  Windows'
<1> DEFINE f == Head(toPeer)
<1>1. PICK led : Sent(led)
  BY Zenon DEF Windows
<1>2. /\ toPeer # <<>> /\ f \in Frames(PeerKinds) /\ toPeer' = Tail(toPeer)
      /\ UNCHANGED <<phase, protocol, flow, left>>
      /\ toClient' = toClient \/ toClient' = Append(toClient, F("ack", 0, FALSE))
      /\ peer'.received = peer.received + Amount(f, "data")
      /\ peer'.connection = peer.connection - Amount(f, "data")
      /\ IF f.kind = "ack" THEN peer'.initial = Head(peer.unacked)
                           ELSE peer'.unacked = peer.unacked /\ peer'.initial = peer.initial
      /\ peer'.overrun => peer.overrun
                       \/ (f.kind = "data" /\ HTTP2 /\ f.n > Least({peer.connection, peer.stream}))
  BY Zenon, ReceiveFacts
<1>3. toPeer \in Seq(Frames(PeerKinds)) /\ toClient \in Seq(Frames(ClientKinds))
  BY Zenon DEF Local, LocalTypes
<1>4. Len(toPeer) \in Nat \ {0} /\ Len(toPeer') = Len(toPeer) - 1 /\ f = toPeer[1]
      /\ (\A j \in 1..Len(toPeer) - 1 : toPeer'[j] = toPeer[j + 1])
  BY Zenon, <1>2, <1>3, TailFacts
<1>5. PICK new : /\ Counts(Tail(toPeer), "data", new)
                 /\ \A i \in 0..Len(toPeer) - 1 : new[i] = led[i + 1]
                 /\ led[1] = led[0] + Amount(f, "data")
  BY <1>1, <1>2, <1>3, CountsTail DEF Sent
<1>6. Amount(f, "data") \in Nat /\ peer.stream \in Int /\ peer.received \in Nat /\ peer.connection \in Int
  BY Zenon, <1>2, AmountType DEF Local, LocalTypes, Peers
<1>7. peer'.connection + peer'.received = peer.connection + peer.received
  BY <1>2, <1>6
<1>8. Sent(new)'
  <2>1. new[0] = peer'.received /\ new[Len(toPeer')] = Upload - left'
    BY <1>1, <1>2, <1>4, <1>5 DEF Sent
  <2>2. ASSUME HTTP2, NEW i \in 1..Len(toPeer'), toPeer'[i].kind = "data"
        PROVE  new[i] <= Limit(i)' /\ new[i] <= peer'.connection + peer'.received
    <3>1. i + 1 \in 1..Len(toPeer) /\ toPeer[i + 1].kind = "data" /\ new[i] = led[i + 1]
          /\ i \in 0..Len(toPeer) - 1
      BY <1>4, <1>5, <2>2
    <3>2. led[i + 1] <= Limit(i + 1) /\ led[i + 1] <= peer.connection + peer.received
      BY Zenon, <1>1, <2>2, <3>1 DEF Sent
    <3>3. Limit(i)' = Limit(i + 1)
      BY Zenon, <3>1, LimitReceived
    <3> QED BY Zenon, <1>7, <3>1, <3>2, <3>3
  <2>3. Counts(toPeer, "data", new)'
    BY Zenon, <1>2, <1>5 DEF Counts, Amount
  <2> QED BY Zenon, <1>2, <2>1, <2>2, <2>3 DEF Sent, HTTP2
<1>9. UploadWithinWindows'
  <2>1. CASE f.kind = "data" /\ HTTP2
    <3>1. led[0] = peer.received /\ led[1] <= Limit(1) /\ led[1] <= peer.connection + peer.received
          /\ Amount(f, "data") = f.n
      BY <1>1, <1>4, <2>1 DEF Sent, Amount
    <3>2. Limit(1) = peer.stream + peer.received + 0
      <4>1. ~(\E j \in 1..1 : toPeer[j].kind = "ack")
        BY <1>4, <2>1
      <4> QED BY Zenon, <4>1 DEF Limit
    <3>3. f.n <= peer.stream /\ f.n <= peer.connection /\ f.n \in Nat
      BY <1>5, <1>6, <3>1, <3>2
    <3>4. f.n <= Least({peer.connection, peer.stream}) /\ Least({peer.connection, peer.stream}) \in Int
      BY Zenon, <1>6, <3>3, Least2
    <3> QED BY <1>2, <3>3, <3>4 DEF Windows, UploadWithinWindows
  <2> QED BY Zenon, <1>2, <2>1 DEF Windows, UploadWithinWindows
<1>10. ASSUME HTTP2, Uploads PROVE Granted'
  <2>1. Granted
    BY Zenon, <1>10 DEF Windows
  <2>2. Limit(Len(toPeer))' = Limit(Len(toPeer))
    <3>1. PICK n : n = Len(toPeer) - 1
      BY Zenon
    <3>2. Limit(n)' = Limit(n + 1) /\ n + 1 = Len(toPeer) /\ n = Len(toPeer')
      BY <1>4, <3>1, LimitReceived
    <3> QED BY Zenon, <3>2 DEF Limit
  <2>3. flow'.initial = (IF Has(toPeer', {"ack"}) THEN Head(peer'.unacked) ELSE peer'.initial)
    <3>1. CASE f.kind = "ack"
      <4>1. Has(toPeer, {"ack"}) /\ ~Has(toPeer', {"ack"})
        BY <1>4, <3>1, ReceiveLocal DEF Has
      <4> QED BY Zenon, <1>2, <2>1, <3>1, <4>1 DEF Granted
    <3>2. CASE f.kind # "ack"
      <4>1. Has(toPeer', {"ack"}) <=> Has(toPeer, {"ack"})
        BY Zenon, <3>2, ReceiveLocal
      <4> QED BY Zenon, <1>2, <2>1, <3>2, <4>1 DEF Granted
    <3> QED BY Zenon, <3>1, <3>2
  <2>4. ASSUME NEW kind \in {"window0", "window1"}, NEW a, NEW b, Sums(toClient, kind, a, b)
        PROVE  Sums(toClient', kind, a, b)
    <3>1. CASE toClient' = toClient
      BY Zenon, <2>4, <3>1
    <3>2. CASE toClient' = Append(toClient, F("ack", 0, FALSE))
      <4>1. PICK g : g = F("ack", 0, FALSE)
        BY Zenon
      <4>2. g \in Frames(ClientKinds) /\ Amount(g, kind) = 0
        BY Zenon, <4>1 DEF F, Frames, ClientKinds, Amount
      <4>3. Sums(toClient', kind, a, b + Amount(g, kind)) /\ b \in Int
        BY Zenon, <1>3, <2>4, <3>2, <4>1, <4>2, SumsAppend, SumsOrder
      <4> QED BY <4>2, <4>3
    <3> QED BY Zenon, <1>2, <3>1, <3>2
  <2>5. /\ Sums(toClient', "window0", flow'.connection + Upload - left', peer'.connection + peer'.received)
        /\ Sums(toClient', "window1", flow'.stream + Upload - left', Limit(Len(toPeer)))
    BY Zenon, <1>2, <1>7, <2>1, <2>4 DEF Granted
  <2> QED BY Zenon, <2>2, <2>3, <2>5 DEF Granted, Sums, Counts, Amount, Has
<1> QED BY Zenon, <1>2, <1>8, <1>9, <1>10 DEF Windows, HTTP2, Uploads, Writing

\* A frame is sent to the client that moves no window, or one that says which does.
LEMMA SentOnly ==
    ASSUME Windows, UNCHANGED <<protocol, left, toPeer>>,
           peer'.received = peer.received, peer'.initial = peer.initial,
           peer'.connection >= peer.connection, peer'.stream >= peer.stream,
           Local, Local', Has(toPeer, {"ack"}) => peer'.unacked = peer.unacked
    PROVE  \E led : Sent(led)'
<1>1. PICK led : Sent(led)
  BY Zenon DEF Windows
<1>2. peer.stream \in Int /\ peer.received \in Nat /\ peer.connection \in Int
      /\ peer'.stream \in Int /\ peer'.connection \in Int
  BY Zenon DEF Local, LocalTypes, Peers
<1>3. ASSUME NEW i \in 1..Len(toPeer) PROVE Limit(i)' >= Limit(i) /\ Limit(i)' \in Int
  <2>1. i \in 0..Len(toPeer) /\ Len(toPeer) \in Nat
    BY DEF Local, LocalTypes
  <2>2. Limit(i) \in Int
    BY Zenon, <2>1, LimitType
  <2>3. CASE \E j \in 1..i : toPeer[j].kind = "ack"
    <3>1. Has(toPeer, {"ack"})
      BY <2>1, <2>3 DEF Has
    <3>2. Head(peer.unacked) - peer.initial \in Int
      BY <2>1, <3>1, LimitType
    <3>3. Limit(i) = peer.stream + peer.received + (Head(peer.unacked) - peer.initial)
      BY Zenon, <2>3 DEF Limit
    <3>4. Limit(i)' = peer'.stream + peer.received + (Head(peer.unacked) - peer.initial)
      BY Zenon, <2>3, <3>1 DEF Limit
    <3> QED BY <1>2, <3>2, <3>3, <3>4
  <2>4. CASE ~\E j \in 1..i : toPeer[j].kind = "ack"
    <3>1. Limit(i) = peer.stream + peer.received + 0 /\ Limit(i)' = peer'.stream + peer.received + 0
      BY Zenon, <2>4 DEF Limit
    <3> QED BY <1>2, <3>1
  <2> QED BY Zenon, <2>3, <2>4
<1>4. ASSUME HTTP2, NEW i \in 1..Len(toPeer), toPeer[i].kind = "data"
      PROVE  led[i] <= Limit(i)' /\ led[i] <= peer'.connection + peer'.received
  <2>1. led[i] <= Limit(i) /\ led[i] <= peer.connection + peer.received /\ led[i] \in Int
    BY <1>1, <1>4 DEF Sent, Counts
  <2>2. i \in 0..Len(toPeer) /\ Limit(i)' >= Limit(i) /\ Limit(i)' \in Int
    BY <1>3 DEF Local, LocalTypes
  <2>3. Limit(i) \in Int
    BY Zenon, <2>2, LimitType
  <2> QED BY SMTT(40), <1>2, <2>1, <2>2, <2>3
<1>5. Sent(led)'
  BY Zenon, <1>1, <1>4 DEF Sent, Counts, Amount, HTTP2
<1> QED BY Zenon, <1>5

\* A frame to the client opens the windows by what it says, if it says so.
LEMMA SendsWindows ==
    ASSUME Local, Local', Windows, NEW f \in Frames(ClientKinds), Sends(f),
           UNCHANGED <<phase, protocol, flow, left, toPeer>>,
           peer'.received = peer.received, peer'.initial = peer.initial,
           peer'.overrun = peer.overrun,
           peer'.connection = peer.connection + Amount(f, "window0"),
           peer'.stream = peer.stream + Amount(f, "window1"),
           Has(toPeer, {"ack"}) => peer'.unacked = peer.unacked
    PROVE  Windows'
<1>1. /\ Amount(f, "window0") \in Nat /\ Amount(f, "window1") \in Nat
      /\ peer.stream \in Int /\ peer.received \in Nat /\ peer.connection \in Int
  BY Zenon, AmountType DEF Local, LocalTypes, Peers
<1>2. \E led : Sent(led)'
  <2>1. peer'.connection >= peer.connection /\ peer'.stream >= peer.stream
    BY <1>1
  <2> QED BY Zenon, <2>1, SentOnly
<1>3. ASSUME HTTP2, Uploads PROVE Granted'
  <2>1. Granted
    BY Zenon, <1>3 DEF Windows
  <2>2. Limit(Len(toPeer))' = Limit(Len(toPeer)) + Amount(f, "window1")
    <3>1. CASE Has(toPeer, {"ack"})
      <4>1. Head(peer.unacked) - peer.initial \in Int
        BY <3>1, LimitType
      <4>2. /\ Limit(Len(toPeer)) = peer.stream + peer.received + (Head(peer.unacked) - peer.initial)
            /\ Limit(Len(toPeer))' = peer'.stream + peer'.received + (Head(peer.unacked) - peer.initial)
        BY Zenon, <3>1 DEF Limit, Has
      <4> QED BY <1>1, <4>1, <4>2
    <3>2. CASE ~Has(toPeer, {"ack"})
      <4>1. /\ Limit(Len(toPeer)) = peer.stream + peer.received + 0
            /\ Limit(Len(toPeer))' = peer'.stream + peer'.received + 0
        BY Zenon, <3>2 DEF Limit, Has
      <4> QED BY <1>1, <4>1
    <3> QED BY Zenon, <3>1, <3>2
  <2>3. flow'.initial = (IF Has(toPeer', {"ack"}) THEN Head(peer'.unacked) ELSE peer'.initial)
    BY Zenon, <2>1 DEF Granted
  <2>4. toClient \in Seq(Frames(ClientKinds)) /\ toClient' = Append(toClient, f)
    BY Zenon DEF Sends, Local, LocalTypes
  <2>5. Sums(toClient', "window0", flow'.connection + Upload - left', peer'.connection + peer'.received)
    <3>1. Sums(toClient', "window0", flow.connection + Upload - left,
               peer.connection + peer.received + Amount(f, "window0"))
      BY Zenon, <2>1, <2>4, SumsAppend DEF Granted
    <3>2. peer'.connection + peer'.received = peer.connection + peer.received + Amount(f, "window0")
      BY <1>1
    <3> QED BY Zenon, <3>1, <3>2
  <2>6. Sums(toClient', "window1", flow'.stream + Upload - left', Limit(Len(toPeer)) + Amount(f, "window1"))
    BY Zenon, <2>1, <2>4, SumsAppend DEF Granted
  <2> QED BY Zenon, <2>2, <2>3, <2>5, <2>6 DEF Granted, Sums, Counts, Amount, Has
<1>4. UploadWithinWindows'
  BY Zenon DEF Windows, UploadWithinWindows
<1> QED BY Zenon, <1>2, <1>3, <1>4 DEF Windows, HTTP2, Uploads, Writing

\* Whatever the origin does keeps the types.
LEMMA OriginLocal ==
    ASSUME Local, Origin \/ PeerControls \/ PeerFault, peer.sent <= Download
    PROVE  Local'
<1>1. CASE PeerAnswers \/ PeerBody
  <2>1. /\ UNCHANGED <<phase, protocol, flow, left, body, toPeer>>
        /\ \E f : Tells(f) /\ f.kind \in {"data", "headers"}
    BY Zenon, <1>1, AnswersFacts
  <2> QED BY Zenon, <2>1, TellsLocal
<1>2. CASE PeerControls \/ PeerFault
  <2>1. /\ UNCHANGED <<phase, protocol, flow, left, body, toPeer>>
        /\ \E f : f.kind \in {"ping", "1xx", "rst", "goaway", "eof"} /\ Tells(f)
    BY <1>2, ControlsFacts
  <2> QED BY Zenon, <2>1, TellsLocal
<1> QED BY Zenon, <1>1, <1>2, ReceiveLocal, PeerSettingsLocal, GrantsLocal DEF Origin

LEMMA OriginWindows ==
    ASSUME Local, Windows, Origin \/ PeerControls \/ PeerFault, peer.sent <= Download
    PROVE  Windows'
<1>1. Local'
  BY Zenon, OriginLocal
<1>2. peer.connection \in Int /\ peer.stream \in Int
  BY Zenon DEF Local, LocalTypes, Peers
<1>3. ASSUME NEW f, Tells(f), f.kind \notin {"window0", "window1"},
             UNCHANGED <<phase, protocol, flow, left, body, toPeer>>
      PROVE  Windows'
  <2>1. Amount(f, "window0") = 0 /\ Amount(f, "window1") = 0
    BY Zenon, <1>3 DEF Amount
  <2>2. /\ f \in Frames(ClientKinds) /\ Sends(f)
        /\ peer'.received = peer.received /\ peer'.overrun = peer.overrun
        /\ peer'.unacked = peer.unacked /\ peer'.initial = peer.initial
        /\ peer'.connection = peer.connection + Amount(f, "window0")
        /\ peer'.stream = peer.stream + Amount(f, "window1")
    BY <1>2, <1>3, <2>1 DEF Tells
  <2> QED BY Zenon, <1>1, <1>3, <2>2, SendsWindows
<1>4. CASE PeerAnswers \/ PeerBody
  <2>1. /\ UNCHANGED <<phase, protocol, flow, left, body, toPeer>>
        /\ \E f : Tells(f) /\ f.kind \in {"data", "headers"}
    BY Zenon, <1>4, AnswersFacts
  <2> QED BY Zenon, <2>1, <1>3
<1>5. CASE PeerControls \/ PeerFault
  <2>1. /\ UNCHANGED <<phase, protocol, flow, left, body, toPeer>>
        /\ \E f : f.kind \in {"ping", "1xx", "rst", "goaway", "eof"} /\ Tells(f)
    BY <1>5, ControlsFacts
  <2> QED BY Zenon, <2>1, <1>3
<1>6. CASE PeerSettings
  <2>1. PICK w \in PeerWindows :
           /\ peer.unacked = <<>>
           /\ UNCHANGED <<phase, protocol, flow, left, body, toPeer>>
           /\ Sends(F("settings", w, FALSE))
           /\ peer'.received = peer.received /\ peer'.connection = peer.connection
           /\ peer'.stream = peer.stream /\ peer'.initial = peer.initial
           /\ peer'.overrun = peer.overrun
    BY Zenon, <1>6, PeerSettingsFacts
  <2>2. PICK f : f = F("settings", w, FALSE)
    BY Zenon
  <2>3. f \in Frames(ClientKinds) /\ Amount(f, "window0") = 0 /\ Amount(f, "window1") = 0
    BY Zenon, <2>2, ProfileAssumption DEF F, Frames, ClientKinds, Amount
  <2>4. ~Has(toPeer, {"ack"}) /\ Sends(f)
    BY Zenon, <2>1, <2>2 DEF Local, Settings
  <2>5. /\ peer'.connection = peer.connection + Amount(f, "window0")
        /\ peer'.stream = peer.stream + Amount(f, "window1")
    BY <1>2, <2>1, <2>3
  <2> QED BY Zenon, <1>1, <2>1, <2>3, <2>4, <2>5, SendsWindows
<1>7. CASE PeerGrants
  <2>1. UNCHANGED <<phase, protocol, flow, left, body, toPeer>> /\ peer.unacked = <<>>
    BY Zenon, <1>7, GrantsFacts
  <2>2. PICK n \in Nat, kind \in {"window0", "window1"} : Grants(kind, n)
    BY Zenon, <1>7, GrantsFacts
  <2>3. PICK f : f = F(kind, n, FALSE)
    BY Zenon
  <2>4. /\ f \in Frames(ClientKinds)
        /\ Amount(f, "window0") = (IF kind = "window0" THEN n ELSE 0)
        /\ Amount(f, "window1") = (IF kind = "window1" THEN n ELSE 0)
    BY Zenon, <2>3 DEF F, Frames, ClientKinds, Amount
  <2>5. ~Has(toPeer, {"ack"})
    BY Zenon, <2>1 DEF Local, Settings
  <2>6. /\ Sends(f)
        /\ peer'.received = peer.received /\ peer'.overrun = peer.overrun
        /\ peer'.initial = peer.initial
        /\ peer'.connection = peer.connection + Amount(f, "window0")
        /\ peer'.stream = peer.stream + Amount(f, "window1")
    BY Zenon, <2>2, <2>3, <2>4 DEF Grants
  <2> QED BY Zenon, <1>1, <2>1, <2>4, <2>5, <2>6, SendsWindows
<1> QED BY Zenon, <1>4, <1>5, <1>6, <1>7, ReceiveWindows DEF Origin

\* SETTINGS move the client's window by as much as their acknowledgement will the origin's.
LEMMA SettingsWindows ==
    ASSUME Local, Windows, applyProfiledPeerSettings
    PROVE  Windows'
<1> DEFINE w == Head(toClient).n
<1>1. /\ toClient # <<>> /\ Head(toClient).kind = "settings"
      /\ phase \in {"settings", "response", "upload", "body"}
  BY Zenon, ReadFacts DEF applyProfiledPeerSettings
<1>2. ~Has(toPeer, {"ack"}) /\ Has(toPeer', {"ack"}) /\ w = Head(peer.unacked) /\ w \in Nat
  BY Zenon, SettingsLocal
<1>3. PICK ack : ack = F("ack", 0, FALSE)
  BY Zenon
<1>4. ack \in Frames(PeerKinds) /\ ack.kind = "ack" /\ Amount(ack, "data") = 0
  BY Zenon, <1>3 DEF F, Frames, PeerKinds, Amount
<1>5. /\ toPeer' = Append(toPeer, ack) /\ toClient' = Tail(toClient)
      /\ UNCHANGED <<protocol, left, peer>>
      /\ IF Writing THEN /\ flow' = [flow EXCEPT !.stream = @ + Head(toClient).n - flow.initial,
                                                 !.initial = Head(toClient).n,
                                                 !.maxFrame = PeerFrames[Head(toClient).n]]
                         /\ phase' = "upload"
                    ELSE UNCHANGED <<flow, phase>>
  BY Zenon, <1>3 DEF applyProfiledPeerSettings, readFrame, Acknowledged
<1>6. /\ flow.connection \in Int /\ flow.stream \in Int /\ flow.initial \in Nat /\ left \in Nat
      /\ toPeer \in Seq(Frames(PeerKinds)) /\ toClient \in Seq(Frames(ClientKinds))
      /\ flow \in [connection : Int, stream : Int, initial : Nat, maxFrame : Nat \ {0}]
      /\ peer.stream \in Int /\ peer.received \in Nat /\ peer.initial \in Nat
  BY DEF Local, LocalTypes, Peers
<1>7. \E new : Sent(new)'
  <2>1. PICK led : Sent(led)
    BY Zenon DEF Windows
  <2>2. left' \in Nat /\ Upload - left' = Upload - left + Amount(ack, "data")
    BY <1>4, <1>5, <1>6, ProfileAssumption
  <2> QED BY Zenon, <1>4, <1>5, <2>1, <2>2, SentWritten
<1>8. ASSUME HTTP2, Writing PROVE Granted'
  <2>1. Granted
    BY Zenon, <1>8 DEF Windows, Uploads
  <2>2. flow.initial = peer.initial
    BY Zenon, <1>2, <2>1 DEF Granted
  <2>3. /\ flow'.stream = flow.stream + w - flow.initial /\ flow'.initial = w
        /\ flow'.connection = flow.connection
    BY Zenon, <1>5, <1>6, <1>8
  <2>4. PICK k : k = w - peer.initial
    BY Zenon
  <2>5. k \in Int
    BY <1>2, <1>6, <2>4
  <2>6. Limit(Len(toPeer))' = Limit(Len(toPeer)) + k
    <3>1. Limit(Len(toPeer)) = peer.stream + peer.received + 0
      BY Zenon, <1>2 DEF Limit, Has
    <3>2. Limit(Len(toPeer))' = peer.stream + peer.received + (w - peer.initial)
      BY Zenon, <1>2, <1>5 DEF Limit, Has
    <3> QED BY <1>6, <2>4, <2>5, <3>1, <3>2
  <2>7. Amount(Head(toClient), "window0") = 0 /\ Amount(Head(toClient), "window1") = 0
    BY Zenon, <1>1 DEF Amount
  <2>8. /\ Sums(toClient', "window0", flow.connection + Upload - left + 0, peer.connection + peer.received)
        /\ Sums(toClient', "window1", flow.stream + Upload - left + 0, Limit(Len(toPeer)))
    BY Zenon, <1>1, <1>5, <1>6, <2>1, <2>7, SumsTail DEF Granted
  <2>9. toClient' \in Seq(Frames(ClientKinds))
    BY Zenon, <1>1, <1>5, <1>6, TailFacts
  <2>10. Sums(toClient', "window1", flow.stream + Upload - left + 0 + k, Limit(Len(toPeer)) + k)
    BY Zenon, <2>5, <2>8, <2>9, SumsShift
  <2>11. /\ flow.stream + Upload - left + 0 + k = flow'.stream + Upload - left'
         /\ flow.connection + Upload - left + 0 = flow'.connection + Upload - left'
    <3>1. Upload \in Nat /\ left' = left
      BY Zenon, <1>5, ProfileAssumption
    <3>2. flow'.stream = flow.stream + k
      BY Zenon, <1>2, <1>6, <2>2, <2>3, <2>4
    <3> HIDE DEF w
    <3> QED BY <1>6, <2>3, <2>5, <3>1, <3>2
  <2>12. /\ Sums(toClient', "window0", flow'.connection + Upload - left', peer'.connection + peer'.received)
         /\ Sums(toClient', "window1", flow'.stream + Upload - left', Limit(Len(toPeer)) + k)
    BY Zenon, <1>5, <2>8, <2>10, <2>11
  <2>13. flow'.initial = (IF Has(toPeer', {"ack"}) THEN Head(peer'.unacked) ELSE peer'.initial)
    BY Zenon, <1>2, <1>5, <2>3
  <2> QED BY Zenon, <2>6, <2>12, <2>13 DEF Granted, Sums, Counts, Amount, Has
<1>9. Uploads' => Writing
  BY Zenon, <1>1, <1>5 DEF Uploads, Writing
<1> QED BY Zenon, <1>5, <1>7, <1>8, <1>9 DEF Windows, HTTP2, UploadWithinWindows

\* A window update moves the window it names, once.
LEMMA UpdateWindows ==
    ASSUME Local, Windows, applyProfiledWindowUpdate \/ ignoreFrame
    PROVE  Windows'
<1> DEFINE f == Head(toClient)
<1>1. /\ toClient # <<>> /\ f \in Frames(ClientKinds)
      /\ f.kind \in {"window0", "window1", "ack", "1xx"}
      /\ phase \in {"settings", "response", "upload", "body"}
  BY Zenon, ReadFacts DEF applyProfiledWindowUpdate, ignoreFrame
<1>2. /\ toClient' = Tail(toClient) /\ UNCHANGED <<phase, protocol, left, peer, toPeer>>
  BY Zenon DEF applyProfiledWindowUpdate, ignoreFrame, readFrame
<1>3. f.n \in Nat
  BY Zenon, <1>1 DEF Frames
<1>4. /\ flow.connection \in Int /\ flow.stream \in Int /\ flow.initial \in Nat /\ left \in Nat
      /\ toClient \in Seq(Frames(ClientKinds))
      /\ flow \in [connection : Int, stream : Int, initial : Nat, maxFrame : Nat \ {0}]
  BY DEF Local, LocalTypes
<1>5. Writing => /\ flow'.connection = flow.connection + Amount(f, "window0")
                 /\ flow'.stream = flow.stream + Amount(f, "window1")
                 /\ flow'.initial = flow.initial
  <2>1. CASE ignoreFrame
    <3>1. flow' = flow /\ f.kind \in {"ack", "1xx"}
      BY Zenon, <2>1, ReadFacts DEF ignoreFrame
    <3> QED BY <1>4, <3>1 DEF Amount
  <2>2. CASE applyProfiledWindowUpdate
    <3>1. f.kind \in {"window0", "window1"}
      BY Zenon, <2>2, ReadFacts DEF applyProfiledWindowUpdate
    <3>2. flow' = IF ~Writing THEN flow
                  ELSE IF f.kind = "window0" THEN [flow EXCEPT !.connection = @ + f.n]
                  ELSE [flow EXCEPT !.stream = @ + f.n]
      BY Zenon, <2>2 DEF applyProfiledWindowUpdate
    <3> QED BY <1>3, <1>4, <3>1, <3>2 DEF Amount
  <2> QED BY Zenon, <2>1, <2>2
<1>6. \E led : Sent(led)'
  BY Zenon, <1>2 DEF Windows, Sent, Counts, Amount, Limit, HTTP2
<1>7. ASSUME HTTP2, Writing PROVE Granted'
  <2>1. Granted
    BY Zenon, <1>7 DEF Windows, Uploads
  <2>2. /\ Sums(toClient', "window0", flow.connection + Upload - left + Amount(f, "window0"),
                peer.connection + peer.received)
        /\ Sums(toClient', "window1", flow.stream + Upload - left + Amount(f, "window1"), Limit(Len(toPeer)))
    BY Zenon, <1>1, <1>2, <1>4, <2>1, SumsTail DEF Granted
  <2>3. Amount(f, "window0") \in Nat /\ Amount(f, "window1") \in Nat
    BY Zenon, <1>1, AmountType
  <2>4. /\ flow.connection + Upload - left + Amount(f, "window0") = flow'.connection + Upload - left'
        /\ flow.stream + Upload - left + Amount(f, "window1") = flow'.stream + Upload - left'
    BY SMTT(40), <1>2, <1>4, <1>5, <1>7, <2>3, ProfileAssumption
  <2>5. /\ Sums(toClient', "window0", flow'.connection + Upload - left', peer'.connection + peer'.received)
        /\ Sums(toClient', "window1", flow'.stream + Upload - left', Limit(Len(toPeer)))
    BY Zenon, <1>2, <2>2, <2>4
  <2>6. Limit(Len(toPeer))' = Limit(Len(toPeer))
    BY Zenon, <1>2 DEF Limit
  <2>7. flow'.initial = (IF Has(toPeer', {"ack"}) THEN Head(peer'.unacked) ELSE peer'.initial)
    BY Zenon, <1>2, <1>5, <1>7, <2>1 DEF Granted
  <2> QED BY Zenon, <2>5, <2>6, <2>7 DEF Granted, Sums, Counts, Amount, Has
<1>8. Uploads' => Writing
  BY Zenon, <1>1, <1>2 DEF Uploads, Writing
<1> QED BY Zenon, <1>2, <1>6, <1>7, <1>8 DEF Windows, HTTP2, UploadWithinWindows

LEMMA PingWindows ==
    ASSUME Local, Windows, acknowledgeProfiledPing
    PROVE  Windows'
<1>1. toClient # <<>> /\ Head(toClient).kind = "ping"
  BY Zenon, ReadFacts DEF acknowledgeProfiledPing
<1>2. PICK pong : pong = F("pong", 0, FALSE)
  BY Zenon
<1>3. pong \in Frames(PeerKinds) /\ pong.kind = "pong" /\ Amount(pong, "data") = 0
  BY Zenon, <1>2 DEF F, Frames, PeerKinds, Amount
<1>4. /\ toPeer' = Append(toPeer, pong) /\ toClient' = Tail(toClient)
      /\ UNCHANGED <<phase, protocol, left, peer, flow>>
  BY Zenon, <1>2 DEF acknowledgeProfiledPing, readFrame, Acknowledged
<1>5. /\ flow.connection \in Int /\ flow.stream \in Int /\ left \in Nat
      /\ toClient \in Seq(Frames(ClientKinds))
  BY DEF Local, LocalTypes
<1>6. \E new : Sent(new)'
  <2>1. PICK led : Sent(led)
    BY Zenon DEF Windows
  <2>2. left' \in Nat /\ Upload - left' = Upload - left + Amount(pong, "data")
    BY <1>3, <1>4, <1>5, ProfileAssumption
  <2> QED BY Zenon, <1>3, <1>4, <2>1, <2>2, SentWritten
<1>7. ASSUME HTTP2, Uploads PROVE Granted'
  <2>1. Granted
    BY Zenon, <1>7 DEF Windows
  <2>2. Amount(Head(toClient), "window0") = 0 /\ Amount(Head(toClient), "window1") = 0
    BY Zenon, <1>1 DEF Amount
  <2>3. /\ Sums(toClient', "window0", flow.connection + Upload - left + 0, peer.connection + peer.received)
        /\ Sums(toClient', "window1", flow.stream + Upload - left + 0, Limit(Len(toPeer)))
    BY Zenon, <1>1, <1>4, <1>5, <2>1, <2>2, SumsTail DEF Granted
  <2>4. /\ flow.connection + Upload - left + 0 = flow'.connection + Upload - left'
        /\ flow.stream + Upload - left + 0 = flow'.stream + Upload - left'
    BY SMTT(40), <1>4, <1>5, ProfileAssumption
  <2>5. /\ Sums(toClient', "window0", flow'.connection + Upload - left', peer'.connection + peer'.received)
        /\ Sums(toClient', "window1", flow'.stream + Upload - left', Limit(Len(toPeer)))
    BY Zenon, <1>4, <2>3, <2>4
  <2>6. Limit(Len(toPeer))' = Limit(Len(toPeer))
    BY Zenon, <1>3, <1>4, LimitKept
  <2>7. flow'.initial = (IF Has(toPeer', {"ack"}) THEN Head(peer'.unacked) ELSE peer'.initial)
    <3>1. Has(toPeer', {"ack"}) <=> Has(toPeer, {"ack"})
      BY Zenon, ReadLocal DEF Has
    <3> QED BY Zenon, <1>4, <2>1, <3>1 DEF Granted
  <2> QED BY Zenon, <2>5, <2>6, <2>7 DEF Granted, Sums, Counts, Amount, Has
<1> QED BY Zenon, <1>4, <1>6, <1>7 DEF Windows, HTTP2, UploadWithinWindows, Uploads, Writing

\* The response has come: the upload is over.
LEMMA ResponseWindows ==
    ASSUME Local, Windows, finalProfiledResponseHeaders \/ acceptData \/ readUntilEOF
    PROVE  Windows'
<1>1. UNCHANGED <<protocol, left, toPeer, peer>> /\ phase' = "body"
  BY Zenon DEF finalProfiledResponseHeaders, acceptData, readUntilEOF, readFrame
<1>2. \E led : Sent(led)'
  BY ZenonT(40), <1>1 DEF Windows, Sent, Counts, Amount, Limit, HTTP2
<1> QED BY Zenon, <1>1, <1>2 DEF Windows, Uploads, Writing, UploadWithinWindows

-----------------------------------------------------------------------------
(* The invariant, and what follows from it.                                *)

IInv == Types /\ Control /\ Arriving /\ Windows

LEMMA InitHolds ==
    ASSUME Init
    PROVE  IInv
<1>1. toPeer = <<>> /\ toClient = <<>> /\ left = Upload /\ phase = "dial" /\ protocol \in Protocols
      /\ told = "none" /\ watch = "none" /\ ProxyInit
  BY Zenon DEF Init
<1>2. PICK framed \in BOOLEAN :
      /\ flow = [connection |-> DefaultWindow, stream |-> DefaultWindow, initial |-> DefaultWindow,
                 maxFrame |-> FrameSize]
      /\ body = [pending |-> 0, done |-> FALSE, got |-> 0]
      /\ peer = [connection |-> DefaultWindow, stream |-> DefaultWindow, initial |-> DefaultWindow,
                 unacked |-> <<>>, settled |-> FALSE, overrun |-> FALSE, asked |-> FALSE,
                 received |-> 0, framed |-> framed, answer |-> "none", sent |-> 0,
                 outConnection |-> DefaultWindow, outStream |-> DefaultWindow,
                 controls |-> 0, faults |-> 0]
  BY Zenon DEF Init
<1>3. DefaultWindow \in Nat /\ FrameSize \in Nat \ {0} /\ Upload \in Nat /\ Download \in Nat
  BY Zenon, ProfileAssumption
<1>4. /\ peer.connection = DefaultWindow /\ peer.stream = DefaultWindow /\ peer.initial = DefaultWindow
      /\ peer.unacked = <<>> /\ peer.overrun = FALSE /\ peer.received = 0
      /\ peer.answer = "none" /\ peer.sent = 0
  BY Zenon, <1>2
<1>5. /\ flow.connection = DefaultWindow /\ flow.stream = DefaultWindow /\ flow.initial = DefaultWindow
      /\ body.pending = 0 /\ body.done = FALSE /\ body.got = 0
  BY Zenon, <1>2
<1>6. LocalTypes
  <2>1. peer \in Peers
    BY <1>2, <1>3 DEF Peers
  <2>2. flow \in [connection : Int, stream : Int, initial : Nat, maxFrame : Nat \ {0}]
    BY <1>2, <1>3
  <2>3. body \in [pending : Nat, done : BOOLEAN, got : Nat]
    BY Zenon, <1>2
  <2> QED BY <1>1, <1>3, <2>1, <2>2, <2>3 DEF LocalTypes
<1>7. Settings /\ Fresh
  BY <1>1, <1>4 DEF Settings, Fresh, Has
<1>8. ControlTypes
  BY Zenon, <1>1 DEF ControlTypes, ProxyTypeOK, ProxyInit, Contexts, Phases
<1>9. Control
  BY <1>1 DEF Control, Opening, HandedOverOrClosed, Carrying, Failing, BlamedFairly, ProxyInit,
              Handshaking, Has, Over
<1>10. ASSUME NEW kind, NEW a \in Int PROVE Sums(<<>>, kind, a, a)
  BY Zenon, <1>10, SumsEmpty
<1>11. Arriving
  <2> Sums(<<>>, "data", 0, 0)
    BY <1>10
  <2>1. PICK led : Counts(toClient, "data", led) /\ led[0] = 0
    BY Zenon, <1>1 DEF Sums
  <2>2. Delivers(led)
    BY <1>1, <1>4, <1>5, <2>1 DEF Delivers
  <2> QED BY <1>1, <1>4, <1>5, <1>3, <2>2 DEF Arriving
<1>12. Windows
  <2> Sums(<<>>, "data", 0, 0)
    BY <1>10
  <2>1. PICK led : Counts(toPeer, "data", led) /\ led[0] = 0
    BY Zenon, <1>1 DEF Sums
  <2>2. Sent(led)
    BY <1>1, <1>4, <1>5, <1>3, <2>1 DEF Sent
  <2>3. Limit(Len(toPeer)) = DefaultWindow + 0 + 0
    BY <1>1, <1>4, <1>5 DEF Limit
  <2>4. Granted
    <3>1. flow.connection + Upload - left = DefaultWindow /\ flow.stream + Upload - left = DefaultWindow
      BY <1>1, <1>4, <1>5, <1>3
    <3>2. peer.connection + peer.received = DefaultWindow /\ Limit(Len(toPeer)) = DefaultWindow
      BY <1>4, <1>5, <1>3, <2>3
    <3>3. Sums(toClient, "window0", DefaultWindow, DefaultWindow)
          /\ Sums(toClient, "window1", DefaultWindow, DefaultWindow)
      BY <1>1, <1>3, <1>10
    <3>4. flow.initial = peer.initial /\ ~Has(toPeer, {"ack"})
      BY <1>1, <1>4, <1>5 DEF Has
    <3> QED BY Zenon, <3>1, <3>2, <3>3, <3>4 DEF Granted
  <2> QED BY Zenon, <1>4, <1>5, <2>2, <2>4 DEF Windows, UploadWithinWindows
<1> QED BY Zenon, <1>6, <1>7, <1>8, <1>9, <1>11, <1>12 DEF IInv, Types, Local

LEMMA NextHolds ==
    ASSUME IInv, [Next]_vars
    PROVE  IInv'
<1> USE DEF IInv, Types
<1>0. Cut => Cut'
  BY Zenon, CutStays
<1>1. CASE Steps
  <2>1. Local' /\ ControlTypes' /\ Control' /\ Arriving'
    BY Zenon, <1>0, <1>1, StepsControl, StepsArriving
  <2>2. Windows'
    BY Zenon, <1>1, StepsFrame, WindowsSame DEF local
  <2> QED BY Zenon, <2>1, <2>2
<1>2. CASE doProfiledHTTP1
  BY Zenon, <1>0, <1>2, HTTP1Local, WriterControl, WriterArriving, HTTP1Windows
<1>3. CASE doProfiledHTTP2
  BY Zenon, <1>0, <1>3, HTTP2Local, WriterControl, WriterArriving, HTTP2Windows
<1>4. CASE writeProfiledHTTP2Data
  BY Zenon, <1>0, <1>4, WriteLocal, WriterControl, WriterArriving, WriteWindows
<1>5. CASE consumePending
  <2>1. Windows'
    BY Zenon, <1>5, ConsumeLocal, WindowsSame DEF Uploads, Writing
  <2> QED BY Zenon, <1>0, <1>5, <2>1, ConsumeLocal, WriterControl, ConsumeArriving
<1>6. CASE applyProfiledPeerSettings
  BY Zenon, <1>0, <1>6, SettingsLocal, ReaderControl, AsideArriving, SettingsWindows
<1>7. CASE applyProfiledWindowUpdate \/ ignoreFrame
  BY Zenon, <1>0, <1>7, ReadLocal, ReaderControl, AsideArriving, UpdateWindows
<1>8. CASE acknowledgeProfiledPing
  BY Zenon, <1>0, <1>8, ReadLocal, ReaderControl, AsideArriving, PingWindows
<1>9. CASE finalProfiledResponseHeaders \/ acceptData \/ readUntilEOF
  BY Zenon, <1>9, ReadLocal, ReaderControl, HeadersArriving, DataArriving, UntilEOFArriving, ResponseWindows
<1>10. CASE Origin \/ PeerControls \/ PeerFault
  <2>1. peer.sent <= Download
    BY Zenon DEF Arriving
  <2> QED BY Zenon, <1>0, <1>10, <2>1, OriginLocal, OriginControl, OriginArriving, OriginWindows
<1>11. CASE UNCHANGED vars
  <2>1. UNCHANGED <<phase, told, watch, protocol, flow, left, body, toPeer, toClient, peer>>
    BY Zenon, <1>11 DEF vars, local
  <2>2. UNCHANGED <<opening, context, late, conn, afterFunc, deadline, opened, fault>>
    BY Zenon, <1>11 DEF vars, proxyVars
  <2>3. Local'
    BY Zenon, <2>1, LocalSame DEF local
  <2>4. ControlTypes' /\ Control'
    BY Zenon, <2>1, <2>2, ExchangeControl DEF Control, Failing, Fatal
  <2>5. Arriving'
    BY ZenonT(40), <1>0, <2>1 DEF Arriving, Delivers, Counts, Amount, Ends
  <2>6. Windows'
    BY Zenon, <2>1, WindowsSame DEF Uploads, Writing
  <2> QED BY Zenon, <2>3, <2>4, <2>5, <2>6
<1> QED BY Zenon, <1>1, <1>2, <1>3, <1>4, <1>5, <1>6, <1>7, <1>8, <1>9, <1>10, <1>11
        DEF Next, Executor, Steps

\* Every step of the executor, of the context's watchers and of the origin keeps the invariant.
THEOREM Invariance == Spec => []IInv
<1>1. Init => IInv
  BY Zenon, InitHolds
<1>2. IInv /\ [Next]_vars => IInv'
  BY Zenon, NextHolds
<1> QED BY <1>1, <1>2, PTL DEF Spec

\* writeProfiledHTTP2Data: whatever SETTINGS, acknowledgements and window updates are under
\* way, no DATA frame exceeds what the origin has granted when the frame reaches it.
THEOREM UploadFits == Spec => []UploadWithinWindows
<1>1. IInv => UploadWithinWindows
  BY Zenon DEF IInv, Windows
<1> QED BY <1>1, Invariance, PTL

\* streamResponseBody over profiledHTTP2Body: a request that ends well has given its caller
\* the whole body of a response that the origin ended; only an HTTP/1.1 body without a length
\* may be cut short by a connection that broke.
THEOREM WholeBody == Spec => []EndIsWhole
<1>1. ASSUME IInv PROVE EndIsWhole
  <2> SUFFICES ASSUME phase = "done", ~Cut PROVE peer.answer = "over" /\ body.got = Download
    BY Zenon DEF EndIsWhole, Cut
  <2>1. /\ body.pending = 0 /\ peer.answer = "over" /\ peer.sent = Download
        /\ body.got + body.pending = peer.sent
    BY Zenon, <1>1 DEF IInv, Arriving
  <2>2. body.got \in Nat
    BY Zenon, <1>1 DEF IInv, Types, Local, LocalTypes
  <2> QED BY <2>1, <2>2
<1> QED BY <1>1, Invariance, PTL

\* mapHTTPError and phaseFailure: the origin or the proxy is blamed only for what it did,
\* whichever of the watchers of the context cut the request short.
THEOREM FairBlame == Spec => []BlamedFairly
<1>1. IInv => BlamedFairly
  BY Zenon DEF IInv, Control
<1> QED BY <1>1, Invariance, PTL

\* Open's deferred close and its AfterFunc: the connection that Open returns has neither the
\* AfterFunc nor the handshake's deadline on it, and one that it does not return is closed.
THEOREM ProxyHandsOver == Spec => []HandedOverOrClosed
<1>1. IInv => HandedOverOrClosed
  BY Zenon DEF IInv, Control
<1> QED BY <1>1, Invariance, PTL

\* The types, and with them: the caller is given no more than the origin sent, and the origin
\* no more than the executor took from the request's body.
THEOREM TypeCorrect == Spec => []TypeOK
<1>1. ASSUME IInv PROVE TypeOK
  <2>1. LocalTypes /\ ControlTypes
    BY Zenon, <1>1 DEF IInv, Types, Local
  <2>2. PICK led : Delivers(led)
    BY Zenon, <1>1 DEF IInv, Arriving
  <2>3. Len(toClient) \in Nat /\ Len(toPeer) \in Nat
    BY <2>1 DEF LocalTypes
  <2>4. body.got + body.pending <= peer.sent
    BY <2>2, <2>3 DEF Delivers, Counts
  <2>5. PICK sums : Sent(sums)
    BY Zenon, <1>1 DEF IInv, Windows
  <2>6. peer.received <= Upload - left
    BY <2>3, <2>5 DEF Sent, Counts
  <2>7. body.got \in 0..Download
    <3>1. peer.sent <= Download
      BY Zenon, <1>1 DEF IInv, Arriving
    <3>2. body.got \in Nat /\ body.pending \in Nat /\ peer.sent \in Nat /\ Download \in Nat
      BY Zenon, <2>1, ProfileAssumption DEF LocalTypes, Peers
    <3> QED BY <2>4, <3>1, <3>2
  <2>8. body \in [pending : Nat, done : BOOLEAN, got : 0..Download]
    BY Zenon, <2>1, <2>7 DEF LocalTypes
  <2> QED BY Zenon, <2>1, <2>4, <2>6, <2>8 DEF LocalTypes, ControlTypes, TypeOK, Phases
<1> QED BY <1>1, Invariance, PTL
=============================================================================
