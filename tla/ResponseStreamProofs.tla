------------------------ MODULE ResponseStreamProofs ------------------------
(***************************************************************************)
(* Proofs about ResponseStream, for bodies, credits, frames, parts and     *)
(* faults of any number and size.                                          *)
(*                                                                         *)
(* What the caller is told depends on frames that were numbered, given an  *)
(* offset and charged to a credit long before they are accepted, and the   *)
(* model keeps no history of them.  The inductive invariant says what the  *)
(* frames under way still know of it: neighbours in the sequence continue  *)
(* each other's offsets and meet the executor's and the validator's        *)
(* (Chained); without a loss nothing but repeated frames stands between a  *)
(* frame and its predecessor (Contiguous); and the credit frames on their  *)
(* way back can be entered, one after the other, in a ledger that never    *)
(* exceeds what has been delivered by more than the initial credit         *)
(* (Ledger).                                                               *)
(***************************************************************************)
EXTENDS ResponseStream, TLAPS

FrameSet == {f \in [seq : Nat, attempt : Nat, kind : Kinds \union {"nil"}, offset : Nat, len : Nat,
                    ok : BOOLEAN] : f.kind = "nil" => f = Undecodable}
Messages == ({"cancel"} \X {0}) \union ({"credit"} \X Nat)
Phases == {"new", "outbound", "started", "trailers", "ended"}
Validators == [attempt : {Attempt}, expectedSeq : Nat \ {0}, offset : Nat, credit : Nat,
               terminal : BOOLEAN]

Types ==
    /\ request \in [sink : Sinks, make : Makes]
    /\ worker \in [seq : Nat, offset : 0..Body, credit : Nat, phase : Phases]
    /\ wire \in Seq(FrameSet) /\ back \in Seq(Messages)
    /\ validator \in Validators
    /\ started \in [outbound : BOOLEAN, response : BOOLEAN]
    /\ delivered \in Seq(Nat)
    /\ outcome \in Codes \union {"none"}

\* The frames under way.
Elements(s) == {s[i] : i \in 1..Len(s)}
Wire == Elements(wire)

\* Where the executor is tells how many frames it has sent.
Numbered ==
    /\ worker.phase = "new" => worker.seq = 0
    /\ worker.phase = "outbound" => worker.seq = 1
    /\ worker.phase \in {"started", "trailers"} => worker.seq >= 2

\* Which kinds of frame the executor sends at which place of the stream ...
InPlace(f) ==
    /\ f.kind \notin {"nil", "body_ref", "control"} /\ (f.kind # "data" => f.len = 0)
    /\ f.kind = "outbound_start" => f.seq = 1 /\ f.ok
    /\ f.kind = "response_start" => f.seq = 2
    /\ f.kind \in {"data", "trailers", "credit"} => f.seq >= 3
    /\ f.kind = "end" => f.ok /\ f.seq >= 3 /\ f.offset = Body
    /\ f.seq = 1 => f.kind \in {"outbound_start"} \union TerminalKinds
    /\ f.seq = 2 => f.kind \in {"response_start"} \union TerminalKinds

\* ... and what it puts into one.
Sent(f) ==
    /\ f.attempt = Attempt /\ f.seq \in 1..worker.seq
    /\ f.len <= InitialCredit /\ f.offset + f.len <= worker.offset
    /\ InPlace(f)

AsSent == IF Orderly THEN \A f \in Wire : Sent(f)
          ELSE worker.offset = 0

\* Frames with neighbouring numbers continue each other, the executor and the validator.
Chained ==
    Orderly =>
        /\ \A f, g \in Wire : g.seq = f.seq + 1 => g.offset = f.offset + f.len
        /\ \A f \in Wire : f.seq = worker.seq => worker.offset = f.offset + f.len
        /\ outcome = "none" =>
            /\ validator.expectedSeq <= worker.seq + 1
            /\ validator.expectedSeq = worker.seq + 1 => worker.offset = validator.offset
            /\ \A f \in Wire : f.seq = validator.expectedSeq => f.offset = validator.offset

\* As long as nothing is lost, every frame the validator still waits for is under way, behind
\* its predecessor.
Contiguous ==
    (Orderly /\ ~lost /\ outcome = "none") =>
        /\ \A i \in 1..Len(wire) :
            \/ wire[i].seq <= validator.expectedSeq
            \/ \E j \in 1..(i - 1) : wire[i].seq = wire[j].seq + 1
        /\ \/ worker.seq < validator.expectedSeq
           \/ \E i \in 1..Len(wire) : wire[i].seq = worker.seq

\* What Control has taken from the frames it accepted.
Taken ==
    /\ delivered = [i \in 1..Len(delivered) |-> i]
    /\ outcome = "none" =>
        /\ validator.offset = Len(delivered) /\ validator.credit = InitialCredit
        /\ ~validator.terminal
        /\ Orderly => /\ started.outbound <=> validator.expectedSeq >= 2
                      /\ started.response <=> validator.expectedSeq >= 3

\* The executor has sent what was delivered, and every message that returns credit is backed
\* by what was delivered before it.
Ledger ==
    Orderly =>
        /\ Len(delivered) <= worker.offset
        /\ \E s \in [0..Len(back) -> Nat] :
            /\ worker.offset + worker.credit <= s[0]
            /\ \A i \in 1..Len(back) : s[i - 1] + back[i][2] <= s[i]
            /\ \A i \in 0..Len(back) : s[i] <= InitialCredit + Len(delivered)

IInv ==
    /\ Types
    /\ Numbered
    /\ AsSent
    /\ Chained
    /\ Contiguous
    /\ Taken
    /\ Ledger
    /\ RejectedOnlyAfterLoss
    /\ SuccessIsWhole

-----------------------------------------------------------------------------
(* Sequences of frames and messages.                                       *)

LEMMA AppendElements ==
    ASSUME NEW S, NEW s \in Seq(S), NEW e \in S
    PROVE  /\ Append(s, e) \in Seq(S) /\ Len(Append(s, e)) = Len(s) + 1 /\ Len(s) \in Nat
           /\ \A i \in 1..Len(s) : Append(s, e)[i] = s[i]
           /\ Append(s, e)[Len(s) + 1] = e
           /\ Elements(Append(s, e)) = Elements(s) \union {e}
<1> DEFINE t == Append(s, e)
<1>1. /\ t \in Seq(S) /\ Len(t) = Len(s) + 1 /\ Len(s) \in Nat
      /\ \A i \in 1..Len(s) : t[i] = s[i]
      /\ t[Len(s) + 1] = e
  OBVIOUS
<1> HIDE DEF t
<1>2. 1..Len(t) = 1..Len(s) \union {Len(s) + 1}
  BY <1>1
<1>3. Elements(t) = Elements(s) \union {e}
  BY <1>1, <1>2 DEF Elements
<1> QED BY Zenon, <1>1, <1>3 DEF t

LEMMA TailElements ==
    ASSUME NEW S, NEW s \in Seq(S), s # <<>>
    PROVE  /\ Tail(s) \in Seq(S) /\ Len(s) = Len(Tail(s)) + 1 /\ Len(Tail(s)) \in Nat
           /\ \A i \in 1..Len(Tail(s)) : i + 1 \in 1..Len(s) /\ Tail(s)[i] = s[i + 1]
           /\ Head(s) = s[1] /\ 1 \in 1..Len(s) /\ Head(s) \in S /\ Head(s) \in Elements(s)
           /\ Elements(Tail(s)) \subseteq Elements(s)
<1> DEFINE t == Tail(s)
<1>1. /\ t \in Seq(S) /\ Len(s) = Len(t) + 1 /\ Len(t) \in Nat
      /\ \A i \in 1..Len(t) : t[i] = s[i + 1]
      /\ Head(s) = s[1] /\ Head(s) \in S
  OBVIOUS
<1> HIDE DEF t
<1>2. 1 \in 1..Len(s) /\ \A i \in 1..Len(t) : i + 1 \in 1..Len(s)
  BY <1>1
<1>3. Elements(t) \subseteq Elements(s)
  BY <1>1, <1>2 DEF Elements
<1>4. Head(s) \in Elements(s)
  BY Zenon, <1>1, <1>2 DEF Elements
<1> QED BY Zenon, <1>1, <1>2, <1>3, <1>4 DEF t

\* The elements of a concatenation.
LEMMA Concatenation ==
    ASSUME NEW S, NEW a \in Seq(S), NEW b \in Seq(S)
    PROVE  /\ a \o b \in Seq(S) /\ Len(a \o b) = Len(a) + Len(b)
           /\ \A k \in 1..(Len(a) + Len(b)) :
                (a \o b)[k] = IF k <= Len(a) THEN a[k] ELSE b[k - Len(a)]
OBVIOUS

\* A function on 1..n is a sequence of length n.
LEMMA SequenceOf ==
    ASSUME NEW S, NEW n \in Nat, NEW f \in [1..n -> S]
    PROVE  f \in Seq(S) /\ Len(f) = n
<1>1. f \in Seq(S)
  OBVIOUS
<1>2. DOMAIN f = 1..n
  BY Zenon
<1> QED BY <1>1, <1>2

LEMMA RemoveElement ==
    ASSUME NEW S, NEW s \in Seq(S), NEW i \in 1..Len(s)
    PROVE  LET t == SubSeq(s, 1, i - 1) \o SubSeq(s, i + 1, Len(s))
           IN  t \in Seq(S) /\ Elements(t) \subseteq Elements(s)
<1> DEFINE a == SubSeq(s, 1, i - 1)
           b == SubSeq(s, i + 1, Len(s))
           t == a \o b
<1>0. Len(s) \in Nat /\ i \in Nat /\ 1 <= i /\ i <= Len(s)
  OBVIOUS
<1>1. a \in Seq(S) /\ Len(a) = i - 1 /\ \A k \in 1..Len(a) : a[k] = s[k] /\ k \in 1..Len(s)
  <2>1. i - 1 \in 0..Len(s)
    BY <1>0
  <2>2. a \in Seq(S) /\ Len(a) = i - 1
    BY <1>0, <2>1
  <2>3. \A k \in 1..(i - 1) : a[k] = s[k] /\ k \in 1..Len(s)
    BY <1>0, <2>1
  <2> QED BY Zenon, <2>2, <2>3
<1>2. b \in Seq(S) /\ Len(b) = Len(s) - i
      /\ \A k \in 1..Len(b) : b[k] = s[i + k] /\ i + k \in 1..Len(s)
  <2>1. b \in Seq(S) /\ Len(b) = Len(s) - i
    BY <1>0
  <2>2. \A k \in 1..(Len(s) - i) : b[k] = s[i + k] /\ i + k \in 1..Len(s)
    BY <1>0
  <2> QED BY Zenon, <2>1, <2>2
<1> HIDE DEF a, b
<1>3. t \in Seq(S) /\ Len(t) = Len(a) + Len(b)
      /\ \A k \in 1..(Len(a) + Len(b)) : t[k] = IF k <= Len(a) THEN a[k] ELSE b[k - Len(a)]
  BY Zenon, <1>1, <1>2, Concatenation
<1> HIDE DEF t
<1>4. ASSUME NEW k \in 1..Len(t)
      PROVE  t[k] \in Elements(s)
  <2>0. Len(a) \in Nat /\ Len(b) \in Nat
    BY <1>1, <1>2
  <2>1. CASE k <= Len(a)
    <3>1. k \in 1..Len(a) /\ t[k] = a[k]
      BY <1>3, <2>0, <2>1
    <3> QED BY Zenon, <1>1, <3>1 DEF Elements
  <2>2. CASE k > Len(a)
    <3>1. k - Len(a) \in 1..Len(b) /\ t[k] = b[k - Len(a)]
      BY <1>3, <2>0, <2>2
    <3> QED BY Zenon, <1>2, <3>1 DEF Elements
  <2> QED BY <2>0, <2>1, <2>2
<1>5. Elements(t) \subseteq Elements(s)
  BY Zenon, <1>4 DEF Elements
<1> QED BY Zenon, <1>3, <1>5 DEF a, b, t

-----------------------------------------------------------------------------
(* The ledger.                                                             *)

LEMMA LedgerAppend ==
    ASSUME Types, Ledger, NEW m \in Messages, back' = Append(back, m), UNCHANGED <<request, worker>>,
           Len(delivered') \in Nat, Len(delivered') = Len(delivered) + m[2],
           Orderly => Len(delivered') <= worker.offset
    PROVE  Ledger'
<1> SUFFICES ASSUME Orderly PROVE Ledger'
  BY Zenon DEF Ledger, Orderly
<1>0. InitialCredit \in Nat /\ m[2] \in Nat /\ Len(delivered) \in Nat
  BY SMTT(40), SizesAssumption DEF Messages, Types
<1>1. PICK s \in [0..Len(back) -> Nat] :
        /\ worker.offset + worker.credit <= s[0]
        /\ \A i \in 1..Len(back) : s[i - 1] + back[i][2] <= s[i]
        /\ \A i \in 0..Len(back) : s[i] <= InitialCredit + Len(delivered)
  BY Zenon DEF Ledger
<1>2. /\ Len(back') = Len(back) + 1 /\ Len(back) \in Nat
      /\ \A i \in 1..Len(back) : back'[i] = back[i]
      /\ back'[Len(back) + 1] = m
  BY AppendElements DEF Types
<1> DEFINE u == [i \in 0..Len(back') |-> IF i <= Len(back) THEN s[i] ELSE s[Len(back)] + m[2]]
<1>3. Len(back) \in 0..Len(back) /\ s[Len(back)] \in Nat
  BY <1>1, <1>2
<1>4. u \in [0..Len(back') -> Nat]
  <2>1. \A i \in 0..Len(back') : (IF i <= Len(back) THEN s[i] ELSE s[Len(back)] + m[2]) \in Nat
    <3>1. \A i \in 0..Len(back') : i <= Len(back) => i \in 0..Len(back)
      BY <1>2
    <3> QED BY SMTT(40), <1>0, <1>1, <1>3, <3>1
  <2> QED BY Zenon, <2>1
<1>5. /\ \A i \in 0..Len(back) : u[i] = s[i]
      /\ u[Len(back) + 1] = s[Len(back)] + m[2]
      /\ 0 \in 0..Len(back)
  BY <1>2
<1> HIDE DEF u
<1>6. \A i \in 1..Len(back') : u[i - 1] + back'[i][2] <= u[i]
  <2> TAKE i \in 1..Len(back')
  <2>1. CASE i = Len(back) + 1
    <3>1. i - 1 = Len(back) /\ back'[i] = m
      BY <1>2, <2>1
    <3> QED BY <1>0, <1>3, <1>5, <2>1, <3>1
  <2>2. CASE i # Len(back) + 1
    <3>1. i \in 1..Len(back) /\ i - 1 \in 0..Len(back) /\ i \in 0..Len(back)
      BY <1>2, <2>2
    <3> QED BY Zenon, <1>1, <1>2, <1>5, <3>1
  <2> QED BY Zenon, <2>1, <2>2
<1>7. \A i \in 0..Len(back') : u[i] <= InitialCredit + Len(delivered')
  <2> TAKE i \in 0..Len(back')
  <2>1. CASE i = Len(back) + 1
    <3>1. s[Len(back)] <= InitialCredit + Len(delivered)
      BY Zenon, <1>1, <1>3
    <3> QED BY <1>0, <1>3, <1>5, <2>1, <3>1
  <2>2. CASE i # Len(back) + 1
    <3>1. i \in 0..Len(back)
      BY <1>2, <2>2
    <3>2. u[i] = s[i] /\ s[i] \in Nat /\ s[i] <= InitialCredit + Len(delivered)
      BY Zenon, <1>1, <1>5, <3>1
    <3> QED BY SMTT(40), <1>0, <3>2
  <2> QED BY Zenon, <2>1, <2>2
<1>8. worker.offset + worker.credit <= u[0]
  BY Zenon, <1>1, <1>5
<1> QED BY Zenon, <1>4, <1>6, <1>7, <1>8 DEF Ledger, Orderly

LEMMA LedgerTail ==
    ASSUME Types, Ledger, back # <<>>, back' = Tail(back), UNCHANGED <<request, delivered>>,
           worker'.offset \in Nat, worker'.credit \in Nat, worker.offset <= worker'.offset,
           worker'.offset + worker'.credit <= worker.offset + worker.credit + Head(back)[2]
    PROVE  Ledger'
<1> SUFFICES ASSUME Orderly PROVE Ledger'
  BY Zenon DEF Ledger, Orderly
<1>0. /\ InitialCredit \in Nat /\ worker.offset \in Nat /\ worker.credit \in Nat
      /\ Head(back)[2] \in Nat /\ Len(delivered) \in Nat
  <2>1. Head(back) \in Messages
    BY Zenon, TailElements DEF Types
  <2>2. Head(back)[2] \in Nat
    BY <2>1 DEF Messages
  <2>3. 0..Body \subseteq Nat /\ InitialCredit \in Nat
    BY SizesAssumption
  <2> QED BY <2>2, <2>3 DEF Types
<1>1. PICK s \in [0..Len(back) -> Nat] :
        /\ worker.offset + worker.credit <= s[0]
        /\ \A i \in 1..Len(back) : s[i - 1] + back[i][2] <= s[i]
        /\ \A i \in 0..Len(back) : s[i] <= InitialCredit + Len(delivered)
  BY Zenon DEF Ledger
<1>2. /\ Len(back) = Len(back') + 1 /\ Len(back') \in Nat
      /\ \A i \in 1..Len(back') : back'[i] = back[i + 1]
      /\ Head(back) = back[1] /\ 1 \in 1..Len(back)
  BY TailElements DEF Types
<1> DEFINE u == [i \in 0..Len(back') |-> s[i + 1]]
<1>3. \A i \in 0..Len(back') : i + 1 \in 0..Len(back) /\ s[i + 1] \in Nat
  BY <1>1, <1>2
<1>4. u \in [0..Len(back') -> Nat] /\ \A i \in 0..Len(back') : u[i] = s[i + 1]
  BY Zenon, <1>3
<1> HIDE DEF u
<1>5. worker'.offset + worker'.credit <= u[0]
  <2>1. 0 \in 0..Len(back') /\ u[0] = s[1] /\ s[1] \in Nat /\ s[0] \in Nat
    <3>1. 0 \in 0..Len(back') /\ 0 \in 0..Len(back) /\ 1 \in 0..Len(back) /\ 0 + 1 = 1
      BY <1>2
    <3> QED BY Zenon, <1>1, <1>4, <3>1
  <2>2. s[0] + Head(back)[2] <= s[1]
    <3>1. s[1 - 1] + back[1][2] <= s[1]
      BY Zenon, <1>1, <1>2
    <3> QED BY <1>2, <3>1
  <2>3. worker.offset + worker.credit <= s[0]
    BY Zenon, <1>1
  <2> QED BY SMTT(40), <1>0, <2>1, <2>2, <2>3
<1>6. \A i \in 1..Len(back') : u[i - 1] + back'[i][2] <= u[i]
  <2> TAKE i \in 1..Len(back')
  <2>1. i - 1 \in 0..Len(back') /\ i \in 0..Len(back') /\ i + 1 \in 1..Len(back)
        /\ (i - 1) + 1 = i /\ (i + 1) - 1 = i
    BY <1>2
  <2>2. u[i - 1] = s[i] /\ u[i] = s[i + 1] /\ back'[i] = back[i + 1]
    BY Zenon, <1>2, <1>4, <2>1
  <2>3. s[(i + 1) - 1] + back[i + 1][2] <= s[i + 1]
    BY Zenon, <1>1, <2>1
  <2> QED BY Zenon, <2>1, <2>2, <2>3
<1>7. \A i \in 0..Len(back') : u[i] <= InitialCredit + Len(delivered)
  BY Zenon, <1>1, <1>3, <1>4
<1>8. Len(delivered) <= worker'.offset
  BY <1>0 DEF Ledger
<1> QED BY Zenon, <1>4, <1>5, <1>6, <1>7, <1>8 DEF Ledger, Orderly

LEMMA LedgerSame ==
    ASSUME Types, Ledger, UNCHANGED <<request, back, delivered>>,
           worker'.offset \in Nat, worker'.credit \in Nat, worker.offset <= worker'.offset,
           worker'.offset + worker'.credit <= worker.offset + worker.credit
    PROVE  Ledger'
<1> SUFFICES ASSUME Orderly PROVE Ledger'
  BY Zenon DEF Ledger, Orderly
<1>0. worker.offset \in Nat /\ worker.credit \in Nat /\ Len(delivered) \in Nat /\ Len(back) \in Nat
  BY SMTT(40), SizesAssumption DEF Types
<1>1. PICK s \in [0..Len(back) -> Nat] :
        /\ worker.offset + worker.credit <= s[0]
        /\ \A i \in 1..Len(back) : s[i - 1] + back[i][2] <= s[i]
        /\ \A i \in 0..Len(back) : s[i] <= InitialCredit + Len(delivered)
  BY Zenon DEF Ledger
<1>2. worker'.offset + worker'.credit <= s[0]
  <2>1. s[0] \in Nat
    BY <1>0, <1>1
  <2> QED BY <1>0, <1>1, <2>1
<1>3. Len(delivered) <= worker'.offset
  BY <1>0 DEF Ledger
<1> QED BY Zenon, <1>1, <1>2, <1>3 DEF Ledger, Orderly

-----------------------------------------------------------------------------
(* The executor's frames.                                                  *)

LEMMA Sizes ==
    /\ Body \in Nat /\ InitialCredit \in Nat /\ FrameData \in Nat /\ PartSize \in Nat \ {0}
    /\ MaxBody \in Nat /\ Attempt = 1
BY Zenon, SizesAssumption DEF Attempt

LEMMA InitIInv == Init => IInv
<1> SUFFICES ASSUME Init PROVE IInv
  BY Zenon
<1>1. Types
  <2>1. validator \in Validators
    BY Sizes DEF Init, NewStreamValidator, Validators
  <2>2. worker \in [seq : Nat, offset : 0..Body, credit : Nat, phase : Phases]
    BY Sizes DEF Init, Phases
  <2> QED BY <2>1, <2>2 DEF Init, Types
<1>2. Wire = {} /\ Len(wire) = 0 /\ Len(back) = 0 /\ Len(delivered) = 0
  BY DEF Init, Wire, Elements
<1>3. Numbered /\ AsSent
  BY Zenon, <1>2 DEF Init, Numbered, AsSent
<1>4. Chained /\ Contiguous
  BY <1>2 DEF Init, Chained, Contiguous, NewStreamValidator
<1>5. Taken
  <2>1. delivered = [i \in 1..Len(delivered) |-> i]
    BY <1>2 DEF Init
  <2> QED BY <1>2, <2>1, Sizes DEF Init, Taken, NewStreamValidator
<1>6. Ledger
  <2> DEFINE s == [i \in 0..0 |-> InitialCredit]
  <2>1. s \in [0..Len(back) -> Nat] /\ s[0] = InitialCredit
    BY <1>2, Sizes
  <2>2. /\ worker.offset = 0 /\ worker.credit = InitialCredit
        /\ \A i \in 0..Len(back) : s[i] <= InitialCredit + Len(delivered)
    BY <1>2, Sizes DEF Init
  <2> HIDE DEF s
  <2> QED BY <1>2, <2>1, <2>2, Sizes DEF Ledger
<1>7. RejectedOnlyAfterLoss /\ SuccessIsWhole
  BY Zenon DEF Init, RejectedOnlyAfterLoss, SuccessIsWhole
<1> QED BY Zenon, <1>1, <1>3, <1>4, <1>5, <1>6, <1>7 DEF IInv

\* What the caller is told stays true while Control does nothing.
LEMMA ControlIdle ==
    ASSUME IInv, UNCHANGED control, lost => lost'
    PROVE  Taken' /\ RejectedOnlyAfterLoss' /\ SuccessIsWhole'
<1>1. Taken'
  BY Zenon DEF IInv, control, Taken, Orderly
<1>2. RejectedOnlyAfterLoss'
  BY Zenon DEF IInv, control, RejectedOnlyAfterLoss, Orderly
<1>3. SuccessIsWhole'
  BY Zenon DEF IInv, control, SuccessIsWhole, Orderly, Sink
<1> QED BY Zenon, <1>1, <1>2, <1>3

\* A frame leaves the executor.
LEMMA EmitKeeps ==
    ASSUME IInv, NEW kind \in Kinds, NEW len \in Nat, NEW ok \in BOOLEAN, NEW phase \in Phases,
           worker' = [seq |-> worker.seq + 1, offset |-> worker.offset + len,
                      credit |-> worker.credit - len, phase |-> phase],
           wire' = Append(wire, Frame(worker.seq + 1, kind, worker.offset, len, ok)),
           UNCHANGED <<control, lost>>, len <= worker.credit, worker.offset + len <= Body,
           Orderly \/ len = 0,
           InPlace(Frame(worker.seq + 1, kind, worker.offset, len, ok)), Numbered'
    PROVE  /\ worker' \in [seq : Nat, offset : 0..Body, credit : Nat, phase : Phases]
           /\ wire' \in Seq(FrameSet)
           /\ AsSent' /\ Chained' /\ Contiguous'
<1> DEFINE new == Frame(worker.seq + 1, kind, worker.offset, len, ok)
<1>0. /\ worker.seq \in Nat /\ worker.offset \in Nat /\ worker.credit \in Nat
      /\ worker.offset <= Body
  BY Sizes DEF IInv, Types
<1>1. /\ worker'.seq = worker.seq + 1 /\ worker'.offset = worker.offset + len
      /\ worker'.credit = worker.credit - len
      /\ worker' \in [seq : Nat, offset : 0..Body, credit : Nat, phase : Phases]
  <2>1. worker.offset + len \in 0..Body /\ worker.credit - len \in Nat /\ worker.seq + 1 \in Nat
    BY SMTT(40), <1>0, Sizes
  <2> QED BY Zenon, <2>1
<1>2. /\ new \in FrameSet /\ new.seq = worker.seq + 1 /\ new.attempt = Attempt
      /\ new.offset = worker.offset /\ new.len = len /\ new.kind = kind /\ new.ok = ok
  <2>1. kind # "nil"
    BY Zenon DEF Kinds, ProgressKinds, TerminalKinds
  <2> QED BY <1>0, <2>1, Sizes DEF Frame, FrameSet
<1>3. InPlace(new)
  BY Zenon
<1>n. wire' = Append(wire, new)
  BY Zenon
<1> HIDE DEF new
<1>4. /\ wire' \in Seq(FrameSet) /\ Len(wire') = Len(wire) + 1 /\ Len(wire) \in Nat
      /\ \A i \in 1..Len(wire) : wire'[i] = wire[i]
      /\ wire'[Len(wire) + 1] = new
      /\ Wire' = Wire \union {new}
  BY <1>2, <1>n, AppendElements DEF IInv, Types, Wire
<1>5. Wire \subseteq FrameSet
  BY DEF IInv, Types, Wire, Elements
<1>6. Orderly' = Orderly /\ UNCHANGED <<validator, outcome, lost>>
  BY Zenon DEF control, Orderly
<1>7. Orderly => len <= InitialCredit
  <2> SUFFICES ASSUME Orderly PROVE len <= InitialCredit
    BY Zenon
  <2>1. PICK s \in [0..Len(back) -> Nat] :
          /\ worker.offset + worker.credit <= s[0]
          /\ \A i \in 0..Len(back) : s[i] <= InitialCredit + Len(delivered)
    BY Zenon DEF IInv, Ledger
  <2>2. Len(back) \in Nat /\ Len(delivered) \in Nat /\ Len(delivered) <= worker.offset
    BY DEF IInv, Types, Ledger
  <2>3. s[0] \in Nat /\ s[0] <= InitialCredit + Len(delivered)
    BY <2>1, <2>2
  <2> QED BY <1>0, <2>1, <2>2, <2>3, Sizes
<1>8. AsSent'
  <2>1. CASE ~Orderly
    <3>1. worker'.offset = 0
      BY <1>0, <1>1, <2>1 DEF IInv, AsSent
    <3> QED BY Zenon, <1>6, <2>1, <3>1 DEF AsSent
  <2>2. CASE Orderly
    <3>1. ASSUME NEW f \in Wire
          PROVE  Sent(f)'
      <4>1. Sent(f) /\ f \in FrameSet
        BY Zenon, <1>5, <2>2 DEF IInv, AsSent
      <4>2. f.seq \in 1..worker'.seq /\ f.offset + f.len <= worker'.offset
        BY SMTT(40), <1>0, <1>1, <4>1 DEF Sent, FrameSet
      <4> QED BY Zenon, <4>1, <4>2 DEF Sent, InPlace
    <3>2. ASSUME NEW f, f = new
          PROVE  Sent(f)'
      <4>1. f.seq \in 1..worker'.seq /\ f.offset + f.len <= worker'.offset
            /\ f.len <= InitialCredit
        BY <1>0, <1>1, <1>2, <1>7, <2>2, <3>2
      <4> QED BY Zenon, <1>2, <1>3, <3>2, <4>1 DEF Sent, InPlace
    <3> QED BY Zenon, <1>4, <1>6, <2>2, <3>1, <3>2 DEF AsSent
  <2> QED BY Zenon, <2>1, <2>2
<1>9. Chained'
  <2> SUFFICES ASSUME Orderly PROVE Chained'
    BY Zenon, <1>6 DEF Chained
  <2>1. \A f \in Wire : f \in FrameSet /\ f.seq <= worker.seq /\ f.seq \in Nat
    BY <1>0, <1>5 DEF IInv, AsSent, Sent, FrameSet
  <2>2. \A f, g \in Wire' : g.seq = f.seq + 1 => g.offset = f.offset + f.len
    <3> SUFFICES ASSUME NEW f \in Wire', NEW g \in Wire', g.seq = f.seq + 1
                 PROVE  g.offset = f.offset + f.len
      BY Zenon
    <3>1. f \in Wire
      BY <1>0, <1>2, <1>4, <2>1
    <3>2. CASE g \in Wire
      BY Zenon, <3>1, <3>2 DEF IInv, Chained
    <3>3. CASE g = new
      <4>1. f.seq = worker.seq
        BY <1>0, <1>2, <2>1, <3>1, <3>3
      <4> QED BY Zenon, <1>2, <3>1, <3>3, <4>1 DEF IInv, Chained
    <3> QED BY Zenon, <1>4, <3>2, <3>3
  <2>3. \A f \in Wire' : f.seq = worker'.seq => worker'.offset = f.offset + f.len
    <3>1. \A f \in Wire : f.seq # worker'.seq
      BY SMTT(40), <1>0, <1>1, <2>1
    <3> QED BY Zenon, <1>1, <1>2, <1>4, <3>1
  <2>4. ASSUME outcome = "none"
        PROVE  /\ validator.expectedSeq <= worker'.seq + 1
               /\ validator.expectedSeq # worker'.seq + 1
               /\ \A f \in Wire' : f.seq = validator.expectedSeq => f.offset = validator.offset
    <3>1. /\ validator.expectedSeq <= worker.seq + 1 /\ validator.expectedSeq \in Nat
          /\ validator.expectedSeq = worker.seq + 1 => worker.offset = validator.offset
      BY Zenon, <2>4 DEF IInv, Chained, Types, Validators
    <3>2. \A f \in Wire : f.seq = validator.expectedSeq => f.offset = validator.offset
      BY Zenon, <2>4 DEF IInv, Chained
    <3> QED BY SMTT(40), <1>0, <1>1, <1>2, <1>4, <3>1, <3>2
  <2> QED BY Zenon, <1>6, <2>2, <2>3, <2>4 DEF Chained
<1>10. Contiguous'
  <2>r. UNCHANGED <<request, lost, outcome>>
    BY Zenon DEF control
  <2> SUFFICES ASSUME Orderly, ~lost, outcome = "none" PROVE Contiguous'
    BY SMTT(40), <2>r DEF Contiguous, Orderly
  <2>0. validator.expectedSeq \in Nat
    BY Zenon DEF IInv, Types, Validators
  <2>1. \A i \in 1..Len(wire) : \/ wire[i].seq <= validator.expectedSeq
                                \/ \E j \in 1..(i - 1) : wire[i].seq = wire[j].seq + 1
    BY Zenon DEF IInv, Contiguous
  <2>2. ASSUME NEW i \in 1..Len(wire')
        PROVE  \/ wire'[i].seq <= validator.expectedSeq
               \/ \E j \in 1..(i - 1) : wire'[i].seq = wire'[j].seq + 1
    <3>1. CASE i \in 1..Len(wire)
      <4>1. \A j \in 1..(i - 1) : j \in 1..Len(wire)
        BY <1>4, <3>1
      <4> QED BY Zenon, <1>4, <2>1, <3>1, <4>1
    <3>2. CASE i = Len(wire) + 1
      <4>1. wire'[i].seq = worker.seq + 1
        BY Zenon, <1>2, <1>4, <3>2
      <4>2. CASE worker.seq < validator.expectedSeq
        BY <1>0, <2>0, <4>1, <4>2
      <4>3. CASE \E j \in 1..Len(wire) : wire[j].seq = worker.seq
        <5>1. PICK j \in 1..Len(wire) : wire[j].seq = worker.seq
          BY Zenon, <4>3
        <5>2. j \in 1..(i - 1) /\ wire'[j] = wire[j]
          BY SMTT(40), <1>4, <3>2, <5>1
        <5> QED BY Zenon, <4>1, <5>1, <5>2
      <4> QED BY Zenon, <4>2, <4>3 DEF IInv, Contiguous
    <3> QED BY <1>4, <3>1, <3>2
  <2>3. \E i \in 1..Len(wire') : wire'[i].seq = worker'.seq
    <3>1. Len(wire) + 1 \in 1..Len(wire') /\ wire'[Len(wire) + 1].seq = worker'.seq
      BY <1>1, <1>2, <1>4
    <3> QED BY Zenon, <3>1
  <2> QED BY Zenon, <1>6, <2>2, <2>3 DEF Contiguous
<1> QED BY Zenon, <1>1, <1>4, <1>8, <1>9, <1>10

LEMMA EmitIInv ==
    ASSUME IInv, NEW kind \in Kinds, NEW len \in Nat, NEW ok \in BOOLEAN, NEW phase \in Phases,
           Emits(kind, len, ok, phase), len <= worker.credit, worker.offset + len <= Body,
           InPlace(Frame(worker.seq + 1, kind, worker.offset, len, ok)), Numbered'
    PROVE  IInv'
<1>1. /\ worker' = [seq |-> worker.seq + 1, offset |-> worker.offset + len,
                    credit |-> worker.credit - len, phase |-> phase]
      /\ wire' = Append(wire, Frame(worker.seq + 1, kind, worker.offset, len, ok))
      /\ UNCHANGED <<back, control, lost>> /\ Orderly
  BY Zenon DEF Emits
<1>2. /\ worker' \in [seq : Nat, offset : 0..Body, credit : Nat, phase : Phases]
      /\ wire' \in Seq(FrameSet)
      /\ AsSent' /\ Chained' /\ Contiguous'
  BY Zenon, <1>1, EmitKeeps
<1>3. UNCHANGED <<request, back, validator, started, delivered, outcome>>
  BY Zenon, <1>1 DEF control
<1>4. Types'
  BY Zenon, <1>2, <1>3 DEF IInv, Types
<1>5. Ledger'
  <2>1. worker.offset \in Nat /\ worker.credit \in Nat
    BY Sizes DEF IInv, Types
  <2>2. worker'.offset = worker.offset + len /\ worker'.credit = worker.credit - len
    BY Zenon, <1>1
  <2>3. /\ worker'.offset \in Nat /\ worker'.credit \in Nat /\ worker.offset <= worker'.offset
        /\ worker'.offset + worker'.credit <= worker.offset + worker.credit
    BY <2>1, <2>2
  <2> QED BY Zenon, <1>3, <2>3, LedgerSame DEF IInv
<1>6. Taken' /\ RejectedOnlyAfterLoss' /\ SuccessIsWhole'
  BY Zenon, <1>1, ControlIdle
<1> QED BY Zenon, <1>2, <1>4, <1>5, <1>6 DEF IInv

LEMMA ExecuteIInv ==
    ASSUME IInv, Execute
    PROVE  IInv'
<1>0. /\ worker.seq \in Nat /\ worker.offset \in Nat /\ worker.credit \in Nat
      /\ worker.offset <= Body
  BY Sizes DEF IInv, Types
<1>1. /\ {"outbound_start", "response_start", "data", "trailers", "end", "error"} \subseteq Kinds
      /\ {"outbound", "started", "trailers", "ended"} \subseteq Phases
  BY Zenon DEF Kinds, ProgressKinds, TerminalKinds, Phases
<1>2. 0 \in Nat /\ 0 <= worker.credit /\ worker.offset + 0 <= Body /\ {TRUE, FALSE} \subseteq BOOLEAN
  BY <1>0, Sizes
<1>a. CASE outboundStart
  <2>1. worker.seq = 0 /\ Emits("outbound_start", 0, TRUE, "outbound")
    BY Zenon, <1>a DEF outboundStart, IInv, Numbered
  <2>2. Numbered' /\ InPlace(Frame(worker.seq + 1, "outbound_start", worker.offset, 0, TRUE))
    <3>1. worker'.seq = worker.seq + 1 /\ worker'.phase = "outbound"
      BY Zenon, <2>1 DEF Emits
    <3>2. Numbered'
      BY <1>0, <2>1, <3>1 DEF Numbered
    <3>3. InPlace(Frame(worker.seq + 1, "outbound_start", worker.offset, 0, TRUE))
      BY <1>0, <2>1 DEF InPlace, TerminalKinds, Frame
    <3> QED BY Zenon, <3>2, <3>3
  <2> QED BY Zenon, <1>1, <1>2, <2>1, <2>2, EmitIInv
<1>b. CASE responseStart
  <2>1. worker.seq = 1 /\ Emits("response_start", 0, FALSE, "started")
    BY Zenon, <1>b DEF responseStart, IInv, Numbered
  <2>2. Numbered' /\ InPlace(Frame(worker.seq + 1, "response_start", worker.offset, 0, FALSE))
    <3>1. worker'.seq = worker.seq + 1 /\ worker'.phase = "started"
      BY Zenon, <2>1 DEF Emits
    <3>2. Numbered'
      BY <1>0, <2>1, <3>1 DEF Numbered
    <3>3. InPlace(Frame(worker.seq + 1, "response_start", worker.offset, 0, FALSE))
      BY <1>0, <2>1 DEF InPlace, TerminalKinds, Frame
    <3> QED BY Zenon, <3>2, <3>3
  <2> QED BY Zenon, <1>1, <1>2, <2>1, <2>2, EmitIInv
<1>c. CASE streamResponseBody
  <2>1. PICK n \in 1..FrameData : /\ n <= worker.credit /\ worker.offset + n <= Body
                                  /\ Emits("data", n, FALSE, "started")
    BY Zenon, <1>c DEF streamResponseBody
  <2>2. worker.seq >= 2 /\ n \in Nat
    BY <1>c, Sizes DEF streamResponseBody, IInv, Numbered
  <2>3. Numbered' /\ InPlace(Frame(worker.seq + 1, "data", worker.offset, n, FALSE))
    <3>1. worker'.seq = worker.seq + 1 /\ worker'.phase = "started"
      BY Zenon, <2>1 DEF Emits
    <3>2. Numbered'
      BY <1>0, <2>1, <2>2, <3>1 DEF Numbered
    <3>3. InPlace(Frame(worker.seq + 1, "data", worker.offset, n, FALSE))
      BY <1>0, <2>1, <2>2 DEF InPlace, TerminalKinds, Frame
    <3> QED BY Zenon, <3>2, <3>3
  <2> QED BY Zenon, <1>1, <1>2, <2>1, <2>2, <2>3, EmitIInv
<1>d. CASE trailers
  <2>1. worker.seq >= 2 /\ Emits("trailers", 0, FALSE, "trailers")
    BY Zenon, <1>d DEF trailers, IInv, Numbered
  <2>2. Numbered' /\ InPlace(Frame(worker.seq + 1, "trailers", worker.offset, 0, FALSE))
    <3>1. worker'.seq = worker.seq + 1 /\ worker'.phase = "trailers"
      BY Zenon, <2>1 DEF Emits
    <3>2. Numbered'
      BY <1>0, <2>1, <3>1 DEF Numbered
    <3>3. InPlace(Frame(worker.seq + 1, "trailers", worker.offset, 0, FALSE))
      BY <1>0, <2>1 DEF InPlace, TerminalKinds, Frame
    <3> QED BY Zenon, <3>2, <3>3
  <2> QED BY Zenon, <1>1, <1>2, <2>1, <2>2, EmitIInv
<1>e. CASE end
  <2>1. worker.seq >= 2 /\ worker.offset = Body /\ Emits("end", 0, TRUE, "ended")
    BY Zenon, <1>e DEF end, IInv, Numbered
  <2>2. Numbered' /\ InPlace(Frame(worker.seq + 1, "end", worker.offset, 0, TRUE))
    <3>1. worker'.seq = worker.seq + 1 /\ worker'.phase = "ended"
      BY Zenon, <2>1 DEF Emits
    <3>2. Numbered'
      BY Zenon, <1>0, <2>1, <3>1 DEF Numbered
    <3>3. InPlace(Frame(worker.seq + 1, "end", worker.offset, 0, TRUE))
      BY <1>0, <2>1 DEF InPlace, TerminalKinds, Frame
    <3> QED BY Zenon, <3>2, <3>3
  <2> QED BY Zenon, <1>1, <1>2, <2>1, <2>2, EmitIInv
<1>f. CASE error
  <2>1. Emits("error", 0, FALSE, "ended")
    BY Zenon, <1>f DEF error
  <2>2. Numbered' /\ InPlace(Frame(worker.seq + 1, "error", worker.offset, 0, FALSE))
    <3>1. worker'.seq = worker.seq + 1 /\ worker'.phase = "ended"
      BY Zenon, <2>1 DEF Emits
    <3>2. Numbered'
      BY Zenon, <1>0, <2>1, <3>1 DEF Numbered
    <3>3. InPlace(Frame(worker.seq + 1, "error", worker.offset, 0, FALSE))
      BY Zenon, <1>0, <2>1 DEF InPlace, TerminalKinds, Frame
    <3> QED BY Zenon, <3>2, <3>3
  <2> QED BY Zenon, <1>1, <1>2, <2>1, <2>2, EmitIInv
<1> QED BY Zenon, <1>a, <1>b, <1>c, <1>d, <1>e, <1>f DEF Execute

LEMMA HearIInv ==
    ASSUME IInv, Hear
    PROVE  IInv'
<1> DEFINE m == Head(back)
<1>0. /\ back # <<>> /\ back' = Tail(back) /\ UNCHANGED <<control, lost>>
      /\ UNCHANGED <<request, validator, started, delivered, outcome>>
  BY Zenon DEF Hear, control
<1>1. m \in Messages /\ m[2] \in Nat /\ (m[1] = "cancel" => m[2] = 0) /\ back' \in Seq(Messages)
  <2>1. m \in Messages /\ back' \in Seq(Messages)
    BY Zenon, <1>0, TailElements DEF IInv, Types
  <2> QED BY <2>1 DEF Messages
<1>2. worker.seq \in Nat /\ worker.offset \in 0..Body /\ worker.credit \in Nat
      /\ worker.offset \in Nat /\ worker.phase \in Phases
  BY Sizes DEF IInv, Types
<1>3. Taken' /\ RejectedOnlyAfterLoss' /\ SuccessIsWhole'
  BY Zenon, <1>0, ControlIdle
<1> HIDE DEF m
<1>a. CASE m[1] = "credit" /\ worker' = [worker EXCEPT !.credit = @ + m[2]] /\ UNCHANGED wire
  <2>1. /\ worker' \in [seq : Nat, offset : 0..Body, credit : Nat, phase : Phases]
        /\ worker'.offset = worker.offset /\ worker'.credit = worker.credit + m[2]
        /\ worker'.seq = worker.seq /\ worker'.phase = worker.phase
    <3>1. worker \in [seq : Nat, offset : 0..Body, credit : Nat, phase : Phases]
      BY Zenon DEF IInv, Types
    <3> QED BY SMTT(40), <1>1, <1>2, <1>a, <3>1
  <2>2. Types'
    BY Zenon, <1>0, <1>1, <1>a, <2>1 DEF IInv, Types
  <2>3. Ledger'
    <3>1. /\ worker'.offset \in Nat /\ worker'.credit \in Nat /\ worker.offset <= worker'.offset
          /\ worker'.offset + worker'.credit <= worker.offset + worker.credit + m[2]
      BY <1>1, <1>2, <2>1
    <3> QED BY Zenon, <1>0, <3>1, LedgerTail DEF IInv, m
  <2>4. Numbered' /\ AsSent' /\ Chained' /\ Contiguous'
    BY ZenonT(40), <1>0, <1>a, <2>1 DEF IInv, Numbered, AsSent, Sent, InPlace, Wire, Orderly, Chained,
       Contiguous
  <2> QED BY Zenon, <1>3, <2>2, <2>3, <2>4 DEF IInv
<1>b. CASE /\ m[1] = "cancel" /\ worker' = [worker EXCEPT !.seq = @ + 1, !.phase = "ended"]
           /\ wire' = Append(wire, Frame(worker.seq + 1, "cancelled", worker.offset, 0, FALSE))
  <2>1. worker' = [seq |-> worker.seq + 1, offset |-> worker.offset + 0,
                   credit |-> worker.credit - 0, phase |-> "ended"]
    <3>1. worker' = [seq |-> worker.seq + 1, offset |-> worker.offset,
                     credit |-> worker.credit, phase |-> "ended"]
      BY Zenon, <1>b DEF IInv, Types
    <3> QED BY <1>2, <3>1
  <2>2. Numbered' /\ InPlace(Frame(worker.seq + 1, "cancelled", worker.offset, 0, FALSE))
    BY Zenon, <2>1 DEF Numbered, InPlace, TerminalKinds, Frame
  <2>3. "cancelled" \in Kinds /\ "ended" \in Phases /\ 0 <= worker.credit
        /\ worker.offset + 0 <= Body
    BY <1>2, Sizes DEF Kinds, TerminalKinds, Phases
  <2>4. /\ worker' \in [seq : Nat, offset : 0..Body, credit : Nat, phase : Phases]
        /\ wire' \in Seq(FrameSet)
        /\ AsSent' /\ Chained' /\ Contiguous'
    BY Zenon, <1>0, <1>b, <2>1, <2>2, <2>3, EmitKeeps
  <2>5. Types'
    BY Zenon, <1>0, <1>1, <2>4 DEF IInv, Types
  <2>6. Ledger'
    <3>1. /\ worker'.offset \in Nat /\ worker'.credit \in Nat /\ worker.offset <= worker'.offset
          /\ worker'.offset + worker'.credit <= worker.offset + worker.credit + m[2]
      BY <1>1, <1>2, <2>1
    <3> QED BY Zenon, <1>0, <3>1, LedgerTail DEF IInv, m
  <2> QED BY Zenon, <1>3, <2>2, <2>4, <2>5, <2>6 DEF IInv
<1>c. CASE UNCHANGED <<worker, wire>>
  <2>1. Types'
    BY Zenon, <1>0, <1>1, <1>c DEF IInv, Types
  <2>2. Ledger'
    <3>1. /\ worker'.offset \in Nat /\ worker'.credit \in Nat /\ worker.offset <= worker'.offset
          /\ worker'.offset + worker'.credit <= worker.offset + worker.credit + m[2]
      BY <1>1, <1>2, <1>c
    <3> QED BY Zenon, <1>0, <3>1, LedgerTail DEF IInv, m
  <2>3. Numbered' /\ AsSent' /\ Chained' /\ Contiguous'
    BY Zenon, <1>0, <1>c DEF IInv, Numbered, AsSent, Sent, InPlace, Wire, Orderly, Chained, Contiguous
  <2> QED BY Zenon, <1>3, <2>1, <2>2, <2>3 DEF IInv
<1> QED BY Zenon, <1>a, <1>b, <1>c DEF Hear, m

LEMMA AnyFrameIInv ==
    ASSUME IInv, AnyFrame
    PROVE  IInv'
<1>0. /\ ~Orderly /\ UNCHANGED <<worker, back, control, lost>>
      /\ UNCHANGED <<request, validator, started, delivered, outcome>>
  BY Zenon DEF AnyFrame, control
<1>1. PICK kind \in Kinds \cup {"nil"}, seq \in 0..(validator.expectedSeq + 1),
           attempt \in {Attempt, Attempt + 1}, offset \in 0..2, len \in 0..(InitialCredit + 1),
           ok \in BOOLEAN :
        wire' = IF kind = "nil" THEN <<Undecodable>>
                ELSE <<[Frame(seq, kind, offset, len, ok) EXCEPT !.attempt = attempt]>>
  BY Zenon DEF AnyFrame
<1>2. \E f \in FrameSet : wire' = <<f>>
  <2>1. CASE kind = "nil"
    <3>1. Undecodable \in FrameSet
      BY Zenon DEF Undecodable, FrameSet
    <3> QED BY Zenon, <1>1, <2>1, <3>1
  <2>2. CASE kind # "nil"
    <3> DEFINE f == [seq |-> seq, attempt |-> attempt, kind |-> kind, offset |-> offset,
                     len |-> len, ok |-> ok]
    <3>1. seq \in Nat /\ attempt \in Nat /\ offset \in Nat /\ len \in Nat
      BY Sizes DEF IInv, Types, Validators
    <3>2. f \in FrameSet
      BY Zenon, <2>2, <3>1 DEF FrameSet
    <3>3. wire' = <<f>>
      BY <1>1, <2>2 DEF Frame
    <3> QED BY Zenon, <3>2, <3>3
  <2> QED BY Zenon, <2>1, <2>2
<1>3. Types'
  BY <1>0, <1>2 DEF IInv, Types
<1>4. AsSent'
  BY Zenon, <1>0 DEF IInv, AsSent, Orderly
<1>5. Numbered' /\ Chained' /\ Contiguous' /\ Ledger'
  BY Zenon, <1>0 DEF IInv, Numbered, Chained, Contiguous, Ledger, Orderly
<1>6. Taken' /\ RejectedOnlyAfterLoss' /\ SuccessIsWhole'
  BY Zenon, <1>0, ControlIdle
<1> QED BY Zenon, <1>3, <1>4, <1>5, <1>6 DEF IInv

-----------------------------------------------------------------------------
(* NATS.                                                                   *)

LEMMA LoseFrameIInv ==
    ASSUME IInv, LoseFrame
    PROVE  IInv'
<1>0. /\ UNCHANGED <<worker, control>> /\ lost' = TRUE
      /\ UNCHANGED <<request, validator, started, delivered, outcome>>
  BY Zenon DEF LoseFrame, control
<1>1. worker.offset \in Nat /\ worker.credit \in Nat
  BY Sizes DEF IInv, Types
<1> DEFINE Kept == /\ wire' \in Seq(FrameSet) /\ back' \in Seq(Messages)
                   /\ Wire' \subseteq Wire /\ Ledger'
<1>2. Kept
  <2>1. ASSUME NEW i \in DOMAIN wire, UNCHANGED back,
               wire' = SubSeq(wire, 1, i - 1) \o SubSeq(wire, i + 1, Len(wire))
        PROVE  Kept
    <3>1. wire \in Seq(FrameSet) /\ i \in 1..Len(wire)
      BY DEF IInv, Types
    <3>2. wire' \in Seq(FrameSet) /\ Elements(wire') \subseteq Elements(wire)
      BY Zenon, <2>1, <3>1, RemoveElement
    <3>3. Ledger'
      BY <1>0, <1>1, <2>1, LedgerSame DEF IInv
    <3> QED BY Zenon, <2>1, <3>2, <3>3 DEF Wire, IInv, Types
  <2>2. ASSUME back # <<>>, back' = Tail(back), UNCHANGED wire
        PROVE  Kept
    <3>1. back' \in Seq(Messages) /\ Head(back) \in Messages
      BY Zenon, <2>2, TailElements DEF IInv, Types
    <3>2. Head(back)[2] \in Nat
      BY <3>1 DEF Messages
    <3>3. Ledger'
      BY <1>0, <1>1, <2>2, <3>2, LedgerTail DEF IInv
    <3> QED BY Zenon, <2>2, <3>1, <3>3 DEF Wire, IInv, Types
  <2> QED BY Zenon, <2>1, <2>2 DEF LoseFrame
<1>3. Types'
  BY Zenon, <1>0, <1>2 DEF IInv, Types
<1>4. Numbered' /\ AsSent' /\ Chained' /\ Contiguous'
  BY Zenon, <1>0, <1>2 DEF IInv, Numbered, AsSent, Sent, InPlace, Chained, Contiguous, Orderly
<1>5. Taken' /\ RejectedOnlyAfterLoss' /\ SuccessIsWhole'
  BY Zenon, <1>0, ControlIdle
<1> QED BY Zenon, <1>2, <1>3, <1>4, <1>5 DEF IInv

LEMMA RepeatFrameIInv ==
    ASSUME IInv, RepeatFrame
    PROVE  IInv'
<1>0. /\ UNCHANGED <<worker, back, control, lost>>
      /\ UNCHANGED <<request, validator, started, delivered, outcome>>
  BY Zenon DEF RepeatFrame, control
<1>n. wire \in Seq(FrameSet) /\ DOMAIN wire = 1..Len(wire)
  BY DEF IInv, Types
<1>1. PICK i \in 1..Len(wire) : wire' = Append(wire, wire[i])
  BY Zenon, <1>n DEF RepeatFrame
<1>2. wire[i] \in FrameSet /\ wire[i] \in Wire
  BY DEF IInv, Types, Wire, Elements
<1>3. /\ wire' \in Seq(FrameSet) /\ Len(wire') = Len(wire) + 1 /\ Len(wire) \in Nat
      /\ \A k \in 1..Len(wire) : wire'[k] = wire[k]
      /\ wire'[Len(wire) + 1] = wire[i]
      /\ Wire' = Wire
  BY <1>n, <1>1, <1>2, AppendElements DEF Wire
<1>4. Types'
  BY Zenon, <1>0, <1>3 DEF IInv, Types
<1>5. Numbered' /\ AsSent' /\ Chained'
  BY ZenonT(40), <1>0, <1>3 DEF IInv, Numbered, AsSent, Sent, InPlace, Chained, Orderly
<1>6. Contiguous'
  <2> SUFFICES ASSUME Orderly, ~lost, outcome = "none" PROVE Contiguous'
    BY Zenon, <1>0 DEF Contiguous, Orderly
  <2>1. \A k \in 1..Len(wire) : \/ wire[k].seq <= validator.expectedSeq
                                \/ \E j \in 1..(k - 1) : wire[k].seq = wire[j].seq + 1
    BY Zenon DEF IInv, Contiguous
  <2>2. ASSUME NEW k \in 1..Len(wire), NEW n \in 1..Len(wire'), k <= n, wire'[n] = wire[k]
        PROVE  \/ wire'[n].seq <= validator.expectedSeq
               \/ \E j \in 1..(n - 1) : wire'[n].seq = wire'[j].seq + 1
    <3>1. \A j \in 1..(k - 1) : j \in 1..(n - 1) /\ wire'[j] = wire[j]
      BY <1>3, <2>2
    <3> QED BY Zenon, <2>1, <2>2, <3>1
  <2>3. ASSUME NEW n \in 1..Len(wire')
        PROVE  \/ wire'[n].seq <= validator.expectedSeq
               \/ \E j \in 1..(n - 1) : wire'[n].seq = wire'[j].seq + 1
    <3>1. CASE n \in 1..Len(wire)
      <4>1. n \in 1..Len(wire') /\ n <= n /\ wire'[n] = wire[n]
        BY <1>3, <3>1
      <4> QED BY Zenon, <2>2, <3>1, <4>1
    <3>2. CASE n = Len(wire) + 1
      <4>1. i \in 1..Len(wire) /\ i <= n /\ wire'[n] = wire[i]
        BY <1>1, <1>3, <3>2
      <4> QED BY Zenon, <2>2, <4>1
    <3>3. n \in 1..Len(wire) \/ n = Len(wire) + 1
      BY <1>3
    <3> QED BY Zenon, <3>1, <3>2, <3>3
  <2>4. \A k \in 1..Len(wire) : k \in 1..Len(wire') /\ wire'[k] = wire[k]
    BY <1>3
  <2>5. \/ worker.seq < validator.expectedSeq
        \/ \E k \in 1..Len(wire') : wire'[k].seq = worker.seq
    BY Zenon, <2>4 DEF IInv, Contiguous
  <2> QED BY Zenon, <1>0, <2>3, <2>5 DEF Contiguous
<1>7. Ledger'
  <2>1. worker.offset \in Nat /\ worker.credit \in Nat
    BY Sizes DEF IInv, Types
  <2> QED BY <1>0, <2>1, LedgerSame DEF IInv
<1>8. Taken' /\ RejectedOnlyAfterLoss' /\ SuccessIsWhole'
  BY Zenon, <1>0, ControlIdle
<1> QED BY Zenon, <1>4, <1>5, <1>6, <1>7, <1>8 DEF IInv

-----------------------------------------------------------------------------
(* Control.                                                                *)

\* What the validator makes of a frame while the stream is open.
LEMMA Verdicts ==
    ASSUME NEW v \in Validators, NEW f \in FrameSet, ~v.terminal
    PROVE  /\ Accept(v, f) \in Ignored => f.seq < v.expectedSeq
           /\ Accept(v, f) = "accepted" =>
                /\ f.kind \in Kinds /\ f.seq = v.expectedSeq
                /\ f.kind = "data" => f.offset = v.offset /\ f.len <= v.credit
           /\ Accept(v, f) \notin Ignored \cup {"accepted"} =>
                \/ f.kind \in {"nil", "body_ref"} \/ f.attempt # v.attempt
                \/ f.seq = 0 \/ f.seq > v.expectedSeq
                \/ f.seq = v.expectedSeq /\ f.kind = "data" /\ (f.offset # v.offset \/ f.len > v.credit)
<1>0. /\ f.seq \in Nat /\ f.kind \in Kinds \union {"nil"} /\ f.len \in Nat
      /\ v.expectedSeq \in Nat /\ v.credit \in Nat
  BY Zenon DEF Validators, FrameSet
<1>1. CASE validateFrameShell(v, f) # "accepted"
  <2>1. Accept(v, f) = validateFrameShell(v, f)
    BY Zenon, <1>1 DEF Accept
  <2>2. validateFrameShell(v, f) \in {"invalid", "attempt_mismatch"}
    BY Zenon, <1>1 DEF validateFrameShell
  <2>3. f.kind = "nil" \/ f.seq = 0 \/ f.attempt # v.attempt
    BY Zenon, <1>1 DEF validateFrameShell
  <2> QED BY Zenon, <2>1, <2>2, <2>3 DEF Ignored
<1>2. CASE validateFrameShell(v, f) = "accepted"
  <2>0. f.kind \in Kinds
    BY Zenon, <1>0, <1>2 DEF validateFrameShell
  <2>1. CASE f.seq < v.expectedSeq
    <3>1. Accept(v, f) = "duplicate"
      BY Zenon, <1>2, <2>1 DEF Accept
    <3> QED BY Zenon, <2>1, <3>1 DEF Ignored
  <2>2. CASE f.seq > v.expectedSeq
    <3>1. Accept(v, f) = "sequence_gap"
      BY <1>0, <1>2, <2>2 DEF Accept
    <3> QED BY Zenon, <2>2, <3>1 DEF Ignored
  <2>3. CASE f.seq = v.expectedSeq
    <3>1. CASE f.kind = "body_ref"
      <4>1. Accept(v, f) = "invalid"
        BY <1>0, <1>2, <2>3, <3>1 DEF Accept, validatePayload
      <4> QED BY Zenon, <3>1, <4>1 DEF Ignored
    <3>2. CASE f.kind # "body_ref"
      <4>1. Accept(v, f) = acceptData(v, f)
        BY <1>0, <1>2, <2>3, <3>2 DEF Accept, validatePayload
      <4>2. /\ acceptData(v, f) \in {"accepted", "offset_mismatch", "credit_exhausted"}
            /\ acceptData(v, f) = "accepted" <=>
                 (f.kind = "data" => f.offset = v.offset /\ f.len <= v.credit)
        BY <1>0 DEF acceptData
      <4> QED BY <1>0, <2>0, <2>3, <4>1, <4>2 DEF Ignored
    <3> QED BY Zenon, <3>1, <3>2
  <2> QED BY <1>0, <2>1, <2>2, <2>3
<1> QED BY Zenon, <1>1, <1>2

\* The validator after an accepted frame.
LEMMA Advances ==
    ASSUME NEW v \in Validators, NEW f \in FrameSet, f.kind = "data" => f.len <= v.credit
    PROVE  LET w == Advance(v, f)
               n == IF f.kind = "data" THEN f.len ELSE 0
           IN  /\ w \in Validators /\ w.expectedSeq = v.expectedSeq + 1 /\ w.offset = v.offset + n
               /\ w.credit = v.credit - n /\ w.terminal = (f.kind \in TerminalKinds)
               /\ n \in Nat
               /\ GrantCredit(w, n) \in Validators /\ GrantCredit(w, n).expectedSeq = v.expectedSeq + 1
               /\ GrantCredit(w, n).offset = v.offset + n /\ GrantCredit(w, n).credit = v.credit
               /\ GrantCredit(w, n).terminal = (f.kind \in TerminalKinds)
<1> DEFINE n == IF f.kind = "data" THEN f.len ELSE 0
           w == Advance(v, f)
<1>1. f.len \in Nat /\ v.credit \in Nat /\ v.offset \in Nat /\ v.expectedSeq \in Nat \ {0}
  BY Zenon DEF Validators, FrameSet
<1>2. n \in Nat /\ v.credit - n \in Nat /\ v.offset + n \in Nat /\ v.expectedSeq + 1 \in Nat \ {0}
      /\ v.credit - n + n = v.credit
  <2>1. n \in Nat /\ n <= v.credit
    BY <1>1
  <2> HIDE DEF n
  <2> QED BY <1>1, <2>1
<1>3. w = [attempt |-> v.attempt, expectedSeq |-> v.expectedSeq + 1, offset |-> v.offset + n,
           credit |-> v.credit - n, terminal |-> (f.kind \in TerminalKinds)]
  <2>1. w = [v EXCEPT !.expectedSeq = @ + 1, !.offset = @ + n, !.credit = @ - n,
                      !.terminal = f.kind \in TerminalKinds]
    BY Zenon DEF Advance, isTerminalFrame
  <2> HIDE DEF n, w
  <2> QED BY Zenon, <2>1 DEF Validators
<1>n. (f.kind \in TerminalKinds) \in BOOLEAN
  OBVIOUS
<1> HIDE DEF n, w
<1>4. w \in Validators
  BY Zenon, <1>2, <1>3, <1>n DEF Validators
<1>5. GrantCredit(w, n) = [attempt |-> v.attempt, expectedSeq |-> v.expectedSeq + 1,
                           offset |-> v.offset + n, credit |-> v.credit - n + n,
                           terminal |-> (f.kind \in TerminalKinds)]
  BY <1>3 DEF GrantCredit
<1>6. GrantCredit(w, n) \in Validators
  BY <1>2, <1>5, <1>n DEF Validators
<1> QED BY <1>2, <1>3, <1>4, <1>5, <1>6 DEF n, w

\* The stream ends for the caller.
LEMMA StopIInv ==
    ASSUME IInv, outcome' \in Codes,
           UNCHANGED <<request, worker, lost, delivered>>,
           UNCHANGED back \/ sendCancel,
           wire' \in Seq(FrameSet), Wire' \subseteq Wire, validator' \in Validators,
           started' \in [outbound : BOOLEAN, response : BOOLEAN],
           RejectedOnlyAfterLoss', SuccessIsWhole'
    PROVE  IInv'
<1>0. outcome' # "none"
  BY Zenon DEF Codes
<1>1. back' \in Seq(Messages) /\ Ledger'
  <2>1. CASE UNCHANGED back
    <3>1. worker.offset \in Nat /\ worker.credit \in Nat
      BY Sizes DEF IInv, Types
    <3>2. Ledger'
      BY <2>1, <3>1, LedgerSame DEF IInv
    <3> QED BY Zenon, <2>1, <3>2 DEF IInv, Types
  <2>2. CASE sendCancel
    <3>1. <<"cancel", 0>> \in Messages /\ <<"cancel", 0>>[2] = 0
      BY Zenon DEF Messages
    <3>2. back' \in Seq(Messages)
      BY Zenon, <2>2, <3>1, AppendElements DEF sendCancel, IInv, Types
    <3>3. Len(delivered') \in Nat /\ Len(delivered') = Len(delivered) + 0
      BY DEF IInv, Types
    <3>4. Orderly => Len(delivered') <= worker.offset
      BY Zenon DEF IInv, Ledger
    <3>5. Ledger'
      BY Zenon, <2>2, <3>1, <3>3, <3>4, LedgerAppend DEF sendCancel, IInv
    <3> QED BY Zenon, <3>2, <3>5
  <2> QED BY Zenon, <2>1, <2>2
<1>2. Types'
  BY Zenon, <1>1 DEF IInv, Types
<1>3. Numbered' /\ AsSent'
  BY Zenon DEF IInv, Numbered, AsSent, Sent, InPlace, Orderly
<1>4. Chained'
  BY Zenon, <1>0 DEF IInv, Chained, Orderly
<1>5. Contiguous' /\ Taken'
  BY Zenon, <1>0 DEF IInv, Contiguous, Taken
<1> QED BY Zenon, <1>1, <1>2, <1>3, <1>4, <1>5 DEF IInv

\* A frame is taken off the subject that the validator need not see again.
LEMMA ContiguousTail ==
    ASSUME IInv, outcome = "none", wire # <<>>, wire' = Tail(wire),
           UNCHANGED <<request, worker, lost, outcome>>,
           validator'.expectedSeq \in Nat, validator.expectedSeq <= validator'.expectedSeq,
           Head(wire).seq < validator'.expectedSeq
    PROVE  Contiguous'
<1> SUFFICES ASSUME Orderly, ~lost PROVE Contiguous'
  BY Zenon DEF Contiguous, Orderly
<1>1. /\ wire' \in Seq(FrameSet) /\ Len(wire) = Len(wire') + 1 /\ Len(wire') \in Nat
      /\ \A i \in 1..Len(wire') : i + 1 \in 1..Len(wire) /\ wire'[i] = wire[i + 1]
      /\ Head(wire) = wire[1] /\ Head(wire) \in FrameSet
  BY TailElements DEF IInv, Types
<1>2. /\ validator.expectedSeq \in Nat /\ worker.seq \in Nat /\ Head(wire).seq \in Nat
      /\ \A i \in 1..Len(wire') : wire'[i].seq \in Nat
  <2>1. validator.expectedSeq \in Nat /\ worker.seq \in Nat
    BY Zenon DEF IInv, Types, Validators
  <2>2. \A f \in FrameSet : f.seq \in Nat
    BY Zenon DEF FrameSet
  <2>3. \A i \in 1..Len(wire') : wire'[i] \in FrameSet
    BY <1>1
  <2> QED BY Zenon, <1>1, <2>1, <2>2, <2>3
<1>3. ASSUME NEW i \in 1..Len(wire')
      PROVE  \/ wire'[i].seq <= validator'.expectedSeq
             \/ \E j \in 1..(i - 1) : wire'[i].seq = wire'[j].seq + 1
  <2>1. \/ wire[i + 1].seq <= validator.expectedSeq
        \/ \E j \in 1..((i + 1) - 1) : wire[i + 1].seq = wire[j].seq + 1
    BY Zenon, <1>1 DEF IInv, Contiguous
  <2>2. CASE wire[i + 1].seq <= validator.expectedSeq
    <3>1. wire'[i].seq = wire[i + 1].seq /\ wire'[i].seq \in Nat /\ validator.expectedSeq \in Nat
      BY Zenon, <1>1, <1>2
    <3> QED BY <2>2, <3>1
  <2>3. ASSUME NEW j \in 1..((i + 1) - 1), wire[i + 1].seq = wire[j].seq + 1
        PROVE  <1>3!2
    <3>1. CASE j = 1
      BY <1>1, <1>2, <2>3, <3>1
    <3>2. CASE j # 1
      <4>1. j - 1 \in 1..(i - 1) /\ j - 1 \in 1..Len(wire')
        BY <1>1, <3>2
      <4>2. wire'[j - 1] = wire[(j - 1) + 1] /\ (j - 1) + 1 = j
        BY <1>1, <4>1
      <4> QED BY Zenon, <1>1, <2>3, <4>1, <4>2
    <3> QED BY Zenon, <3>1, <3>2
  <2> QED BY Zenon, <2>1, <2>2, <2>3
<1>4. \/ worker.seq < validator'.expectedSeq
      \/ \E i \in 1..Len(wire') : wire'[i].seq = worker.seq
  <2>1. CASE worker.seq < validator.expectedSeq
    BY <1>2, <2>1
  <2>2. ASSUME NEW i \in 1..Len(wire), wire[i].seq = worker.seq
        PROVE  <1>4
    <3>1. CASE i = 1
      BY Zenon, <1>1, <2>2, <3>1
    <3>2. CASE i # 1
      <4>1. i - 1 \in 1..Len(wire') /\ (i - 1) + 1 = i
        BY <1>1, <3>2
      <4>2. wire'[i - 1] = wire[i]
        BY Zenon, <1>1, <4>1
      <4> QED BY Zenon, <2>2, <4>1, <4>2
    <3> QED BY Zenon, <3>1, <3>2
  <2> QED BY Zenon, <2>1, <2>2 DEF IInv, Contiguous
<1> QED BY Zenon, <1>3, <1>4 DEF Contiguous

\* An accepted frame that does not end the stream.
LEMMA GoOnIInv ==
    ASSUME IInv, outcome = "none", wire # <<>>, wire' = Tail(wire), NEW f, f = Head(wire), NEW n \in Nat,
           UNCHANGED <<request, worker, lost, outcome>>,
           f.kind \in Kinds \ TerminalKinds, f.seq = validator.expectedSeq, Orderly => n = f.len,
           validator' \in Validators, validator'.expectedSeq = validator.expectedSeq + 1,
           validator'.offset = validator.offset + n, validator'.credit = validator.credit,
           ~validator'.terminal,
           started' = [outbound |-> started.outbound \/ f.kind = "outbound_start",
                       response |-> started.response \/ f.kind = "response_start"],
           delivered' \in Seq(Nat), Len(delivered') = Len(delivered) + n,
           delivered' = [i \in 1..Len(delivered') |-> i],
           back' \in Seq(Messages), Ledger'
    PROVE  IInv'
<1>1. /\ wire' \in Seq(FrameSet) /\ f \in FrameSet /\ f \in Wire /\ Wire' \subseteq Wire
  BY Zenon, TailElements DEF IInv, Types, Wire
<1>2. /\ worker.seq \in Nat /\ worker.offset \in Nat /\ validator.expectedSeq \in Nat \ {0}
      /\ validator.offset \in Nat /\ f.seq \in Nat /\ f.len \in Nat
      /\ started \in [outbound : BOOLEAN, response : BOOLEAN]
  <2>1. f.seq \in Nat /\ f.len \in Nat
    BY Zenon, <1>1 DEF FrameSet
  <2> QED BY <2>1, Sizes DEF IInv, Types, Validators
<1>3. Types'
  <2>1. started' \in [outbound : BOOLEAN, response : BOOLEAN]
    BY Zenon, <1>2
  <2> QED BY Zenon, <1>1, <2>1 DEF IInv, Types
<1>4. Numbered' /\ AsSent'
  BY ZenonT(40), <1>1 DEF IInv, Numbered, AsSent, Sent, InPlace, Orderly
<1>5. Chained'
  <2> SUFFICES ASSUME Orderly PROVE Chained'
    BY Zenon DEF Chained, Orderly
  <2>1. Sent(f)
    BY Zenon, <1>1 DEF IInv, AsSent
  <2>2. f.offset = validator.offset /\ validator'.offset = f.offset + f.len
    BY Zenon, <1>1 DEF IInv, Chained
  <2>3. validator'.expectedSeq <= worker.seq + 1
    BY <1>2, <2>1 DEF Sent
  <2>4. validator'.expectedSeq = worker.seq + 1 => worker.offset = validator'.offset
    <3> SUFFICES ASSUME validator'.expectedSeq = worker.seq + 1
                 PROVE  worker.offset = validator'.offset
      BY Zenon
    <3>1. f.seq = worker.seq
      BY SMTT(40), <1>2
    <3> QED BY Zenon, <1>1, <2>2, <3>1 DEF IInv, Chained
  <2>5. \A g \in Wire' : g.seq = validator'.expectedSeq => g.offset = validator'.offset
    BY ZenonT(40), <1>1, <2>2 DEF IInv, Chained
  <2> QED BY Zenon, <1>1, <2>3, <2>4, <2>5 DEF IInv, Chained
<1>6. Contiguous'
  <2>1. validator'.expectedSeq \in Nat /\ validator.expectedSeq <= validator'.expectedSeq
        /\ f.seq < validator'.expectedSeq
    BY SMTT(40), <1>2
  <2> QED BY Zenon, <2>1, ContiguousTail
<1>7. Taken'
  <2>0. /\ validator.offset = Len(delivered) /\ validator.credit = InitialCredit
        /\ Orderly => /\ started.outbound <=> validator.expectedSeq >= 2
                      /\ started.response <=> validator.expectedSeq >= 3
    BY Zenon DEF IInv, Taken
  <2>1. validator'.offset = Len(delivered') /\ validator'.credit = InitialCredit
    BY Zenon, <2>0
  <2>2. ASSUME Orderly
        PROVE  /\ started'.outbound <=> validator'.expectedSeq >= 2
               /\ started'.response <=> validator'.expectedSeq >= 3
    <3>1. InPlace(f)
      BY Zenon, <1>1, <2>2 DEF IInv, AsSent, Sent
    <3>2. CASE validator.expectedSeq = 1
      <4>1. f.kind = "outbound_start"
        BY Zenon, <3>1, <3>2 DEF InPlace
      <4>2. started'.outbound /\ (started'.response <=> started.response)
        BY Zenon, <4>1
      <4>3. ~started.response /\ validator'.expectedSeq = 2
        BY <2>0, <2>2, <3>2
      <4> QED BY <4>2, <4>3
    <3>3. CASE validator.expectedSeq = 2
      <4>1. f.kind = "response_start"
        BY Zenon, <3>1, <3>3 DEF InPlace
      <4>2. started'.response /\ (started'.outbound <=> started.outbound)
        BY Zenon, <4>1
      <4>3. started.outbound /\ validator'.expectedSeq = 3
        BY <2>0, <2>2, <3>3
      <4> QED BY <4>2, <4>3
    <3>4. CASE validator.expectedSeq >= 3
      BY SMTT(40), <1>2, <2>0, <2>2, <3>4
    <3> QED BY SMTT(40), <1>2, <3>2, <3>3, <3>4
  <2> QED BY Zenon, <2>1, <2>2 DEF Taken, Orderly
<1>8. RejectedOnlyAfterLoss' /\ SuccessIsWhole'
  BY Zenon DEF RejectedOnlyAfterLoss, SuccessIsWhole
<1> QED BY Zenon, <1>3, <1>4, <1>5, <1>6, <1>7, <1>8 DEF IInv

\* The units of an accepted data frame continue those delivered.
LEMMA TakesIInv ==
    ASSUME IInv, outcome = "none", wire # <<>>, wire' = Tail(wire), NEW f, f = Head(wire),
           UNCHANGED <<request, worker, lost>>, Takes(f),
           f.kind = "data", f.seq = validator.expectedSeq, f.offset = validator.offset,
           f.len <= validator.credit,
           started' = [outbound |-> started.outbound \/ f.kind = "outbound_start",
                       response |-> started.response \/ f.kind = "response_start"]
    PROVE  IInv'
<1>1. f \in FrameSet /\ f \in Wire
  BY Zenon, TailElements DEF IInv, Types, Wire
<1>2. f.len \in Nat /\ f.offset \in Nat /\ f.kind \in Kinds \ TerminalKinds
  BY Zenon, <1>1 DEF FrameSet, Kinds, TerminalKinds, ProgressKinds
<1>3. /\ delivered' = delivered \o Units(f)
      /\ back' = IF f.len = 0 THEN back ELSE Append(back, <<"credit", f.len>>)
      /\ validator' = GrantCredit(Advance(validator, f), f.len) /\ UNCHANGED outcome
  BY Zenon DEF Takes, Credit
<1>4. /\ delivered \in Seq(Nat) /\ Len(delivered) \in Nat /\ f.offset = Len(delivered)
      /\ delivered = [i \in 1..Len(delivered) |-> i]
  BY DEF IInv, Types, Taken
<1>5. Units(f) \in Seq(Nat) /\ Len(Units(f)) = f.len /\ \A i \in 1..f.len : Units(f)[i] = f.offset + i
  <2>1. \A i \in 1..f.len : f.offset + i \in Nat
    BY SMTT(40), <1>2
  <2>2. Units(f) \in [1..f.len -> Nat] /\ \A i \in 1..f.len : Units(f)[i] = f.offset + i
    BY Zenon, <2>1 DEF Units
  <2>3. \A n \in Nat : \A u \in [1..n -> Nat] : u \in Seq(Nat) /\ Len(u) = n
    BY Zenon, SequenceOf
  <2> QED BY Zenon, <1>2, <2>2, <2>3
<1>6. delivered' \in Seq(Nat) /\ Len(delivered') = Len(delivered) + f.len
  <2>1. delivered \in Seq(Nat) /\ Units(f) \in Seq(Nat) /\ Len(Units(f)) = f.len
    BY Zenon, <1>4, <1>5
  <2>2. /\ delivered \o Units(f) \in Seq(Nat)
        /\ Len(delivered \o Units(f)) = Len(delivered) + Len(Units(f))
    BY Zenon, <2>1, Concatenation
  <2> QED BY Zenon, <1>3, <2>1, <2>2
<1>7. delivered' = [i \in 1..Len(delivered') |-> i]
  <2>1. DOMAIN delivered' = 1..Len(delivered')
    BY <1>6
  <2>2. ASSUME NEW i \in 1..Len(delivered')
        PROVE  delivered'[i] = i
    <3>1. CASE i <= Len(delivered)
      <4>1. i \in 1..Len(delivered)
        BY <1>4, <3>1
      <4>2. delivered'[i] = delivered[i]
        BY <1>3, <1>4, <1>5, <4>1
      <4>3. delivered[i] = i
        BY Zenon, <1>4, <4>1
      <4> QED BY Zenon, <4>2, <4>3
    <3>2. CASE i > Len(delivered)
      <4>1. i - Len(delivered) \in 1..f.len
        BY <1>2, <1>4, <1>6, <3>2
      <4>2. delivered'[i] = Units(f)[i - Len(delivered)]
        <5>1. i \in 1..(Len(delivered) + Len(Units(f))) /\ ~(i <= Len(delivered))
          BY <1>2, <1>4, <1>5, <1>6, <3>2
        <5>2. \A a, b \in Seq(Nat) : \A k \in 1..(Len(a) + Len(b)) :
                (a \o b)[k] = IF k <= Len(a) THEN a[k] ELSE b[k - Len(a)]
          BY Zenon, Concatenation
        <5>3. (delivered \o Units(f))[i] = IF i <= Len(delivered) THEN delivered[i]
                                            ELSE Units(f)[i - Len(delivered)]
          BY Zenon, <1>4, <1>5, <5>1, <5>2
        <5> QED BY Zenon, <1>3, <5>1, <5>3
      <4>3. Units(f)[i - Len(delivered)] = f.offset + (i - Len(delivered))
        BY Zenon, <1>5, <4>1
      <4> QED BY <1>4, <4>2, <4>3
    <3> QED BY <1>4, <3>1, <3>2
  <2>3. delivered' = [i \in DOMAIN delivered' |-> delivered'[i]]
    BY <1>6
  <2> QED BY Zenon, <2>1, <2>2, <2>3
<1>8. back' \in Seq(Messages) /\ Ledger'
  <2>1. <<"credit", f.len>> \in Messages /\ <<"credit", f.len>>[2] = f.len
    BY Zenon, <1>2 DEF Messages
  <2>2. Orderly => Len(delivered') <= worker.offset
    <3> SUFFICES ASSUME Orderly PROVE Len(delivered') <= worker.offset
      BY Zenon
    <3>1. f.offset + f.len <= worker.offset
      BY Zenon, <1>1 DEF IInv, AsSent, Sent
    <3> QED BY Zenon, <1>4, <1>6, <3>1
  <2>3. Len(delivered') \in Nat
    BY <1>6
  <2>4. CASE f.len = 0
    <3>1. Len(delivered') = Len(delivered)
      BY <1>4, <1>6, <2>4
    <3> QED BY Zenon, <1>3, <2>4, <3>1 DEF IInv, Types, Ledger, Orderly
  <2>5. CASE f.len # 0
    <3>1. back' = Append(back, <<"credit", f.len>>)
      BY Zenon, <1>3, <2>5
    <3>2. back' \in Seq(Messages)
      BY Zenon, <2>1, <3>1, AppendElements DEF IInv, Types
    <3> QED BY Zenon, <1>6, <2>1, <2>2, <2>3, <3>1, <3>2, LedgerAppend DEF IInv
  <2> QED BY Zenon, <2>4, <2>5
<1>9. /\ validator' \in Validators /\ validator'.expectedSeq = validator.expectedSeq + 1
      /\ validator'.offset = validator.offset + f.len /\ validator'.credit = validator.credit
      /\ ~validator'.terminal
  BY Zenon, <1>1, <1>2, <1>3, Advances DEF IInv, Types
<1> QED BY Zenon, <1>2, <1>3, <1>6, <1>7, <1>8, <1>9, GoOnIInv

\* A worker that follows the protocol gets a frame refused only after a loss.
LEMMA NoRefusal ==
    ASSUME IInv, outcome = "none", wire # <<>>, Orderly, NEW f, f = Head(wire)
    PROVE  /\ Accept(validator, f) \notin Ignored \cup {"accepted"} => lost
           /\ Accept(validator, f) = "accepted" =>
                /\ ~Misordered(f) /\ (f.kind = "outbound_start" => f.ok)
                /\ f.kind \in {"data", "end"} => started.response
                /\ f.kind # "control"
<1>1. f \in FrameSet /\ f \in Wire /\ f = wire[1] /\ 1 \in 1..Len(wire)
  BY Zenon, TailElements DEF IInv, Types, Wire
<1>2. Sent(f) /\ InPlace(f)
  BY Zenon, <1>1 DEF IInv, AsSent, Sent
<1>3. /\ validator \in Validators /\ ~validator.terminal /\ validator.credit = InitialCredit
      /\ started.outbound <=> validator.expectedSeq >= 2
      /\ started.response <=> validator.expectedSeq >= 3
  BY Zenon DEF IInv, Types, Taken
<1>4. /\ validator.attempt = Attempt /\ validator.expectedSeq \in Nat /\ f.seq \in Nat
      /\ f.len \in Nat
  BY Zenon, <1>1, <1>3 DEF Validators, FrameSet
<1>5. ASSUME Accept(validator, f) \notin Ignored \cup {"accepted"}, ~lost
      PROVE  FALSE
  <2>1. \/ f.kind \in {"nil", "body_ref"} \/ f.attempt # validator.attempt
        \/ f.seq = 0 \/ f.seq > validator.expectedSeq
        \/ /\ f.seq = validator.expectedSeq
           /\ f.offset # validator.offset \/ f.len > validator.credit
    BY Zenon, <1>1, <1>3, <1>5, Verdicts
  <2>2. f.kind \notin {"nil", "body_ref"} /\ f.attempt = validator.attempt /\ f.seq # 0
    BY <1>2, <1>4 DEF Sent, InPlace
  <2>3. f.seq <= validator.expectedSeq
    <3>1. \/ wire[1].seq <= validator.expectedSeq
          \/ \E j \in 1..(1 - 1) : wire[1].seq = wire[j].seq + 1
      BY Zenon, <1>1, <1>5 DEF IInv, Contiguous
    <3> QED BY <1>1, <3>1
  <2>4. f.seq = validator.expectedSeq => f.offset = validator.offset
    BY Zenon, <1>1 DEF IInv, Chained
  <2>5. f.len <= validator.credit
    BY Zenon, <1>2, <1>3 DEF Sent
  <2> QED BY <1>3, <1>4, <2>1, <2>2, <2>3, <2>4, <2>5, Sizes
<1>6. ASSUME Accept(validator, f) = "accepted"
      PROVE  /\ ~Misordered(f) /\ (f.kind = "outbound_start" => f.ok)
             /\ f.kind \in {"data", "end"} => started.response
             /\ f.kind # "control"
  <2>1. f.seq = validator.expectedSeq
    BY Zenon, <1>1, <1>3, <1>6, Verdicts
  <2>2. /\ f.kind = "outbound_start" => ~started.outbound /\ f.ok
        /\ f.kind = "response_start" => started.outbound /\ ~started.response
        /\ f.kind = "data" => started.response
        /\ f.kind = "end" => f.ok /\ started.outbound /\ started.response
        /\ f.kind # "control"
    BY <1>2, <1>3, <1>4, <2>1 DEF InPlace
  <2> QED BY Zenon, <2>2 DEF Misordered
<1> QED BY Zenon, <1>5, <1>6

LEMMA AcceptFrameIInv ==
    ASSUME IInv, AcceptFrame
    PROVE  IInv'
<1> DEFINE f == Head(wire)
           verdict == Accept(validator, f)
<1>0. /\ outcome = "none" /\ wire # <<>> /\ wire' = Tail(wire)
      /\ UNCHANGED <<request, worker, lost>>
  BY Zenon DEF AcceptFrame
<1>1. /\ f \in FrameSet /\ f \in Wire /\ wire' \in Seq(FrameSet) /\ Wire' \subseteq Wire
  BY Zenon, <1>0, TailElements DEF IInv, Types, Wire
<1>2. /\ validator \in Validators /\ ~validator.terminal
      /\ started \in [outbound : BOOLEAN, response : BOOLEAN]
      /\ Orderly' = Orderly
  BY Zenon, <1>0 DEF IInv, Types, Taken, Orderly
<1>3. verdict = "accepted" =>
        /\ f.kind \in Kinds /\ f.seq = validator.expectedSeq
        /\ f.kind = "data" => f.offset = validator.offset /\ f.len <= validator.credit
        /\ Advance(validator, f) \in Validators
  <2>1. verdict = "accepted" =>
          /\ f.kind \in Kinds /\ f.seq = validator.expectedSeq
          /\ f.kind = "data" => f.offset = validator.offset /\ f.len <= validator.credit
    BY Zenon, <1>1, <1>2, Verdicts
  <2>2. (f.kind = "data" => f.len <= validator.credit) => Advance(validator, f) \in Validators
    BY Zenon, <1>1, <1>2, Advances
  <2> QED BY Zenon, <2>1, <2>2
<1>4. Orderly =>
        /\ verdict \notin Ignored \cup {"accepted"} => lost
        /\ verdict = "accepted" =>
             /\ ~Misordered(f) /\ (f.kind = "outbound_start" => f.ok)
             /\ f.kind \in {"data", "end"} => started.response
             /\ f.kind # "control"
  BY Zenon, <1>0, NoRefusal
<1> HIDE DEF f, verdict
\* Every way of ending the stream but success.
<1>5. ASSUME NEW code \in Codes \ {"success"}, outcome' = code, UNCHANGED delivered,
             UNCHANGED back \/ sendCancel, validator' \in Validators,
             started' \in [outbound : BOOLEAN, response : BOOLEAN],
             Orderly /\ code = "ProtocolError" => lost
      PROVE  IInv'
  <2>1. RejectedOnlyAfterLoss' /\ SuccessIsWhole'
    BY Zenon, <1>0, <1>2, <1>5 DEF RejectedOnlyAfterLoss, SuccessIsWhole
  <2> QED BY Zenon, <1>0, <1>1, <1>5, <2>1, StopIInv
<1>6. /\ "ProtocolError" \in Codes \ {"success"} /\ "BodyTooLarge" \in Codes \ {"success"}
      /\ "Cancelled" \in Codes \ {"success"} /\ "executor_error" \in Codes \ {"success"}
      /\ "ControlInternalError" \in Codes \ {"success"} /\ "success" \in Codes
  BY Zenon DEF Codes
<1>a. CASE verdict \in Ignored
           /\ UNCHANGED <<back, validator, started, delivered, store, outcome, sawEnd>>
  <2>1. f.seq < validator.expectedSeq /\ validator.expectedSeq \in Nat
    BY Zenon, <1>1, <1>2, <1>a, Verdicts DEF verdict, Validators
  <2>2. UNCHANGED <<back, validator, started, delivered, stored, outcome>>
    BY Zenon, <1>a DEF store
  <2>3. Types'
    BY Zenon, <1>0, <1>1, <2>2 DEF IInv, Types
  <2>4. Numbered' /\ AsSent' /\ Chained' /\ Taken'
    BY ZenonT(40), <1>0, <1>1, <2>2 DEF IInv, Numbered, AsSent, Sent, InPlace, Chained, Taken, Orderly
  <2>5. Contiguous'
    BY <1>0, <2>1, <2>2, ContiguousTail DEF f
  <2>6. Ledger'
    BY Zenon, <1>0, <2>2 DEF IInv, Ledger, Orderly
  <2>7. RejectedOnlyAfterLoss' /\ SuccessIsWhole'
    BY Zenon, <1>0, <2>2 DEF RejectedOnlyAfterLoss, SuccessIsWhole
  <2> QED BY Zenon, <2>3, <2>4, <2>5, <2>6, <2>7 DEF IInv
<1>b. CASE /\ verdict \notin Ignored \cup {"accepted"}
           /\ Fail("ProtocolError")
           /\ UNCHANGED <<back, validator, started, delivered, sawEnd>>
  BY Zenon, <1>2, <1>4, <1>5, <1>6, <1>b DEF Fail
<1>c. CASE /\ verdict = "accepted" /\ Misordered(f)
           /\ Fail("ProtocolError") /\ validator' = Advance(validator, f)
           /\ UNCHANGED <<back, started, delivered, sawEnd>>
  BY Zenon, <1>2, <1>3, <1>4, <1>5, <1>6, <1>c DEF Fail
<1>d. CASE verdict = "accepted" /\ ~Misordered(f) /\ Accepted(f)
  <2>0. /\ started' = [outbound |-> started.outbound \/ f.kind = "outbound_start",
                       response |-> started.response \/ f.kind = "response_start"]
        /\ started' \in [outbound : BOOLEAN, response : BOOLEAN]
    BY Zenon, <1>2, <1>d DEF Accepted
  <2>1. CASE acceptResponseProgress(f)
    <3>0. validator' = Advance(validator, f) /\ UNCHANGED <<back, delivered>>
      BY Zenon, <2>1 DEF acceptResponseProgress
    <3>1. CASE f.kind = "outbound_start" /\ ~f.ok /\ Fail("ProtocolError")
      BY Zenon, <1>3, <1>4, <1>5, <1>6, <1>d, <2>0, <3>0, <3>1 DEF Fail
    <3>2. CASE f.kind \in {"outbound_start", "response_start", "credit", "trailers"} /\ UNCHANGED outcome
      <4>1. f.kind # "data" /\ f.kind \in Kinds \ TerminalKinds
        BY Zenon, <3>2 DEF Kinds, TerminalKinds, ProgressKinds
      <4>2. /\ validator' \in Validators /\ validator'.expectedSeq = validator.expectedSeq + 1
            /\ validator'.offset = validator.offset + 0 /\ validator'.credit = validator.credit - 0
            /\ validator'.terminal = (f.kind \in TerminalKinds)
        BY Zenon, <1>1, <1>2, <3>0, <4>1, Advances
      <4>3. validator'.credit = validator.credit /\ ~validator'.terminal
        BY <1>2, <4>1, <4>2 DEF Validators
      <4>4. Orderly => 0 = f.len
        BY Zenon, <1>1, <4>1 DEF IInv, AsSent, Sent, InPlace
      <4>5. /\ delivered' \in Seq(Nat) /\ Len(delivered') = Len(delivered) + 0
            /\ delivered' = [i \in 1..Len(delivered') |-> i] /\ back' \in Seq(Messages)
        BY <3>0 DEF IInv, Types, Taken
      <4>6. Ledger'
        BY Zenon, <1>0, <3>0 DEF IInv, Ledger, Orderly
      <4> QED BY Zenon, <1>0, <1>3, <1>d, <2>0, <3>2, <4>1, <4>2, <4>3, <4>4, <4>5, <4>6, GoOnIInv DEF f
    <3> QED BY Zenon, <2>1, <3>1, <3>2 DEF acceptResponseProgress
  <2>2. ASSUME f.kind = "data", Takes(f)
        PROVE  IInv'
    BY Zenon, <1>0, <1>3, <1>d, <2>0, <2>2, TakesIInv DEF f
  <2>3. CASE f.kind = "data" /\ Sink = "raw" /\ writeData(f)
    <3>1. CASE /\ ~started.response /\ Fail("ProtocolError") /\ UNCHANGED <<back, delivered>>
               /\ validator' = Advance(validator, f)
      BY Zenon, <1>3, <1>4, <1>5, <1>6, <1>d, <2>0, <2>3, <3>1 DEF Fail
    <3>2. CASE /\ Fail("Cancelled") /\ sendCancel /\ UNCHANGED delivered
               /\ validator' = Advance(validator, f)
      BY Zenon, <1>3, <1>5, <1>6, <1>d, <2>0, <3>2 DEF Fail
    <3>3. CASE Takes(f)
      BY Zenon, <2>2, <2>3, <3>3
    <3> QED BY Zenon, <2>3, <3>1, <3>2, <3>3 DEF writeData
  <2>4. CASE f.kind = "data" /\ Sink # "raw" /\ acceptResponseData(f)
    <3>1. CASE /\ outcome' = "BodyTooLarge" /\ UNCHANGED <<back, delivered>>
               /\ validator' = Advance(validator, f)
      BY Zenon, <1>3, <1>5, <1>6, <1>d, <2>0, <3>1
    <3>2. CASE Takes(f)
      BY Zenon, <2>2, <2>4, <3>2
    <3> QED BY Zenon, <2>4, <3>1, <3>2 DEF acceptResponseData, Fail
  <2>5. CASE acceptResponseTerminal(f)
    <3>0. validator' = Advance(validator, f) /\ UNCHANGED <<back, delivered>>
      BY Zenon, <2>5 DEF acceptResponseTerminal
    <3>3. CASE f.kind = "control" /\ Fail("ProtocolError")
      BY Zenon, <1>3, <1>4, <1>5, <1>6, <1>d, <2>0, <3>0, <3>3 DEF Fail
    <3>1. CASE outcome' \in {"executor_error", "Cancelled", "ControlInternalError"}
      BY Zenon, <1>3, <1>5, <1>6, <1>d, <2>0, <3>0, <3>1
    <3>2. CASE /\ f.kind = "end" /\ outcome' = "success"
               /\ Sink = "receipt" => stored' = [body |-> Len(delivered), record |-> TRUE]
      <4>1. RejectedOnlyAfterLoss'
        BY Zenon, <3>2 DEF RejectedOnlyAfterLoss
      <4>2. SuccessIsWhole'
        <5>1. delivered' = [i \in 1..Len(delivered') |-> i]
          BY Zenon, <3>0 DEF IInv, Taken
        <5>2. Strict /\ sawEnd' => started'.response
          <6>1. sawEnd' => f.ok
            BY Zenon, <1>d DEF Accepted
          <6> QED BY Zenon, <1>d, <2>0, <3>2, <6>1 DEF Misordered
        <5>3. ASSUME Orderly
              PROVE  started'.response /\ sawEnd' /\ Len(delivered') = Body
          <6>1. f.ok /\ f.offset = Body /\ started.response
            BY Zenon, <1>1, <1>4, <1>d, <3>2, <5>3 DEF IInv, AsSent, Sent, InPlace
          <6>2. f.offset = validator.offset
            BY Zenon, <1>0, <1>1, <1>3, <1>d, <5>3 DEF IInv, Chained
          <6>3. validator.offset = Len(delivered)
            BY Zenon, <1>0 DEF IInv, Taken
          <6>4. sawEnd'
            BY Zenon, <1>d, <3>2, <6>1 DEF Accepted
          <6> QED BY Zenon, <2>0, <3>0, <6>1, <6>2, <6>3, <6>4
        <5>4. Orderly /\ Sink' = "receipt" => stored' = [body |-> Body, record |-> TRUE]
          BY Zenon, <1>0, <3>0, <3>2, <5>3 DEF Sink
        <5> QED BY Zenon, <1>2, <5>1, <5>2, <5>3, <5>4 DEF SuccessIsWhole
      <4> QED BY Zenon, <1>0, <1>1, <1>3, <1>6, <1>d, <2>0, <3>0, <3>2, <4>1, <4>2, StopIInv
    <3> QED BY Zenon, <2>5, <3>1, <3>2, <3>3 DEF acceptResponseTerminal, Fail, Commit
  <2> QED BY Zenon, <1>d, <2>1, <2>3, <2>4, <2>5 DEF Accepted
<1> QED BY Zenon, <1>a, <1>b, <1>c, <1>d DEF AcceptFrame, f, verdict

LEMMA NextIInv == IInv /\ [Next]_vars => IInv'
<1> SUFFICES ASSUME IInv, [Next]_vars PROVE IInv'
  BY Zenon
\* The context, the clocks or the connection end the stream.
<1>1. ASSUME NEW code \in {"Cancelled", "TimeoutExceeded", "TransportUnavailable"}, outcome' = code,
             UNCHANGED <<request, worker, wire, validator, started, delivered, lost>>,
             UNCHANGED back \/ sendCancel
      PROVE  IInv'
  <2>1. outcome' \in Codes /\ RejectedOnlyAfterLoss' /\ SuccessIsWhole'
    BY Zenon, <1>1 DEF Codes, RejectedOnlyAfterLoss, SuccessIsWhole
  <2>2. /\ wire' \in Seq(FrameSet) /\ Wire' \subseteq Wire /\ validator' \in Validators
        /\ started' \in [outbound : BOOLEAN, response : BOOLEAN]
    BY Zenon, <1>1 DEF IInv, Types, Wire
  <2> QED BY Zenon, <1>1, <2>1, <2>2, StopIInv
<1>2. CASE Execute
  BY Zenon, <1>2, ExecuteIInv
<1>3. CASE Hear
  BY Zenon, <1>3, HearIInv
<1>4. CASE AnyFrame
  BY Zenon, <1>4, AnyFrameIInv
<1>5. CASE LoseFrame
  BY Zenon, <1>5, LoseFrameIInv
<1>6. CASE RepeatFrame
  BY Zenon, <1>6, RepeatFrameIInv
<1>7. CASE AcceptFrame
  BY Zenon, <1>7, AcceptFrameIInv
<1>8. CASE Interrupt
  <2>1. PICK code \in {"Cancelled", "TimeoutExceeded"} : outcome' = code
    BY Zenon, <1>8 DEF Interrupt, Fail
  <2>2. UNCHANGED <<request, worker, wire, validator, started, delivered, lost>> /\ sendCancel
    BY Zenon, <1>8 DEF Interrupt
  <2> QED BY Zenon, <1>1, <2>1, <2>2
<1>9. CASE Disconnected
  <2>1. /\ UNCHANGED <<request, worker, wire, validator, started, delivered, lost, back>>
        /\ outcome' = "TransportUnavailable"
    BY Zenon, <1>9 DEF Disconnected, Fail
  <2> QED BY Zenon, <1>1, <2>1
<1>10. CASE UNCHANGED vars
  <2>1. UNCHANGED <<request, worker, wire, back, validator, started, delivered, outcome, lost>>
        /\ UNCHANGED control
    BY Zenon, <1>10 DEF vars, control
  <2>2. Types' /\ Numbered' /\ Ledger'
    BY Zenon, <2>1 DEF IInv, Types, Numbered, Ledger, Orderly
  <2>3. AsSent' /\ Chained' /\ Contiguous'
    BY Zenon, <2>1 DEF IInv, AsSent, Sent, InPlace, Wire, Chained, Contiguous, Orderly
  <2>4. Taken' /\ RejectedOnlyAfterLoss' /\ SuccessIsWhole'
    BY Zenon, <2>1, ControlIdle
  <2> QED BY Zenon, <2>2, <2>3, <2>4 DEF IInv
<1> QED BY Zenon, <1>2, <1>3, <1>4, <1>5, <1>6, <1>7, <1>8, <1>9, <1>10 DEF Next

LEMMA Invariant == Spec => []IInv
BY InitIInv, NextIInv, PTL DEF Spec

-----------------------------------------------------------------------------
(* Theorems.                                                               *)

\* A success reported to the caller stands for the whole body, each unit once and in order,
\* and a receipt holds it, for bodies and credits of any size and any number of lost or
\* repeated frames; of a worker of another make it is a prefix in order, and has a status when
\* the worker claimed success (acceptResponseFrame, validateResponseEndFrame, Commit).
THEOREM WholeResponse == Spec => []SuccessIsWhole
<1>1. IInv => SuccessIsWhole
  BY Zenon DEF IInv
<1> QED BY <1>1, Invariant, PTL

\* Of this repository's executor Control refuses a frame only after NATS lost one: no
\* repetition and no credit still under way makes the validator and the frame builder
\* disagree.
THEOREM RefusedAfterLoss == Spec => []RejectedOnlyAfterLoss
<1>1. IInv => RejectedOnlyAfterLoss
  BY Zenon DEF IInv
<1> QED BY <1>1, Invariant, PTL

\* The units sent and not yet passed on never exceed the initial download credit, whatever
\* becomes of the credit frames (sendDownloadCredit).
THEOREM WithinCredit == Spec => []InFlightWithinCredit
<1>1. IInv => InFlightWithinCredit
  <2> SUFFICES ASSUME IInv PROVE InFlightWithinCredit
    BY Zenon
  <2>1. /\ worker.offset \in Nat /\ worker.credit \in Nat /\ Len(delivered) \in Nat
        /\ Len(back) \in Nat
    BY Sizes DEF IInv, Types
  <2>2. CASE ~Orderly
    <3>1. worker.offset = 0
      BY Zenon, <2>2 DEF IInv, AsSent
    <3> QED BY <2>1, <3>1, Sizes DEF InFlightWithinCredit
  <2>3. CASE Orderly
    <3>1. PICK s \in [0..Len(back) -> Nat] :
            /\ worker.offset + worker.credit <= s[0]
            /\ \A i \in 0..Len(back) : s[i] <= InitialCredit + Len(delivered)
      BY Zenon, <2>3 DEF IInv, Ledger
    <3>2. s[0] \in Nat /\ s[0] <= InitialCredit + Len(delivered)
      BY <2>1, <3>1
    <3> QED BY <2>1, <3>1, <3>2, Sizes DEF InFlightWithinCredit
  <2> QED BY Zenon, <2>2, <2>3
<1> QED BY <1>1, Invariant, PTL

-----------------------------------------------------------------------------
(* Types, and the bounds of the faults.                                    *)

Books ==
    /\ parts \subseteq Nat /\ stored \in [body : Nat, record : BOOLEAN]
    /\ sawEnd \in BOOLEAN /\ lost \in BOOLEAN
    /\ faults \in 0..(IF Orderly THEN MaxFaults ELSE MaxForeign)
    /\ storeFaults \in 0..MaxStoreFaults

\* What Control does to the object store at the end of a stream.
LEMMA StoreKept ==
    ASSUME Types, Books, Commit \/ (\E code : Fail(code))
    PROVE  /\ parts' \subseteq Nat /\ stored' \in [body : Nat, record : BOOLEAN]
           /\ storeFaults' \in 0..MaxStoreFaults
<1>0. MaxStoreFaults \in Nat /\ storeFaults \in 0..MaxStoreFaults /\ PartSize \in Nat \ {0}
      /\ Len(delivered) \in Nat
  BY SizesAssumption DEF Books, Types
<1>1. StoreFails => storeFaults' \in 0..MaxStoreFaults
  BY <1>0 DEF StoreFails
<1>2. deleteParts => parts' \subseteq Nat /\ storeFaults' \in 0..MaxStoreFaults
  BY Zenon, <1>0, <1>1 DEF deleteParts, Books
<1>3. ASSUME NEW code, Fail(code)
      PROVE  /\ parts' \subseteq Nat /\ stored' \in [body : Nat, record : BOOLEAN]
             /\ storeFaults' \in 0..MaxStoreFaults
  BY Zenon, <1>0, <1>2, <1>3 DEF Fail, Abort, store, Books
<1>4. CASE Commit
  <2> DEFINE last == IF Len(delivered) % PartSize = 0 THEN {} ELSE {Len(delivered) \div PartSize + 1}
  <2>1. last \subseteq Nat
    BY <1>0
  <2>2. [body |-> Len(delivered), record |-> FALSE] \in [body : Nat, record : BOOLEAN]
        /\ [body |-> Len(delivered), record |-> TRUE] \in [body : Nat, record : BOOLEAN]
    BY Zenon, <1>0
  <2>3. \/ StoreFails /\ UNCHANGED <<parts, stored>>
        \/ StoreFails /\ parts' \in {{}, parts \cup last} /\ UNCHANGED stored
        \/ /\ StoreFails /\ parts' \in {{}, parts \cup last}
           /\ stored' = [body |-> Len(delivered), record |-> FALSE]
        \/ deleteParts /\ stored' = [body |-> Len(delivered), record |-> TRUE]
    BY Zenon, <1>4 DEF Commit
  <2> HIDE DEF last
  <2> QED BY Zenon, <1>1, <1>2, <2>1, <2>2, <2>3 DEF Books
<1> QED BY Zenon, <1>3, <1>4

LEMMA NextBooks == IInv /\ Books /\ [Next]_vars => Books'
<1> SUFFICES ASSUME IInv, Books, [Next]_vars PROVE Books'
  BY Zenon
<1>0. MaxFaults \in Nat /\ MaxForeign \in Nat /\ MaxStoreFaults \in Nat /\ PartSize \in Nat \ {0}
      /\ Len(delivered) \in Nat
  BY SizesAssumption DEF IInv, Types
<1>1. ASSUME UNCHANGED control, lost' \in BOOLEAN, UNCHANGED faults
      PROVE  Books'
  BY Zenon, <1>1 DEF Books, control, Orderly
<1>2. CASE Execute
  BY Zenon, <1>1, <1>2 DEF Execute, outboundStart, responseStart, streamResponseBody, trailers, end, error,
     Emits, Books
<1>3. CASE Hear
  BY Zenon, <1>1, <1>3 DEF Hear, Books
<1>4. CASE AnyFrame
  <2>1. ~Orderly /\ faults < MaxForeign /\ faults' = faults + 1 /\ UNCHANGED <<control, lost>>
    BY Zenon, <1>4 DEF AnyFrame
  <2> QED BY <1>0, <2>1 DEF Books, control, Orderly
<1>5. CASE LoseFrame \/ RepeatFrame
  <2>1. /\ Orderly /\ faults < MaxFaults /\ faults' = faults + 1 /\ UNCHANGED control
        /\ lost' \in BOOLEAN
    BY Zenon, <1>5 DEF LoseFrame, RepeatFrame, Books
  <2> QED BY <1>0, <2>1 DEF Books, control, Orderly
\* Control's steps.
<1>6. ASSUME UNCHANGED <<request, faults, lost>>, sawEnd' \in BOOLEAN,
             \/ UNCHANGED store
             \/ Commit \/ (\E code : Fail(code))
             \/ /\ parts' \subseteq Nat /\ UNCHANGED stored
                /\ storeFaults' = storeFaults \/ StoreFails
      PROVE  Books'
  <2>1. /\ parts' \subseteq Nat /\ stored' \in [body : Nat, record : BOOLEAN]
        /\ storeFaults' \in 0..MaxStoreFaults
    <3>1. CASE UNCHANGED store
      BY Zenon, <3>1 DEF Books, store
    <3>2. CASE Commit \/ (\E code : Fail(code))
      BY Zenon, <3>2, StoreKept DEF IInv
    <3>3. CASE /\ parts' \subseteq Nat /\ UNCHANGED stored
               /\ storeFaults' = storeFaults \/ StoreFails
      BY <1>0, <3>3 DEF Books, StoreFails
    <3> QED BY Zenon, <1>6, <3>1, <3>2, <3>3
  <2> QED BY Zenon, <1>6, <2>1 DEF Books, Orderly
<1>7. CASE AcceptFrame
  <2> DEFINE f == Head(wire)
             full == Flushed(Len(delivered) + f.len)
  <2>1. UNCHANGED <<request, faults, lost>>
    BY Zenon, <1>7 DEF AcceptFrame
  <2>2. sawEnd' \in BOOLEAN
    BY Zenon, <1>7 DEF AcceptFrame, Accepted, Books
  <2>3. full \subseteq Nat
    <3>1. f.len \in Nat
      <4>1. f \in FrameSet
        BY Zenon, <1>7, TailElements DEF AcceptFrame, IInv, Types
      <4> QED BY Zenon, <4>1 DEF FrameSet
    <3> QED BY <1>0, <3>1 DEF Flushed
  <2> HIDE DEF f, full
  <2>4. CASE UNCHANGED store \/ (\E code : Fail(code))
    BY Zenon, <1>6, <2>1, <2>2, <2>4
  <2>5. CASE Accepted(f)
    <3>1. CASE acceptResponseProgress(f)
      BY Zenon, <1>6, <2>1, <2>2, <3>1 DEF acceptResponseProgress
    <3>2. CASE writeData(f)
      BY Zenon, <1>6, <2>1, <2>2, <3>2 DEF writeData
    <3>3. CASE acceptResponseData(f)
      <4>1. CASE StoreFails /\ parts' = {} /\ UNCHANGED stored
        BY Zenon, <1>6, <2>1, <2>2, <4>1
      <4>2. CASE parts' \in {full, {}} /\ UNCHANGED <<stored, storeFaults>>
        BY Zenon, <1>6, <2>1, <2>2, <2>3, <4>2
      <4>3. CASE Fail("BodyTooLarge")
        BY Zenon, <1>6, <2>1, <2>2, <4>3
      <4> QED BY Zenon, <3>3, <4>1, <4>2, <4>3 DEF acceptResponseData, full
    <3>4. CASE acceptResponseTerminal(f)
      BY Zenon, <1>6, <2>1, <2>2, <3>4 DEF acceptResponseTerminal
    <3> QED BY Zenon, <2>5, <3>1, <3>2, <3>3, <3>4 DEF Accepted
  <2> QED BY Zenon, <1>7, <2>4, <2>5 DEF AcceptFrame, f
<1>8. CASE Interrupt \/ Disconnected
  <2>1. UNCHANGED <<request, faults, lost, sawEnd>> /\ \E code : Fail(code)
    BY Zenon, <1>8 DEF Interrupt, Disconnected
  <2> QED BY Zenon, <1>6, <2>1 DEF Books
<1>9. CASE UNCHANGED vars
  BY Zenon, <1>9 DEF vars, Books, Orderly
<1> QED BY Zenon, <1>2, <1>3, <1>4, <1>5, <1>7, <1>8, <1>9 DEF Next

\* Every variable keeps its type: above all the executor's credit stays a natural number, so
\* no frame spends credit that was not granted (streamResponseBody), and the body's offset
\* never passes its end.
THEOREM TypeCorrect == Spec => []TypeOK
<1>1. Init => Books
  <2> SUFFICES ASSUME Init PROVE Books
    BY Zenon
  <2>1. 0 \in 0..MaxFaults /\ 0 \in 0..MaxForeign /\ 0 \in 0..MaxStoreFaults
    BY SizesAssumption
  <2> QED BY Zenon, <2>1 DEF Init, Books
<1>2. IInv /\ Books => TypeOK
  <2> SUFFICES ASSUME IInv, Books PROVE TypeOK
    BY Zenon
  <2>1. ASSUME NEW i \in DOMAIN wire
        PROVE  wire[i] = Undecodable \/ (wire[i].kind \in Kinds /\ wire[i].len \in Nat)
    <3>1. wire[i] \in FrameSet
      BY DEF IInv, Types
    <3> QED BY Zenon, <3>1 DEF FrameSet
  <2>2. \A i \in DOMAIN back : back[i] \in {"cancel"} \X {0} \cup {"credit"} \X Nat
    BY DEF IInv, Types, Messages
  <2> QED BY Zenon, <2>1, <2>2 DEF IInv, Types, Books, TypeOK, Validators, Phases
<1> QED BY <1>1, <1>2, Invariant, NextBooks, PTL DEF Spec
=============================================================================
