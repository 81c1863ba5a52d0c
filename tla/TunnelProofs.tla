---------------------------- MODULE TunnelProofs ----------------------------
(***************************************************************************)
(* Proofs about Tunnel, for any credit, frame size and sequence modulus,   *)
(* and therefore for any number of frames under way.                       *)
(*                                                                         *)
(* The three invariants lean on each other.  Credit is conserved only if   *)
(* the worker accepts every frame, which it does only if the sequence is   *)
(* unbroken, which rests on the mutex of c2eStreamSender; and that amounts *)
(* keep to their ranges follows from the conservation.                     *)
(***************************************************************************)
EXTENDS Tunnel, WellFoundedInduction, TLAPS

Succ(n) == (n + 1) % SeqModulus

\* The sequence number of the next frame to be published.
NextSeq == IF sender.holder = "free" THEN sender.seq ELSE Succ(sender.seq)

\* c2eStreamSender's mutex is held exactly while its holder is inside publish.
MutexHeld ==
    /\ sender.holder = "up" <=> up.pc = "unlock"
    /\ sender.holder = "main" <=> main.pc = "unlock"

\* The frames under way are numbered without a gap, from the one the worker expects to
\* the one that will be published next.
Chained ==
    /\ c2e = <<>> => NextSeq = worker.expected
    /\ c2e # <<>> => c2e[1].seq = worker.expected /\ NextSeq = Succ(c2e[Len(c2e)].seq)
    /\ \A i \in 1..(Len(c2e) - 1) : c2e[i + 1].seq = Succ(c2e[i].seq)

\* The uploader holds credit from takeMax to grant, and reads no more than it holds.
InHand ==
    /\ up.pc \in {"read", "publish", "unlock", "return"} \/ up.credit = 0
    /\ up.pc \in {"publish", "unlock", "return"} => up.n <= up.credit

\* The loop has something to publish when it is about to.
HasFrame == main.pc \in {"publish", "unlock"} => main.kind # "none"

Pending == IF main.pc = "publish" /\ main.kind = "credit" THEN main.len ELSE 0

\* Download credit does not grow: what the worker may send, what has reached Control and
\* what is on its way back is never more than the tunnel started with (a frame that could
\* not be written to the client is not credited again).
DownloadCreditBounded ==
    worker.credit + Bytes(c2e, "credit") + Pending + Bytes(e2c, "data") <= InitialDownload

IInv ==
    /\ TypeOK /\ MutexHeld /\ Chained /\ InHand /\ HasFrame
    /\ SequenceUnbroken /\ UploadCreditConserved /\ DownloadCreditBounded

-----------------------------------------------------------------------------
(* Totals of sequences.  Induction is by a least counterexample: a set of   *)
(* naturals that is not empty has a least element.                         *)

LEMMA LeastElement ==
    ASSUME NEW T, T \subseteq Nat, T # {}
    PROVE  \E x \in T : \A y \in T : x <= y
<1> DEFINE R == {p \in Nat \X Nat : p[1] < p[2]}
<1>1. IsWellFoundedOn(R, Nat)
  <2>1. R = OpToRel(<, Nat)
    BY Zenon DEF OpToRel
  <2> QED BY Zenon, <2>1, NatLessThanWellFounded
<1>2. \A x, y \in Nat : y < x => <<y, x>> \in R
  BY Zenon
<1> HIDE DEF R
<1>3. PICK x \in T : \A y \in T : ~(<<y, x>> \in R)
  BY Zenon, <1>1, WFMin
<1>4. ASSUME NEW y \in T
      PROVE  x <= y
  <2>1. x \in Nat /\ y \in Nat /\ ~(<<y, x>> \in R)
    BY Zenon, <1>3
  <2> QED BY <1>2, <2>1
<1> QED BY Zenon, <1>4

\* f holds the totals of the first i elements of s, for i up to n.
Sums(f, s, n) ==
    /\ f \in [0..n -> Nat]
    /\ f[0] = 0
    /\ \A i \in 1..n : f[i] = f[i - 1] + s[i]

LEMMA SumsExist ==
    ASSUME NEW s \in Seq(Nat)
    PROVE  \E f : Sums(f, s, Len(s))
<1> DEFINE T == {n \in 0..Len(s) : ~ \E f : Sums(f, s, n)}
<1>0. Len(s) \in 0..Len(s)
  OBVIOUS
<1>1. SUFFICES ASSUME Len(s) \in T PROVE FALSE
  BY Zenon, <1>0
<1>2. PICK n \in T : \A m \in T : n <= m
  <2>1. T \subseteq Nat
    OBVIOUS
  <2> QED BY Zenon, <1>1, <2>1, LeastElement
<1>3. n # 0
  <2>1. Sums([i \in 0..0 |-> 0], s, 0)
    BY DEF Sums
  <2> QED BY Zenon, <1>2, <2>1
<1>4. PICK f : Sums(f, s, n - 1)
  <2>1. n - 1 \in 0..Len(s) /\ n - 1 \notin T
    BY <1>2, <1>3
  <2> QED BY Zenon, <2>1
<1>5. n \in 1..Len(s) /\ s[n] \in Nat
  BY <1>2, <1>3
<1> DEFINE g == [i \in 0..n |-> IF i = n THEN f[n - 1] + s[n] ELSE f[i]]
<1>6. Sums(g, s, n)
  <2>1. g \in [0..n -> Nat] /\ g[0] = 0
    BY <1>4, <1>5 DEF Sums
  <2>2. ASSUME NEW i \in 1..n
        PROVE  g[i] = g[i - 1] + s[i]
    <3>1. CASE i = n
      BY <1>4, <1>5, <3>1 DEF Sums
    <3>2. CASE i # n
      <4>1. i \in 1..(n - 1) /\ i \in 0..n /\ i - 1 \in 0..n /\ i - 1 # n
        BY <1>5, <3>2
      <4>2. g[i] = f[i] /\ g[i - 1] = f[i - 1]
        BY Zenon, <3>2, <4>1
      <4> QED BY Zenon, <1>4, <4>1, <4>2 DEF Sums
    <3> QED BY Zenon, <3>1, <3>2
  <2> QED BY Zenon, <2>1, <2>2 DEF Sums
<1> QED BY Zenon, <1>2, <1>6

LEMMA SumsUnique ==
    ASSUME NEW s \in Seq(Nat), NEW f, NEW g, Sums(f, s, Len(s)), g[0] = 0,
           \A i \in 1..Len(s) : g[i] = g[i - 1] + s[i]
    PROVE  \A i \in 0..Len(s) : g[i] = f[i]
<1> DEFINE T == {i \in 0..Len(s) : g[i] # f[i]}
<1>1. SUFFICES ASSUME T # {} PROVE FALSE
  BY Zenon
<1>2. PICK n \in T : \A m \in T : n <= m
  <2>1. T \subseteq Nat
    OBVIOUS
  <2> QED BY Zenon, <1>1, <2>1, LeastElement
<1>3. n # 0
  BY Zenon, <1>2 DEF Sums
<1>4. n - 1 \in 0..Len(s) /\ g[n - 1] = f[n - 1]
  BY <1>2, <1>3
<1> QED BY <1>2, <1>3, <1>4 DEF Sums

\* Total computes what its definition says.
LEMMA TotalIsSum ==
    ASSUME NEW s \in Seq(Nat), NEW f, Sums(f, s, Len(s))
    PROVE  Total(s) = f[Len(s)]
<1> DEFINE Def(g) == g = [i \in 0..Len(s) |-> IF i = 0 THEN 0 ELSE g[i - 1] + s[i]]
           upTo == CHOOSE g : Def(g)
<1>1. Total(s) = upTo[Len(s)]
  BY Zenon DEF Total
<1>2. Def(f)
  BY DEF Sums
<1>3. Def(upTo)
  BY Zenon, <1>2
<1> HIDE DEF upTo
<1>4. /\ upTo[0] = 0
      /\ \A i \in 1..Len(s) : upTo[i] = upTo[i - 1] + s[i]
  BY <1>3
<1>5. upTo[Len(s)] = f[Len(s)]
  BY <1>4, SumsUnique
<1> QED BY Zenon, <1>1, <1>5

LEMMA TotalNat ==
    ASSUME NEW s \in Seq(Nat)
    PROVE  Total(s) \in Nat
BY SumsExist, TotalIsSum DEF Sums

LEMMA TotalEmpty ==
    ASSUME NEW s \in Seq(Nat), Len(s) = 0
    PROVE  Total(s) = 0
BY Zenon, SumsExist, TotalIsSum DEF Sums

\* t is s with one more element at its end.
LEMMA TotalAppend ==
    ASSUME NEW s \in Seq(Nat), NEW t \in Seq(Nat), Len(t) = Len(s) + 1,
           \A i \in 1..Len(s) : t[i] = s[i]
    PROVE  Total(t) = Total(s) + t[Len(t)]
<1>1. PICK f : Sums(f, t, Len(t))
  BY Zenon, SumsExist
<1> DEFINE g == [i \in 0..Len(s) |-> f[i]]
<1>2. Sums(g, s, Len(s))
  BY <1>1 DEF Sums
<1>3. Total(t) = f[Len(t)] /\ Total(s) = f[Len(s)]
  BY <1>1, <1>2, TotalIsSum
<1>4. Len(t) \in 1..Len(t) /\ Len(t) - 1 = Len(s)
  OBVIOUS
<1>5. f[Len(t)] = f[Len(t) - 1] + t[Len(t)]
  BY Zenon, <1>1, <1>4 DEF Sums
<1> QED BY Zenon, <1>3, <1>4, <1>5

\* t is s without its first element.
LEMMA TotalTail ==
    ASSUME NEW s \in Seq(Nat), NEW t \in Seq(Nat), Len(s) = Len(t) + 1,
           \A i \in 1..Len(t) : t[i] = s[i + 1]
    PROVE  Total(s) = s[1] + Total(t)
<1>1. PICK f : Sums(f, t, Len(t))
  BY Zenon, SumsExist
<1> DEFINE g == [i \in 0..Len(s) |-> IF i = 0 THEN 0 ELSE s[1] + f[i - 1]]
<1>2. s[1] \in Nat
  OBVIOUS
<1>3. Sums(g, s, Len(s))
  <2>1. g \in [0..Len(s) -> Nat] /\ g[0] = 0
    BY <1>1, <1>2 DEF Sums
  <2>2. ASSUME NEW i \in 1..Len(s)
        PROVE  g[i] = g[i - 1] + s[i]
    <3>1. CASE i = 1
      BY <1>1, <1>2, <3>1 DEF Sums
    <3>2. CASE i # 1
      <4>1. i - 1 \in 1..Len(t) /\ i \in 0..Len(s) /\ i - 1 \in 0..Len(s) /\ i # 0 /\ i - 1 # 0
        BY <3>2
      <4>2. f[i - 1] = f[(i - 1) - 1] + t[i - 1] /\ t[i - 1] = s[(i - 1) + 1]
        BY Zenon, <1>1, <4>1 DEF Sums
      <4>3. f[(i - 1) - 1] \in Nat /\ t[i - 1] \in Nat /\ (i - 1) + 1 = i
        <5>1. (i - 1) - 1 \in 0..Len(t)
          BY <4>1
        <5>2. f[(i - 1) - 1] \in Nat
          BY Zenon, <1>1, <5>1 DEF Sums
        <5> QED BY SMTT(40), <4>1, <5>2
      <4>4. g[i] = s[1] + f[i - 1] /\ g[i - 1] = s[1] + f[(i - 1) - 1]
        BY Zenon, <4>1
      <4> QED BY SMTT(40), <1>2, <4>2, <4>3, <4>4
    <3> QED BY Zenon, <3>1, <3>2
  <2> QED BY Zenon, <2>1, <2>2 DEF Sums
<1>4. Total(t) = f[Len(t)] /\ Total(s) = g[Len(s)]
  BY Zenon, <1>1, <1>3, TotalIsSum
<1> QED BY <1>4

-----------------------------------------------------------------------------
(* Lemmas about the state                                                  *)

LEMMA SuccTyped ==
    ASSUME NEW n \in Nat
    PROVE  Succ(n) \in 0..(SeqModulus - 1)
<1>1. SeqModulus \in Nat /\ SeqModulus > 0
  BY CreditAssumption, ModulusAssumption
<1> QED BY <1>1 DEF Succ

LEMMA CarriedTyped ==
    ASSUME NEW F, \A f \in F : f.len \in Nat, NEW s \in Seq(F), NEW kind
    PROVE  /\ Carried(s, kind) \in Seq(Nat)
           /\ Len(Carried(s, kind)) = Len(s)
           /\ \A i \in 1..Len(s) :
                Carried(s, kind)[i] = IF s[i].kind = kind THEN s[i].len ELSE 0
<1>1. \A i \in 1..Len(s) : s[i].len \in Nat
  OBVIOUS
<1>2. Carried(s, kind) \in [1..Len(s) -> Nat]
  BY Zenon, <1>1 DEF Carried
<1>3. Carried(s, kind) \in Seq(Nat)
  BY <1>2
<1> QED BY <1>2, <1>3 DEF Carried

\* A frame that is published adds its length to the bytes of its kind under way.
LEMMA BytesAppend ==
    ASSUME NEW F, \A f \in F : f.len \in Nat, NEW s \in Seq(F), NEW f \in F, NEW kind
    PROVE  Bytes(Append(s, f), kind) = Bytes(s, kind) + (IF f.kind = kind THEN f.len ELSE 0)
<1> DEFINE t == Append(s, f)
<1>1. /\ t \in Seq(F) /\ Len(t) = Len(s) + 1 /\ t[Len(t)] = f
      /\ \A i \in 1..Len(s) : t[i] = s[i]
  OBVIOUS
<1> HIDE DEF t
<1> DEFINE cs == Carried(s, kind)
           ct == Carried(t, kind)
<1>2. /\ cs \in Seq(Nat) /\ Len(cs) = Len(s)
      /\ \A i \in 1..Len(s) : cs[i] = IF s[i].kind = kind THEN s[i].len ELSE 0
  BY Zenon, CarriedTyped
<1>3. /\ ct \in Seq(Nat) /\ Len(ct) = Len(t)
      /\ \A i \in 1..Len(t) : ct[i] = IF t[i].kind = kind THEN t[i].len ELSE 0
  BY <1>1, CarriedTyped
<1> HIDE DEF cs, ct
<1>4. Len(ct) = Len(cs) + 1 /\ \A i \in 1..Len(cs) : ct[i] = cs[i]
  <2>1. ASSUME NEW i \in 1..Len(cs)
        PROVE  ct[i] = cs[i]
    <3>1. i \in 1..Len(s) /\ Len(s) \in Nat
      BY <1>2
    <3>2. i \in 1..Len(t) /\ t[i] = s[i]
      BY <1>1, <3>1
    <3> QED BY Zenon, <1>2, <1>3, <3>1, <3>2
  <2> QED BY Zenon, <1>1, <1>2, <1>3, <2>1
<1>5. Total(ct) = Total(cs) + ct[Len(ct)]
  BY Zenon, <1>2, <1>3, <1>4, TotalAppend
<1>6. ct[Len(ct)] = IF f.kind = kind THEN f.len ELSE 0
  BY <1>1, <1>3
<1> QED BY Zenon, <1>5, <1>6 DEF Bytes, t, cs, ct

\* A frame that is taken takes its length with it.
LEMMA BytesTail ==
    ASSUME NEW F, \A f \in F : f.len \in Nat, NEW s \in Seq(F), s # <<>>, NEW kind
    PROVE  Bytes(s, kind)
             = (IF Head(s).kind = kind THEN Head(s).len ELSE 0) + Bytes(Tail(s), kind)
<1> DEFINE t == Tail(s)
<1>1. /\ t \in Seq(F) /\ Len(s) = Len(t) + 1 /\ Head(s) = s[1]
      /\ \A i \in 1..Len(t) : t[i] = s[i + 1]
  OBVIOUS
<1> HIDE DEF t
<1> DEFINE cs == Carried(s, kind)
           ct == Carried(t, kind)
<1>2. /\ cs \in Seq(Nat) /\ Len(cs) = Len(s)
      /\ \A i \in 1..Len(s) : cs[i] = IF s[i].kind = kind THEN s[i].len ELSE 0
  BY Zenon, CarriedTyped
<1>3. /\ ct \in Seq(Nat) /\ Len(ct) = Len(t)
      /\ \A i \in 1..Len(t) : ct[i] = IF t[i].kind = kind THEN t[i].len ELSE 0
  BY <1>1, CarriedTyped
<1> HIDE DEF cs, ct
<1>4. Len(cs) = Len(ct) + 1 /\ \A i \in 1..Len(ct) : ct[i] = cs[i + 1]
  <2>1. ASSUME NEW i \in 1..Len(ct)
        PROVE  ct[i] = cs[i + 1]
    <3>1. i \in 1..Len(t) /\ i + 1 \in 1..Len(s) /\ t[i] = s[i + 1]
      BY SMTT(40), <1>1, <1>3
    <3> QED BY Zenon, <1>2, <1>3, <3>1
  <2> QED BY Zenon, <1>1, <1>2, <1>3, <2>1
<1>5. Total(cs) = cs[1] + Total(ct)
  BY Zenon, <1>2, <1>3, <1>4, TotalTail
<1>6. cs[1] = IF Head(s).kind = kind THEN Head(s).len ELSE 0
  BY <1>1, <1>2
<1> QED BY Zenon, <1>5, <1>6 DEF Bytes, t, cs, ct

LEMMA BytesNat ==
    ASSUME NEW F, \A f \in F : f.len \in Nat, NEW s \in Seq(F), NEW kind
    PROVE  Bytes(s, kind) \in Nat
BY Zenon, CarriedTyped, TotalNat DEF Bytes

LEMMA BytesEmpty ==
    ASSUME NEW kind
    PROVE  Bytes(<<>>, kind) = 0
<1> DEFINE c == Carried(<<>>, kind)
<1>1. c \in Seq(Nat) /\ Len(c) = 0
  <2>1. <<>> \in Seq({}) /\ Len(<<>>) = 0
    OBVIOUS
  <2> QED BY Zenon, <2>1, CarriedTyped
<1> QED BY Zenon, <1>1, TotalEmpty DEF Bytes

-----------------------------------------------------------------------------
(* The inductive invariant                                                 *)

LEMMA FrameLengths ==
    /\ \A f \in Frames : f.len \in Nat
    /\ \A f \in Answers : f.len \in Nat
BY CreditAssumption DEF Frames, Answers

LEMMA InitIInv == Init => IInv
<1> SUFFICES ASSUME Init PROVE IInv
  BY Zenon
<1> USE DEF Init
<1>0. /\ InitialUpload \in Nat /\ InitialDownload \in Nat /\ FrameData \in Nat
      /\ 0 \in 0..(SeqModulus - 1)
  BY CreditAssumption, ModulusAssumption
<1>1. TypeOK
  <2>0. gate \in [credit : 0..InitialUpload, closed : BOOLEAN]
    BY <1>0
  <2>1. /\ wake \in BOOLEAN /\ ctx \in BOOLEAN
        /\ client \in {"open", "ended", "failed"} /\ errs \in {"none", "taken"} \cup Codes
        /\ outcome \in Codes \cup {"none"}
    BY Zenon
  <2>2. up \in [pc : Positions, credit : 0..FrameData, n : 0..FrameData, failed : BOOLEAN]
    BY <1>0 DEF Positions
  <2>3. main \in [pc : Places, kind : {"none", "credit", "cancel"}, len : 0..FrameData]
    BY <1>0 DEF Places
  <2>4. /\ sender \in [holder : {"free", "up", "main"}, seq : 0..(SeqModulus - 1)]
        /\ c2e \in Seq(Frames) /\ e2c \in Seq(Answers)
    BY <1>0
  <2>5. worker \in [expected : 0..(SeqModulus - 1), held : 0..InitialUpload,
                    credit : 0..InitialDownload, open : BOOLEAN, broken : BOOLEAN]
    BY <1>0
  <2> QED BY Zenon, <2>0, <2>1, <2>2, <2>3, <2>4, <2>5 DEF TypeOK
<1>2. MutexHeld /\ Chained /\ InHand /\ HasFrame /\ SequenceUnbroken
  BY DEF MutexHeld, Chained, InHand, HasFrame, SequenceUnbroken, NextSeq
<1>3. UploadCreditConserved
  BY <1>0, BytesEmpty DEF UploadCreditConserved, Taken
<1>4. DownloadCreditBounded
  BY <1>0, BytesEmpty DEF DownloadCreditBounded, Pending
<1> QED BY Zenon, <1>1, <1>2, <1>3, <1>4 DEF IInv

\* Where the two goroutines are, and what they hold there.
LEMMA PlacesKept ==
    ASSUME TypeOK, MutexHeld, InHand, HasFrame, [Next]_vars
    PROVE  MutexHeld' /\ InHand' /\ HasFrame'
<1> USE DEF TypeOK, MutexHeld, InHand, HasFrame
<1>1. CASE takeMax \/ Woken \/ CheckRead \/ UploadEnds \/ UploadGone \/ SignalSelf
  BY ZenonT(40), <1>1 DEF takeMax, Woken, CheckRead, UploadEnds, UploadGone, SignalSelf
<1>2. CASE Read
  <2>1. up.pc = "read" /\ up'.pc \in {"publish", "return"} /\ up'.credit = up.credit
    BY Zenon, <1>2 DEF Read
  <2>2. up'.n <= up'.credit
    <3>1. up.credit \in Nat
      BY CreditAssumption
    <3>2. up'.n = 0 \/ up'.n \in 1..up.credit
      BY Zenon, <1>2 DEF Read
    <3> QED BY <2>1, <3>1, <3>2
  <2> QED BY Zenon, <1>2, <2>1, <2>2 DEF Read
<1>3. CASE data \/ UnlockData
  <2>1. CASE data
    BY Zenon, <2>1 DEF data, Publish
  <2>2. CASE UnlockData
    BY Zenon, <2>2 DEF UnlockData, Unlock
  <2> QED BY Zenon, <1>3, <2>1, <2>2
<1>4. CASE ReturnCredit
  BY Zenon, <1>4 DEF ReturnCredit
<1>5. CASE accept
  BY <1>5 DEF accept, acceptCredit, ToPublish
<1>6. CASE SignalUploader \/ Interrupted \/ UploadFailed \/ streamLost \/ close \/ Gone
  BY <1>6 DEF SignalUploader, Interrupted, UploadFailed, streamLost, close, Gone, ToPublish
<1>7. CASE PublishMain \/ UnlockMain
  BY <1>7 DEF PublishMain, UnlockMain, Publish, Unlock
<1>8. CASE Working \/ ClientEnds \/ CancelRequest
  BY Zenon, <1>8 DEF Working, WorkerTakes, WorkerCredits, WorkerSends, WorkerEnds, ClientEnds,
     CancelRequest
<1>9. CASE UNCHANGED vars
  BY Zenon, <1>9 DEF vars
<1> QED
  BY Zenon, <1>1, <1>2, <1>3, <1>4, <1>5, <1>6, <1>7, <1>8, <1>9 DEF Next, Uploading, Selecting

\* A frame published under the mutex continues the sequence.
LEMMA PublishChains ==
    ASSUME TypeOK, MutexHeld, Chained,
           NEW who \in {"up", "main"}, NEW kind \in {"data", "credit", "cancel"},
           NEW len \in Nat, Publish(who, kind, len), UNCHANGED worker
    PROVE  c2e' \in Seq(Frames) /\ Chained'
<1> DEFINE f == [seq |-> sender.seq, kind |-> kind, len |-> len]
<1>1. /\ c2e' = Append(c2e, f) /\ f \in Frames /\ c2e \in Seq(Frames)
      /\ sender.holder = "free" /\ sender'.holder = who /\ sender'.seq = sender.seq
  BY Zenon DEF Publish, TypeOK, Frames
<1>2. f.seq = sender.seq
  BY Zenon
<1> HIDE DEF f
<1>3. /\ c2e' \in Seq(Frames) /\ Len(c2e') = Len(c2e) + 1 /\ c2e'[Len(c2e')] = f
      /\ \A i \in 1..Len(c2e) : c2e'[i] = c2e[i]
      /\ c2e' # <<>> /\ Len(c2e) \in Nat
  BY <1>1
<1>4. NextSeq = sender.seq /\ NextSeq' = Succ(sender.seq)
  BY Zenon, <1>1 DEF NextSeq, Succ
<1>5. c2e'[1].seq = worker.expected
  <2>1. CASE c2e = <<>>
    BY <1>2, <1>3, <1>4, <2>1 DEF Chained
  <2>2. CASE c2e # <<>>
    <3>1. 1 \in 1..Len(c2e)
      BY <1>1, <2>2
    <3> QED BY Zenon, <1>3, <2>2, <3>1 DEF Chained
  <2> QED BY Zenon, <2>1, <2>2
<1>6. ASSUME NEW i \in 1..(Len(c2e') - 1)
      PROVE  c2e'[i + 1].seq = Succ(c2e'[i].seq)
  <2>1. CASE i = Len(c2e)
    <3>1. c2e # <<>> /\ c2e'[i] = c2e[i] /\ i + 1 = Len(c2e')
      BY <1>1, <1>3, <2>1
    <3> QED BY Zenon, <1>2, <1>3, <1>4, <2>1, <3>1 DEF Chained
  <2>2. CASE i # Len(c2e)
    <3>1. i \in 1..(Len(c2e) - 1) /\ c2e'[i] = c2e[i] /\ c2e'[i + 1] = c2e[i + 1]
      BY <1>3, <2>2
    <3> QED BY Zenon, <3>1 DEF Chained
  <2> QED BY Zenon, <2>1, <2>2
<1> QED BY Zenon, <1>2, <1>3, <1>4, <1>5, <1>6 DEF Chained, Succ

\* The worker never meets a sequence number it does not expect.
LEMMA SequenceKept ==
    ASSUME TypeOK, MutexHeld, Chained, HasFrame, SequenceUnbroken, [Next]_vars
    PROVE  Chained' /\ SequenceUnbroken'
<1> USE DEF SequenceUnbroken
<1>1. ASSUME UNCHANGED <<c2e, sender>>, worker'.expected = worker.expected,
             worker'.broken = worker.broken
      PROVE  Chained' /\ SequenceUnbroken'
  BY Zenon, <1>1 DEF Chained, NextSeq, Succ
<1>2. CASE data
  <2>1. Publish("up", "data", up.n) /\ up.n \in Nat /\ UNCHANGED worker
    BY <1>2, CreditAssumption DEF data, TypeOK
  <2> QED BY Zenon, <2>1, PublishChains
<1>3. CASE PublishMain
  <2>1. /\ Publish("main", main.kind, main.len) /\ main.len \in Nat /\ UNCHANGED worker
        /\ main.kind \in {"data", "credit", "cancel"}
    BY <1>3, CreditAssumption DEF PublishMain, TypeOK, HasFrame
  <2> QED BY Zenon, <2>1, PublishChains
<1>4. CASE UnlockData \/ UnlockMain
  <2>1. /\ sender.holder # "free" /\ sender'.holder = "free" /\ sender'.seq = Succ(sender.seq)
        /\ UNCHANGED <<c2e, worker>>
    BY <1>4 DEF UnlockData, UnlockMain, Unlock, MutexHeld, Succ
  <2>2. NextSeq' = NextSeq
    BY Zenon, <2>1 DEF NextSeq
  <2> QED BY Zenon, <2>1, <2>2 DEF Chained, Succ
<1>5. CASE WorkerTakes
  <2>1. /\ c2e \in Seq(Frames) /\ c2e # <<>> /\ c2e' = Tail(c2e) /\ Head(c2e) = c2e[1]
        /\ UNCHANGED sender
    BY <1>5 DEF WorkerTakes, TypeOK
  <2>2. c2e[1].seq = worker.expected
    BY Zenon, <2>1 DEF Chained
  <2>3. worker'.expected = Succ(c2e[1].seq) /\ worker'.broken = worker.broken
    BY Zenon, <1>5, <2>1, <2>2 DEF WorkerTakes, TypeOK, Succ
  <2>4. /\ Len(c2e) = Len(c2e') + 1 /\ Len(c2e') \in Nat
        /\ \A i \in 1..Len(c2e') : c2e'[i] = c2e[i + 1]
        /\ c2e' = <<>> <=> Len(c2e') = 0
    <3>1. c2e' \in Seq(Frames)
      BY <2>1
    <3>2. Len(c2e) = Len(c2e') + 1 /\ \A i \in 1..Len(c2e') : c2e'[i] = c2e[i + 1]
      BY <2>1
    <3> QED BY <3>1, <3>2
  <2>5. NextSeq' = NextSeq
    BY Zenon, <2>1 DEF NextSeq, Succ
  <2>6. ASSUME c2e' = <<>>
        PROVE  NextSeq' = worker'.expected
    BY <2>1, <2>3, <2>4, <2>5, <2>6 DEF Chained
  <2>7. ASSUME c2e' # <<>>
        PROVE  c2e'[1].seq = worker'.expected /\ NextSeq' = Succ(c2e'[Len(c2e')].seq)
    <3>1. c2e'[1] = c2e[2] /\ c2e'[Len(c2e')] = c2e[Len(c2e)] /\ 1 \in 1..(Len(c2e) - 1)
      BY <2>4, <2>7
    <3>2. c2e[2].seq = Succ(c2e[1].seq)
      <4>1. c2e[1 + 1].seq = Succ(c2e[1].seq)
        BY Zenon, <3>1 DEF Chained
      <4> QED BY <4>1
    <3> QED BY Zenon, <2>1, <2>3, <2>5, <3>1, <3>2 DEF Chained
  <2>8. ASSUME NEW i \in 1..(Len(c2e') - 1)
        PROVE  c2e'[i + 1].seq = Succ(c2e'[i].seq)
    <3>1. /\ i + 1 \in 1..(Len(c2e) - 1)
          /\ c2e'[i] = c2e[i + 1] /\ c2e'[i + 1] = c2e[(i + 1) + 1]
      BY <2>4
    <3> QED BY Zenon, <3>1 DEF Chained
  <2> QED BY Zenon, <2>3, <2>6, <2>7, <2>8 DEF Chained, Succ
<1>6. CASE takeMax \/ Woken \/ Read \/ ReturnCredit \/ CheckRead \/ UploadEnds \/ UploadGone
           \/ SignalSelf
  BY Zenon, <1>1, <1>6 DEF takeMax, Woken, Read, ReturnCredit, CheckRead, UploadEnds, UploadGone,
     SignalSelf
<1>7. CASE accept \/ SignalUploader \/ Interrupted \/ UploadFailed \/ streamLost \/ close \/ Gone
  BY Zenon, <1>1, <1>7 DEF accept, SignalUploader, Interrupted, UploadFailed, streamLost, close, Gone
<1>8. CASE WorkerCredits \/ WorkerSends \/ WorkerEnds \/ ClientEnds \/ CancelRequest
  BY Zenon, <1>1, <1>8 DEF WorkerCredits, WorkerSends, WorkerEnds, ClientEnds, CancelRequest, TypeOK
<1>9. CASE UNCHANGED vars
  BY Zenon, <1>1, <1>9 DEF vars
<1> QED
  BY Zenon, <1>2, <1>3, <1>4, <1>5, <1>6, <1>7, <1>8, <1>9 DEF Next, Uploading, Selecting, Working

\* The amounts that make up the two credits, and what the invariant says of them.
LEMMA Amounts ==
    ASSUME IInv
    PROVE  /\ gate.credit \in Nat /\ Taken \in Nat /\ Bytes(c2e, "data") \in Nat
           /\ worker.held \in Nat /\ Bytes(e2c, "credit") \in Nat
           /\ worker.credit \in Nat /\ Bytes(c2e, "credit") \in Nat /\ Pending \in Nat
           /\ Bytes(e2c, "data") \in Nat
           /\ InitialUpload \in Nat /\ InitialDownload \in Nat /\ FrameData \in Nat
           /\ up.credit \in Nat /\ up.n \in Nat
           /\ gate.credit + Taken + Bytes(c2e, "data") + worker.held + Bytes(e2c, "credit")
                = InitialUpload
           /\ worker.credit + Bytes(c2e, "credit") + Pending + Bytes(e2c, "data")
                <= InitialDownload
<1>1. /\ c2e \in Seq(Frames) /\ e2c \in Seq(Answers)
      /\ gate.credit \in Nat /\ worker.held \in Nat /\ worker.credit \in Nat
      /\ up.credit \in Nat /\ up.n \in Nat /\ main.len \in Nat
      /\ InitialUpload \in Nat /\ InitialDownload \in Nat /\ FrameData \in Nat
  BY CreditAssumption DEF IInv, TypeOK
<1>2. /\ \A kind : Bytes(c2e, kind) \in Nat
      /\ \A kind : Bytes(e2c, kind) \in Nat
  BY Zenon, <1>1, FrameLengths, BytesNat
<1>3. Taken \in Nat
  BY <1>1 DEF Taken, IInv, InHand
<1>4. Pending \in Nat
  BY Zenon, <1>1 DEF Pending
<1> QED BY Zenon, <1>1, <1>2, <1>3, <1>4 DEF IInv, UploadCreditConserved, DownloadCreditBounded

\* What a frame published by Control does to the bytes under way ...
LEMMA PublishBytes ==
    ASSUME IInv, NEW who, NEW kind \in {"data", "credit", "cancel"}, NEW len \in Nat,
           Publish(who, kind, len)
    PROVE  /\ (kind = "data" => Bytes(c2e', "data") = Bytes(c2e, "data") + len)
           /\ (kind # "data" => Bytes(c2e', "data") = Bytes(c2e, "data"))
           /\ (kind = "credit" => Bytes(c2e', "credit") = Bytes(c2e, "credit") + len)
           /\ (kind # "credit" => Bytes(c2e', "credit") = Bytes(c2e, "credit"))
<1> DEFINE f == [seq |-> sender.seq, kind |-> kind, len |-> len]
<1>1. c2e' = Append(c2e, f) /\ c2e \in Seq(Frames) /\ f \in Frames
  BY Zenon DEF Publish, IInv, TypeOK, Frames
<1>2. f.kind = kind /\ f.len = len
  BY Zenon
<1> HIDE DEF f
<1>3. Bytes(Append(c2e, f), "data") = Bytes(c2e, "data") + (IF f.kind = "data" THEN f.len ELSE 0)
  BY Zenon, <1>1, FrameLengths, BytesAppend
<1>4. Bytes(Append(c2e, f), "credit")
        = Bytes(c2e, "credit") + (IF f.kind = "credit" THEN f.len ELSE 0)
  BY Zenon, <1>1, FrameLengths, BytesAppend
<1>5. Bytes(c2e, "data") \in Nat /\ Bytes(c2e, "credit") \in Nat
  BY Zenon, Amounts
<1>6. /\ f.kind = "data" => Bytes(Append(c2e, f), "data") = Bytes(c2e, "data") + f.len
      /\ f.kind # "data" => Bytes(Append(c2e, f), "data") = Bytes(c2e, "data")
  BY <1>3, <1>5
<1>7. /\ f.kind = "credit" => Bytes(Append(c2e, f), "credit") = Bytes(c2e, "credit") + f.len
      /\ f.kind # "credit" => Bytes(Append(c2e, f), "credit") = Bytes(c2e, "credit")
  BY <1>4, <1>5
<1> QED BY Zenon, <1>1, <1>2, <1>6, <1>7

\* ... and a frame sent by the worker.
LEMMA AnswerBytes ==
    ASSUME IInv, NEW kind \in {"data", "credit", "end"}, NEW len \in 0..FrameData,
           e2c' = Append(e2c, [kind |-> kind, len |-> len])
    PROVE  /\ (kind = "data" => Bytes(e2c', "data") = Bytes(e2c, "data") + len)
           /\ (kind # "data" => Bytes(e2c', "data") = Bytes(e2c, "data"))
           /\ (kind = "credit" => Bytes(e2c', "credit") = Bytes(e2c, "credit") + len)
           /\ (kind # "credit" => Bytes(e2c', "credit") = Bytes(e2c, "credit"))
<1> DEFINE f == [kind |-> kind, len |-> len]
<1>1. e2c' = Append(e2c, f) /\ e2c \in Seq(Answers) /\ f \in Answers
  BY Zenon DEF IInv, TypeOK, Answers
<1>2. f.kind = kind /\ f.len = len
  BY Zenon
<1> HIDE DEF f
<1>3. Bytes(Append(e2c, f), "data") = Bytes(e2c, "data") + (IF f.kind = "data" THEN f.len ELSE 0)
  BY Zenon, <1>1, FrameLengths, BytesAppend
<1>4. Bytes(Append(e2c, f), "credit")
        = Bytes(e2c, "credit") + (IF f.kind = "credit" THEN f.len ELSE 0)
  BY Zenon, <1>1, FrameLengths, BytesAppend
<1>5. Bytes(e2c, "data") \in Nat /\ Bytes(e2c, "credit") \in Nat
  BY Zenon, Amounts
<1>6. /\ f.kind = "data" => Bytes(Append(e2c, f), "data") = Bytes(e2c, "data") + f.len
      /\ f.kind # "data" => Bytes(Append(e2c, f), "data") = Bytes(e2c, "data")
  BY <1>3, <1>5
<1>7. /\ f.kind = "credit" => Bytes(Append(e2c, f), "credit") = Bytes(e2c, "credit") + f.len
      /\ f.kind # "credit" => Bytes(Append(e2c, f), "credit") = Bytes(e2c, "credit")
  BY <1>4, <1>5
<1> QED BY Zenon, <1>1, <1>2, <1>6, <1>7

\* What receiving the first frame does, on either stream.
LEMMA ReceivedBytes ==
    ASSUME NEW F, \A f \in F : f.len \in Nat, NEW s \in Seq(F), s # <<>>
    PROVE  /\ Head(s) \in F /\ Head(s).len \in Nat
           /\ Bytes(Tail(s), "data") \in Nat /\ Bytes(Tail(s), "credit") \in Nat
           /\ Head(s).kind = "data" => Bytes(s, "data") = Head(s).len + Bytes(Tail(s), "data")
           /\ Head(s).kind # "data" => Bytes(s, "data") = Bytes(Tail(s), "data")
           /\ Head(s).kind = "credit"
                => Bytes(s, "credit") = Head(s).len + Bytes(Tail(s), "credit")
           /\ Head(s).kind # "credit" => Bytes(s, "credit") = Bytes(Tail(s), "credit")
<1>1. Head(s) \in F /\ Tail(s) \in Seq(F)
  OBVIOUS
<1>2. Bytes(Tail(s), "data") \in Nat
  BY Zenon, <1>1, BytesNat
<1>3. Bytes(Tail(s), "credit") \in Nat
  BY Zenon, <1>1, BytesNat
<1>4. Bytes(s, "data")
        = (IF Head(s).kind = "data" THEN Head(s).len ELSE 0) + Bytes(Tail(s), "data")
  BY Zenon, BytesTail
<1>5. Bytes(s, "credit")
        = (IF Head(s).kind = "credit" THEN Head(s).len ELSE 0) + Bytes(Tail(s), "credit")
  BY Zenon, BytesTail
<1> QED BY <1>1, <1>2, <1>3, <1>4, <1>5

LEMMA CreditKept ==
    ASSUME IInv, [Next]_vars
    PROVE  UploadCreditConserved' /\ DownloadCreditBounded'
<1>0. /\ gate.credit \in Nat /\ up.credit \in Nat /\ up.n \in Nat /\ FrameData \in Nat
      /\ worker.held \in Nat /\ worker.credit \in Nat
  BY Zenon, Amounts
<1>1. ASSUME UNCHANGED <<gate.credit, c2e, e2c, worker.held, worker.credit, Taken, Pending>>
      PROVE  UploadCreditConserved' /\ DownloadCreditBounded'
  BY Zenon, <1>1 DEF IInv, UploadCreditConserved, DownloadCreditBounded
<1>2. CASE takeMax
  <2>1. UNCHANGED <<c2e, e2c, worker, main>> /\ up.pc = "take"
    BY Zenon, <1>2 DEF takeMax
  <2>2. CASE UNCHANGED gate
    <3>1. up'.credit = up.credit /\ up'.pc \in {"close", "wait"} /\ Taken = up.credit
      <4>1. \A n \in Nat : gate # [gate EXCEPT !.credit = @ - Lesser(gate.credit, FrameData)]
            \/ gate.credit = 0
        BY SMTT(40), <1>0, CreditAssumption DEF IInv, TypeOK, Lesser
      <4> QED BY <1>2, <2>1, <2>2, <4>1 DEF takeMax, IInv, TypeOK, Taken
    <3>2. UNCHANGED <<Taken, Pending>>
      BY Zenon, <2>1, <3>1 DEF Taken, Pending
    <3> QED BY Zenon, <1>1, <2>1, <2>2, <3>2
  <2>3. CASE gate' # gate
    <3>1. PICK n \in Nat : /\ gate.credit >= n /\ gate'.credit = gate.credit - n
                           /\ up'.pc = "read" /\ up'.credit = n
      <4>1. Lesser(gate.credit, FrameData) \in Nat /\ gate.credit >= Lesser(gate.credit, FrameData)
        BY <1>0 DEF Lesser
      <4> QED BY Zenon, <1>2, <2>3, <4>1 DEF takeMax, IInv, TypeOK
    <3>2. Taken = 0 /\ Taken' = n /\ UNCHANGED Pending
      BY Zenon, <2>1, <3>1 DEF Taken, Pending, IInv, InHand
    <3> QED BY <2>1, <3>1, <3>2, Amounts DEF UploadCreditConserved, DownloadCreditBounded
  <2> QED BY Zenon, <2>2, <2>3
<1>3. CASE Woken \/ CheckRead \/ UploadEnds \/ UploadGone \/ SignalSelf
  <2>1. /\ up.pc \in {"wait", "check", "close", "closed", "signal"}
        /\ up'.pc \in {"take", "close", "closed", "done", "check"}
        /\ up'.credit = up.credit /\ gate'.credit = gate.credit
        /\ UNCHANGED <<c2e, e2c, worker, main>>
    BY Zenon, <1>3 DEF Woken, CheckRead, UploadEnds, UploadGone, SignalSelf, IInv, TypeOK
  <2>2. UNCHANGED <<Taken, Pending>>
    BY Zenon, <2>1 DEF Taken, Pending
  <2> QED BY Zenon, <1>1, <2>1, <2>2
<1>4. CASE Read
  <2>1. /\ up.pc = "read" /\ up'.credit = up.credit
        /\ up'.pc = "publish" \/ (up'.pc = "return" /\ up'.n = 0)
        /\ UNCHANGED <<gate, c2e, e2c, worker, main>>
    <3>1. up.pc = "read" /\ UNCHANGED <<gate, c2e, e2c, worker, main>>
      BY Zenon, <1>4 DEF Read
    <3>2. CASE \E n \in 1..up.credit : up' = [up EXCEPT !.pc = "publish", !.n = n]
      <4>1. PICK n \in 1..up.credit : up' = [up EXCEPT !.pc = "publish", !.n = n]
        BY Zenon, <3>2
      <4>2. up'.pc = "publish" /\ up'.credit = up.credit
        BY Zenon, <4>1 DEF IInv, TypeOK
      <4> QED BY Zenon, <3>1, <4>2
    <3>3. CASE \/ up' = [up EXCEPT !.pc = "return", !.n = 0]
               \/ up' = [up EXCEPT !.pc = "return", !.n = 0, !.failed = TRUE]
      BY Zenon, <3>1, <3>3 DEF IInv, TypeOK
    <3> QED BY Zenon, <1>4, <3>2, <3>3 DEF Read
  <2>2. UNCHANGED <<Taken, Pending>>
    BY <2>1, Amounts DEF Taken, Pending
  <2> QED BY Zenon, <1>1, <2>1, <2>2
<1>5. CASE data
  <2>1. /\ Publish("up", "data", up.n) /\ up.pc = "publish" /\ up'.pc = "unlock"
        /\ up'.credit = up.credit /\ up'.n = up.n
        /\ UNCHANGED <<gate, e2c, worker, main>>
    BY Zenon, <1>5 DEF data, IInv, TypeOK
  <2>2. Bytes(c2e', "data") = Bytes(c2e, "data") + up.n
        /\ Bytes(c2e', "credit") = Bytes(c2e, "credit")
    BY Zenon, <1>0, <2>1, PublishBytes, Amounts
  <2>3. Taken = up.credit /\ Taken' = up.credit - up.n /\ UNCHANGED Pending
    BY Zenon, <2>1 DEF Taken, Pending
  <2> QED BY <2>1, <2>2, <2>3, Amounts DEF UploadCreditConserved, DownloadCreditBounded
<1>6. CASE UnlockData
  <2>1. /\ up.pc = "unlock" /\ up'.pc = "return" /\ up'.credit = up.credit /\ up'.n = up.n
        /\ UNCHANGED <<gate, c2e, e2c, worker, main>>
    BY Zenon, <1>6 DEF UnlockData, IInv, TypeOK
  <2>2. UNCHANGED <<Taken, Pending>>
    BY Zenon, <2>1 DEF Taken, Pending
  <2> QED BY Zenon, <1>1, <2>1, <2>2
<1>7. CASE ReturnCredit
  <2>1. /\ up.pc = "return" /\ up'.pc \in {"signal", "check"} /\ up'.credit = 0
        /\ gate'.credit = gate.credit + (up.credit - up.n)
        /\ UNCHANGED <<c2e, e2c, worker, main>>
    BY Zenon, <1>7 DEF ReturnCredit, IInv, TypeOK
  <2>2. Taken = up.credit - up.n /\ Taken' = 0 /\ UNCHANGED Pending
    BY Zenon, <2>1 DEF Taken, Pending
  <2> QED BY <2>1, <2>2, Amounts DEF UploadCreditConserved, DownloadCreditBounded
<1>8. CASE accept
  <2>1. /\ main.pc = "select" /\ e2c # <<>> /\ e2c' = Tail(e2c) /\ e2c \in Seq(Answers)
        /\ UNCHANGED <<up, c2e, worker>>
    BY Zenon, <1>8 DEF accept, IInv, TypeOK
  <2>2. Head(e2c) \in Answers /\ Head(e2c).len \in Nat
    BY <2>1, FrameLengths
  <2>3. /\ Head(e2c).kind = "data" => Bytes(e2c, "data") = Head(e2c).len + Bytes(e2c', "data")
        /\ Head(e2c).kind # "data" => Bytes(e2c, "data") = Bytes(e2c', "data")
        /\ Head(e2c).kind = "credit" => Bytes(e2c, "credit") = Head(e2c).len + Bytes(e2c', "credit")
        /\ Head(e2c).kind # "credit" => Bytes(e2c, "credit") = Bytes(e2c', "credit")
    BY Zenon, <2>1, FrameLengths, ReceivedBytes
  <2>4. Bytes(e2c', "credit") \in Nat /\ Bytes(e2c', "data") \in Nat
    BY Zenon, <2>1, FrameLengths, ReceivedBytes
  <2>5. Taken' = Taken /\ Pending = 0
    BY Zenon, <2>1 DEF Taken, Pending
  <2>6. CASE Head(e2c).kind = "credit"
    <3>1. gate'.credit = gate.credit + Head(e2c).len /\ main'.pc = "signal"
      BY Zenon, <1>8, <2>6 DEF accept, acceptCredit, IInv, TypeOK
    <3>2. Pending' = 0
      BY Zenon, <3>1 DEF Pending
    <3>3. /\ Bytes(e2c, "credit") = Head(e2c).len + Bytes(e2c', "credit")
          /\ Bytes(e2c, "data") = Bytes(e2c', "data")
      BY Zenon, <2>3, <2>6
    <3>4. UploadCreditConserved'
      <4>1. gate.credit + Taken + Bytes(c2e, "data") + worker.held
              + (Head(e2c).len + Bytes(e2c', "credit")) = InitialUpload
        BY Zenon, <3>3, Amounts
      <4>2. (gate.credit + Head(e2c).len) + Taken + Bytes(c2e, "data") + worker.held
              + Bytes(e2c', "credit") = InitialUpload
        BY <2>2, <2>4, <4>1, Amounts
      <4> QED BY Zenon, <2>1, <2>5, <3>1, <4>2 DEF UploadCreditConserved
    <3>5. DownloadCreditBounded'
      BY Zenon, <2>1, <2>5, <3>2, <3>3, Amounts DEF DownloadCreditBounded
    <3> QED BY Zenon, <3>4, <3>5
  <2>7. CASE Head(e2c).kind = "data"
    <3>1. gate' = gate /\ main' \in {[pc |-> "publish", kind |-> "credit", len |-> Head(e2c).len],
                                    [pc |-> "publish", kind |-> "cancel", len |-> 0]}
      BY Zenon, <1>8, <2>7 DEF accept, ToPublish
    <3>2. Pending' = Head(e2c).len \/ Pending' = 0
      BY <3>1 DEF Pending
    <3>3. /\ Bytes(e2c, "data") = Head(e2c).len + Bytes(e2c', "data")
          /\ Bytes(e2c, "credit") = Bytes(e2c', "credit")
      BY Zenon, <2>3, <2>7
    <3>4. UploadCreditConserved'
      BY Zenon, <2>1, <2>5, <3>1, <3>3, Amounts DEF UploadCreditConserved
    <3>5. DownloadCreditBounded'
      <4>1. worker.credit + Bytes(c2e, "credit") + 0 + (Head(e2c).len + Bytes(e2c', "data"))
              <= InitialDownload
        BY Zenon, <2>5, <3>3, Amounts
      <4>2. /\ worker.credit + Bytes(c2e, "credit") + Head(e2c).len + Bytes(e2c', "data")
                 <= InitialDownload
            /\ worker.credit + Bytes(c2e, "credit") + 0 + Bytes(e2c', "data") <= InitialDownload
        BY <2>2, <2>4, <4>1, Amounts
      <4> QED BY Zenon, <2>1, <3>2, <4>2 DEF DownloadCreditBounded
    <3> QED BY Zenon, <3>4, <3>5
  <2>8. CASE Head(e2c).kind = "end"
    <3>1. gate' = gate /\ main'.pc = "close"
      BY Zenon, <1>8, <2>8 DEF accept, IInv, TypeOK
    <3>2. Pending' = 0
      BY Zenon, <3>1 DEF Pending
    <3> QED BY Zenon, <2>1, <2>2, <2>3, <2>4, <2>5, <2>8, <3>1, <3>2, Amounts
            DEF UploadCreditConserved, DownloadCreditBounded
  <2> QED BY Zenon, <2>2, <2>6, <2>7, <2>8 DEF Answers
<1>9. CASE SignalUploader \/ Interrupted \/ UploadFailed \/ streamLost \/ close \/ Gone
  <2>1. /\ main.pc \in {"signal", "select", "close", "closed"}
        /\ main'.pc \in {"select", "close", "closed", "done"} \/ main'.kind = "cancel"
        /\ gate'.credit = gate.credit
        /\ UNCHANGED <<c2e, e2c, worker, up>>
    BY <1>9 DEF SignalUploader, Interrupted, UploadFailed, streamLost, close, Gone, ToPublish,
       IInv, TypeOK
  <2>2. UNCHANGED <<Taken, Pending>>
    BY Zenon, <2>1 DEF Taken, Pending
  <2> QED BY Zenon, <1>1, <2>1, <2>2
<1>10. CASE PublishMain
  <2>1. /\ Publish("main", main.kind, main.len) /\ main.pc = "publish" /\ main'.pc = "unlock"
        /\ main.kind \in {"credit", "cancel"} /\ main.len \in Nat
        /\ UNCHANGED <<gate, e2c, worker, up>>
    BY <1>10, CreditAssumption DEF PublishMain, IInv, TypeOK, HasFrame
  <2>2. Bytes(c2e', "data") = Bytes(c2e, "data")
        /\ Bytes(c2e', "credit") = Bytes(c2e, "credit") + Pending
    <3>1. /\ Bytes(c2e', "data") = Bytes(c2e, "data")
          /\ main.kind = "credit" => Bytes(c2e', "credit") = Bytes(c2e, "credit") + main.len
          /\ main.kind # "credit" => Bytes(c2e', "credit") = Bytes(c2e, "credit")
      BY Zenon, <2>1, PublishBytes
    <3>2. Pending = IF main.kind = "credit" THEN main.len ELSE 0
      BY Zenon, <2>1 DEF Pending
    <3> QED BY <2>1, <3>1, <3>2, Amounts
  <2>3. Taken' = Taken /\ Pending' = 0
    BY Zenon, <2>1 DEF Taken, Pending
  <2> QED BY <2>1, <2>2, <2>3, Amounts DEF UploadCreditConserved, DownloadCreditBounded
<1>11. CASE UnlockMain
  <2>1. /\ main.pc = "unlock" /\ main'.pc \in {"close", "select"}
        /\ UNCHANGED <<gate, c2e, e2c, worker, up>>
    BY Zenon, <1>11 DEF UnlockMain
  <2>2. UNCHANGED <<Taken, Pending>>
    BY Zenon, <2>1 DEF Taken, Pending
  <2> QED BY Zenon, <1>1, <2>1, <2>2
<1>12. CASE WorkerTakes
  <2>1. /\ c2e # <<>> /\ c2e' = Tail(c2e) /\ c2e \in Seq(Frames)
        /\ UNCHANGED <<gate, up, main, e2c>>
    BY Zenon, <1>12 DEF WorkerTakes, IInv, TypeOK
  <2>2. Head(c2e) \in Frames /\ Head(c2e).len \in Nat /\ Head(c2e).seq = worker.expected
    BY <2>1, FrameLengths DEF IInv, Chained
  <2>3. /\ Head(c2e).kind = "data" => worker'.held = worker.held + Head(c2e).len
        /\ Head(c2e).kind # "data" => worker'.held = worker.held
        /\ Head(c2e).kind = "credit" => worker'.credit = worker.credit + Head(c2e).len
        /\ Head(c2e).kind # "credit" => worker'.credit = worker.credit
    BY SMTT(40), <1>0, <1>12, <2>2 DEF WorkerTakes, IInv, TypeOK
  <2>4. /\ Head(c2e).kind = "data" => Bytes(c2e, "data") = Head(c2e).len + Bytes(c2e', "data")
        /\ Head(c2e).kind # "data" => Bytes(c2e, "data") = Bytes(c2e', "data")
        /\ Head(c2e).kind = "credit" => Bytes(c2e, "credit") = Head(c2e).len + Bytes(c2e', "credit")
        /\ Head(c2e).kind # "credit" => Bytes(c2e, "credit") = Bytes(c2e', "credit")
    BY Zenon, <2>1, FrameLengths, ReceivedBytes
  <2>5. Bytes(c2e', "credit") \in Nat /\ Bytes(c2e', "data") \in Nat
    BY Zenon, <2>1, FrameLengths, ReceivedBytes
  <2>6. UNCHANGED <<Taken, Pending>>
    BY Zenon, <2>1 DEF Taken, Pending
  <2>7. worker'.held + Bytes(c2e', "data") = worker.held + Bytes(c2e, "data")
    BY <1>0, <2>2, <2>3, <2>4, <2>5
  <2>8. worker'.credit + Bytes(c2e', "credit") = worker.credit + Bytes(c2e, "credit")
    BY <1>0, <2>2, <2>3, <2>4, <2>5
  <2>9. worker'.held \in Nat /\ worker'.credit \in Nat
    BY <1>0, <2>2, <2>3
  <2>10. UploadCreditConserved'
    <3>1. gate.credit + Taken + Bytes(c2e', "data") + worker'.held + Bytes(e2c, "credit")
            = InitialUpload
      BY <2>5, <2>7, <2>9, Amounts
    <3> QED BY Zenon, <2>1, <2>6, <3>1 DEF UploadCreditConserved
  <2>11. DownloadCreditBounded'
    BY Zenon, <2>1, <2>5, <2>6, <2>8, <2>9, Amounts DEF DownloadCreditBounded
  <2> QED BY Zenon, <2>10, <2>11
<1>13. CASE WorkerCredits
  <2>1. PICK n \in 1..Lesser(worker.held, FrameData) :
          /\ worker' = [worker EXCEPT !.held = @ - n]
          /\ e2c' = Append(e2c, [kind |-> "credit", len |-> n])
    BY Zenon, <1>13 DEF WorkerCredits
  <2>2. n \in Nat /\ n <= worker.held /\ n <= FrameData
    BY <1>0, <2>1 DEF Lesser
  <2>3. /\ worker'.held = worker.held - n /\ worker'.credit = worker.credit
        /\ UNCHANGED <<gate, up, main, c2e>>
    BY Zenon, <1>13, <2>1 DEF WorkerCredits, IInv, TypeOK
  <2>4. n \in 0..FrameData
    BY <1>0, <2>2
  <2>5. Bytes(e2c', "credit") = Bytes(e2c, "credit") + n /\ Bytes(e2c', "data") = Bytes(e2c, "data")
    BY Zenon, <2>1, <2>4, AnswerBytes, Amounts
  <2>6. UNCHANGED <<Taken, Pending>>
    BY Zenon, <2>3 DEF Taken, Pending
  <2> QED BY <2>2, <2>3, <2>5, <2>6, Amounts DEF UploadCreditConserved, DownloadCreditBounded
<1>14. CASE WorkerSends
  <2>1. PICK n \in 1..Lesser(worker.credit, FrameData) :
          /\ worker' = [worker EXCEPT !.credit = @ - n]
          /\ e2c' = Append(e2c, [kind |-> "data", len |-> n])
    BY Zenon, <1>14 DEF WorkerSends
  <2>2. n \in Nat /\ n <= worker.credit /\ n <= FrameData
    BY <1>0, <2>1 DEF Lesser
  <2>3. /\ worker'.credit = worker.credit - n /\ worker'.held = worker.held
        /\ UNCHANGED <<gate, up, main, c2e>>
    BY Zenon, <1>14, <2>1 DEF WorkerSends, IInv, TypeOK
  <2>4. n \in 0..FrameData
    BY <1>0, <2>2
  <2>5. Bytes(e2c', "data") = Bytes(e2c, "data") + n /\ Bytes(e2c', "credit") = Bytes(e2c, "credit")
    BY Zenon, <2>1, <2>4, AnswerBytes, Amounts
  <2>6. UNCHANGED <<Taken, Pending>>
    BY Zenon, <2>3 DEF Taken, Pending
  <2> QED BY <2>2, <2>3, <2>5, <2>6, Amounts DEF UploadCreditConserved, DownloadCreditBounded
<1>15. CASE WorkerEnds
  <2>1. /\ e2c' = Append(e2c, [kind |-> "end", len |-> 0])
        /\ worker'.credit = worker.credit /\ worker'.held = worker.held
        /\ UNCHANGED <<gate, up, main, c2e>>
    BY Zenon, <1>15 DEF WorkerEnds, IInv, TypeOK
  <2>2. 0 \in 0..FrameData
    BY <1>0
  <2>3. Bytes(e2c', "data") = Bytes(e2c, "data") /\ Bytes(e2c', "credit") = Bytes(e2c, "credit")
    BY Zenon, <2>1, <2>2, AnswerBytes, Amounts
  <2>4. UNCHANGED <<Taken, Pending>>
    BY Zenon, <2>1 DEF Taken, Pending
  <2> QED BY Zenon, <2>1, <2>3, <2>4, Amounts DEF UploadCreditConserved, DownloadCreditBounded
<1>16. CASE ClientEnds \/ CancelRequest \/ UNCHANGED vars
  <2>1. UNCHANGED <<gate, c2e, e2c, worker, up, main>>
    BY Zenon, <1>16 DEF ClientEnds, CancelRequest, vars
  <2>2. UNCHANGED <<Taken, Pending>>
    BY Zenon, <2>1 DEF Taken, Pending
  <2> QED BY Zenon, <1>1, <2>1, <2>2
<1> QED
  BY Zenon, <1>2, <1>3, <1>4, <1>5, <1>6, <1>7, <1>8, <1>9, <1>10, <1>11, <1>12, <1>13, <1>14, <1>15,
     <1>16 DEF Next, Uploading, Selecting, Working

\* The types are kept.  That no amount outgrows its stream's initial credit is read off the
\* two conservation laws.
LEMMA TypesKept ==
    ASSUME IInv, [Next]_vars
    PROVE  TypeOK'
<1> USE DEF IInv
<1> DEFINE Gates == [credit : 0..InitialUpload, closed : BOOLEAN]
           Uploaders == [pc : Positions, credit : 0..FrameData, n : 0..FrameData,
                         failed : BOOLEAN]
           Loops == [pc : Places, kind : {"none", "credit", "cancel"}, len : 0..FrameData]
           Workers == [expected : 0..(SeqModulus - 1), held : 0..InitialUpload,
                       credit : 0..InitialDownload, open : BOOLEAN, broken : BOOLEAN]
<1>t. gate \in Gates /\ up \in Uploaders /\ main \in Loops /\ worker \in Workers
  BY Zenon DEF TypeOK
<1>0. /\ gate.credit \in Nat /\ up.credit \in Nat /\ up.n \in Nat
      /\ worker.held \in Nat /\ worker.credit \in Nat
      /\ FrameData \in Nat /\ InitialUpload \in Nat /\ InitialDownload \in Nat
  BY Zenon, Amounts
<1>1. CASE takeMax
  <2>1. Lesser(gate.credit, FrameData) \in 0..FrameData
        /\ gate.credit - Lesser(gate.credit, FrameData) \in 0..InitialUpload
    BY <1>0 DEF TypeOK, Lesser
  <2>2. gate' \in Gates /\ up' \in Uploaders
    BY ZenonT(40), <1>t, <1>1, <2>1 DEF takeMax, Positions
  <2> QED BY <1>1, <2>2 DEF takeMax, TypeOK
<1>2. CASE Woken \/ CheckRead \/ UploadEnds \/ UploadGone \/ SignalSelf
  <2>1. gate' \in Gates /\ up' \in Uploaders
    BY ZenonT(40), <1>t, <1>2 DEF Woken, CheckRead, UploadEnds, UploadGone, SignalSelf, Positions
  <2>2. wake' \in BOOLEAN /\ errs' \in {"none", "taken"} \cup Codes
    BY Zenon, <1>2 DEF Woken, CheckRead, UploadEnds, UploadGone, SignalSelf, TypeOK, Codes
  <2>3. UNCHANGED <<main, sender, c2e, e2c, worker, client, ctx, outcome>>
    BY Zenon, <1>2 DEF Woken, CheckRead, UploadEnds, UploadGone, SignalSelf
  <2> QED BY Zenon, <2>1, <2>2, <2>3 DEF TypeOK
<1>3. CASE Read
  <2>1. /\ 0 \in 0..FrameData
        /\ \A n \in 1..up.credit : n \in 0..FrameData
    BY <1>0 DEF TypeOK
  <2>2. up' \in Uploaders
    BY ZenonT(40), <1>t, <1>3, <2>1 DEF Read, Positions
  <2>3. UNCHANGED <<gate, wake, main, sender, c2e, e2c, worker, client, errs, ctx, outcome>>
    BY Zenon, <1>3 DEF Read
  <2> QED BY <2>2, <2>3 DEF TypeOK
<1>4. ASSUME NEW who \in {"up", "main"}, NEW kind \in {"data", "credit", "cancel"},
             NEW len \in Nat, Publish(who, kind, len)
      PROVE  /\ c2e' \in Seq(Frames)
             /\ sender' \in [holder : {"free", "up", "main"}, seq : 0..(SeqModulus - 1)]
  <2>1. [seq |-> sender.seq, kind |-> kind, len |-> len] \in Frames
    BY Zenon DEF TypeOK, Frames
  <2> QED BY <1>4, <2>1 DEF Publish, TypeOK
<1>5. CASE data
  BY ZenonT(40), <1>0, <1>4, <1>5 DEF data, TypeOK, Positions
<1>6. CASE UnlockData
  BY SMTT(40), <1>6, SuccTyped DEF UnlockData, Unlock, TypeOK, Positions, Succ
<1>7. CASE ReturnCredit
  <2>1. Taken = up.credit - up.n
    BY Zenon, <1>7 DEF ReturnCredit, Taken
  <2>2. gate.credit + (up.credit - up.n) \in 0..InitialUpload
    BY <2>1, Amounts
  <2>3. gate' \in Gates
    BY Zenon, <1>t, <1>7, <2>2 DEF ReturnCredit
  <2>4. up' \in Uploaders
    <3>1. /\ (IF up.n < up.credit THEN "signal" ELSE "check") \in Positions
          /\ 0 \in 0..FrameData
      BY <1>0 DEF Positions
    <3> QED BY Zenon, <1>t, <1>7, <3>1 DEF ReturnCredit
  <2> QED BY <1>7, <2>3, <2>4 DEF ReturnCredit, TypeOK
<1>8. CASE accept
  <2>1. /\ main.pc = "select" /\ e2c # <<>> /\ e2c' = Tail(e2c) /\ e2c \in Seq(Answers)
        /\ UNCHANGED <<up, sender, c2e, worker, client, errs, ctx>>
    BY Zenon, <1>8 DEF accept, TypeOK
  <2>2. Head(e2c) \in Answers /\ e2c' \in Seq(Answers)
    BY <2>1
  <2>6. Head(e2c).len \in 0..FrameData
    BY Zenon, <2>2 DEF Answers
  <2>3. Head(e2c).kind = "credit" => gate.credit + Head(e2c).len \in 0..InitialUpload
    <3>1. Bytes(Tail(e2c), "credit") \in Nat
      BY Zenon, <2>1, FrameLengths, ReceivedBytes
    <3>2. Head(e2c).kind = "credit"
            => Bytes(e2c, "credit") = Head(e2c).len + Bytes(Tail(e2c), "credit")
      BY Zenon, <2>1, FrameLengths, ReceivedBytes
    <3>3. gate.credit + Bytes(e2c, "credit") <= InitialUpload
      BY Amounts
    <3>4. gate.credit \in Nat /\ Head(e2c).len \in Nat /\ InitialUpload \in Nat
      BY <1>0, <2>6
    <3> QED BY <3>1, <3>2, <3>3, <3>4
  <2>4. outcome' \in Codes \cup {"none"}
    BY Zenon, <1>8 DEF accept, Ending, Codes, TypeOK
  <2>5. gate' \in Gates
    BY Zenon, <1>t, <1>8, <2>3 DEF accept, acceptCredit
  <2>7. main' \in Loops
    BY SMTT(40), <1>0, <1>t, <1>8, <2>6 DEF accept, acceptCredit, ToPublish, Places
  <2>8. wake' = wake
    BY Zenon, <1>8 DEF accept, acceptCredit
  <2> QED BY Zenon, <2>1, <2>2, <2>4, <2>5, <2>7, <2>8 DEF TypeOK
<1>9. CASE SignalUploader \/ streamLost \/ close \/ Gone
  <2>1. gate' \in Gates /\ main' \in Loops
    BY Zenon, <1>t, <1>9 DEF SignalUploader, streamLost, close, Gone, Places
  <2>2. wake' \in BOOLEAN /\ ctx' \in BOOLEAN
    BY Zenon, <1>9 DEF SignalUploader, streamLost, close, Gone, TypeOK
  <2>3. client' \in {"open", "ended", "failed"} /\ outcome' \in Codes \cup {"none"}
    BY Zenon, <1>9 DEF SignalUploader, streamLost, close, Gone, Ending, TypeOK, Codes
  <2>4. UNCHANGED <<up, sender, c2e, e2c, worker, errs>>
    BY Zenon, <1>9 DEF SignalUploader, streamLost, close, Gone
  <2> QED BY Zenon, <2>1, <2>2, <2>3, <2>4 DEF TypeOK
<1>10. CASE Interrupted \/ UploadFailed
  BY <1>0, <1>10 DEF Interrupted, UploadFailed, Ending, ToPublish, TypeOK, Places, Codes
<1>11. CASE PublishMain
  <2>1. main.kind \in {"data", "credit", "cancel"} /\ main.len \in Nat
    BY <1>11 DEF PublishMain, TypeOK, HasFrame
  <2> QED BY SMTT(40), <1>4, <1>11, <2>1 DEF PublishMain, TypeOK, Places
<1>12. CASE UnlockMain
  BY <1>0, <1>12, SuccTyped DEF UnlockMain, Unlock, TypeOK, Places, Succ
<1>13. CASE WorkerTakes
  <2>1. c2e # <<>> /\ c2e \in Seq(Frames) /\ c2e' = Tail(c2e)
    BY Zenon, <1>13 DEF WorkerTakes, TypeOK
  <2>2. Head(c2e) \in Frames /\ Head(c2e).len \in Nat /\ c2e' \in Seq(Frames)
    BY <2>1, FrameLengths
  <2>3. /\ Bytes(Tail(c2e), "data") \in Nat /\ Bytes(Tail(c2e), "credit") \in Nat
        /\ Head(c2e).kind = "data"
             => Bytes(c2e, "data") = Head(c2e).len + Bytes(Tail(c2e), "data")
        /\ Head(c2e).kind = "credit"
             => Bytes(c2e, "credit") = Head(c2e).len + Bytes(Tail(c2e), "credit")
    BY Zenon, <2>1, FrameLengths, ReceivedBytes
  <2>8. /\ worker.held + Bytes(c2e, "data") <= InitialUpload
        /\ worker.credit + Bytes(c2e, "credit") <= InitialDownload
    BY Amounts
  <2>4. Head(c2e).kind = "data" => worker.held + Head(c2e).len \in 0..InitialUpload
    <3>1. ASSUME Head(c2e).kind = "data"
          PROVE  worker.held + (Head(c2e).len + Bytes(Tail(c2e), "data")) <= InitialUpload
      BY Zenon, <2>3, <2>8, <3>1
    <3> QED BY <1>0, <2>2, <2>3, <3>1
  <2>5. Head(c2e).kind = "credit" => worker.credit + Head(c2e).len \in 0..InitialDownload
    <3>1. ASSUME Head(c2e).kind = "credit"
          PROVE  worker.credit + (Head(c2e).len + Bytes(Tail(c2e), "credit")) <= InitialDownload
      BY Zenon, <2>3, <2>8, <3>1
    <3> QED BY SMTT(40), <1>0, <2>2, <2>3, <3>1
  <2>6. /\ worker.held + 0 \in 0..InitialUpload /\ worker.credit + 0 \in 0..InitialDownload
        /\ (worker.expected + 1) % SeqModulus \in 0..(SeqModulus - 1)
    BY SMTT(40), <1>0, SuccTyped DEF TypeOK, Succ
  <2>7. worker' \in [expected : 0..(SeqModulus - 1), held : 0..InitialUpload,
                     credit : 0..InitialDownload, open : BOOLEAN, broken : BOOLEAN]
    BY Zenon, <1>13, <2>4, <2>5, <2>6 DEF WorkerTakes, TypeOK
  <2> QED BY <1>13, <2>2, <2>7 DEF WorkerTakes, TypeOK
<1>14. CASE WorkerCredits
  <2>1. PICK n \in 1..Lesser(worker.held, FrameData) :
          /\ worker' = [worker EXCEPT !.held = @ - n]
          /\ e2c' = Append(e2c, [kind |-> "credit", len |-> n])
    BY Zenon, <1>14 DEF WorkerCredits
  <2>2. n \in 0..FrameData /\ worker.held - n \in 0..InitialUpload
    BY <1>0, <2>1 DEF Lesser, TypeOK
  <2>3. [kind |-> "credit", len |-> n] \in Answers
    BY Zenon, <2>2 DEF Answers
  <2>4. worker' \in Workers
    BY Zenon, <1>t, <2>1, <2>2
  <2>5. e2c' \in Seq(Answers)
    BY <2>1, <2>3 DEF TypeOK
  <2> QED BY <1>14, <2>4, <2>5 DEF WorkerCredits, TypeOK
<1>15. CASE WorkerSends
  <2>1. PICK n \in 1..Lesser(worker.credit, FrameData) :
          /\ worker' = [worker EXCEPT !.credit = @ - n]
          /\ e2c' = Append(e2c, [kind |-> "data", len |-> n])
    BY Zenon, <1>15 DEF WorkerSends
  <2>2. n \in 0..FrameData /\ worker.credit - n \in 0..InitialDownload
    BY SMTT(40), <1>0, <2>1 DEF Lesser, TypeOK
  <2>3. [kind |-> "data", len |-> n] \in Answers
    BY Zenon, <2>2 DEF Answers
  <2>4. worker' \in Workers
    BY Zenon, <1>t, <2>1, <2>2
  <2>5. e2c' \in Seq(Answers)
    BY <2>1, <2>3 DEF TypeOK
  <2> QED BY <1>15, <2>4, <2>5 DEF WorkerSends, TypeOK
<1>16. CASE WorkerEnds
  <2>1. [kind |-> "end", len |-> 0] \in Answers
    BY <1>0 DEF Answers
  <2>2. worker' \in Workers
    BY Zenon, <1>t, <1>16 DEF WorkerEnds
  <2>3. e2c' \in Seq(Answers)
    BY <1>16, <2>1 DEF WorkerEnds, TypeOK
  <2> QED BY <1>16, <2>2, <2>3 DEF WorkerEnds, TypeOK
<1>17. CASE ClientEnds \/ CancelRequest \/ UNCHANGED vars
  BY ZenonT(40), <1>17 DEF ClientEnds, CancelRequest, vars, TypeOK
<1> QED
  BY Zenon, <1>1, <1>2, <1>3, <1>5, <1>6, <1>7, <1>8, <1>9, <1>10, <1>11, <1>12, <1>13, <1>14, <1>15,
     <1>16, <1>17 DEF Next, Uploading, Selecting, Working

LEMMA NextIInv == IInv /\ [Next]_vars => IInv'
<1> SUFFICES ASSUME IInv, [Next]_vars PROVE IInv'
  BY Zenon
<1>1. TypeOK /\ MutexHeld /\ Chained /\ InHand /\ HasFrame /\ SequenceUnbroken
  BY Zenon DEF IInv
<1>2. MutexHeld' /\ InHand' /\ HasFrame'
  BY Zenon, <1>1, PlacesKept
<1>3. Chained' /\ SequenceUnbroken'
  BY Zenon, <1>1, SequenceKept
<1> QED BY Zenon, <1>2, <1>3, CreditKept, TypesKept DEF IInv

LEMMA Invariant == Spec => []IInv
BY InitIInv, NextIInv, PTL DEF Spec

-----------------------------------------------------------------------------
(* The theorems.                                                           *)

\* Every value a tunnel's goroutines hold stays within its type, however long client and
\* upstream talk: the uploader takes at most a frame's worth of credit, and neither credit
\* outgrows the one its stream began with.
THEOREM TypeCorrect == Spec => []TypeOK
BY Invariant, PTL DEF IInv

\* tunnelUploadGate and the two goroutines together neither lose nor invent upload credit.
THEOREM UploadCredit == Spec => []UploadCreditConserved
BY Invariant, PTL DEF IInv

\* Nor do acceptData's credit frames ever make more of the download credit.
THEOREM DownloadCredit == Spec => []DownloadCreditBounded
BY Invariant, PTL DEF IInv

\* The mutex of c2eStreamSender, held from a frame's publication to the increment of seq,
\* keeps the sequence of both goroutines' frames unbroken at the worker.
THEOREM SequenceKeptWhole == Spec => []SequenceUnbroken
BY Invariant, PTL DEF IInv

\* The one-place wake channel of tunnelUploadGate is enough: takeMax reads the gate and goes
\* to sleep in one mutex section, and whoever changes the gate signals afterwards.
THEOREM WakeupKept == Spec => []NoLostWakeup
<1>1. Init => NoLostWakeup
  BY DEF Init, NoLostWakeup
<1>2. TypeOK /\ NoLostWakeup /\ [Next]_vars => NoLostWakeup'
  <2> SUFFICES ASSUME TypeOK, NoLostWakeup, [Next]_vars PROVE NoLostWakeup'
    BY Zenon
  <2>0. up.pc \in Positions /\ gate.credit \in Nat
    BY CreditAssumption DEF TypeOK
  <2>1. CASE takeMax
    <3>1. CASE up'.pc # "wait"
      BY Zenon, <3>1 DEF NoLostWakeup
    <3>2. CASE up'.pc = "wait"
      <4>1. ~gate.closed /\ gate.credit = 0 /\ gate' = gate
        BY Zenon, <2>1, <3>2 DEF takeMax, TypeOK
      <4> QED BY <4>1 DEF NoLostWakeup
    <3> QED BY Zenon, <3>1, <3>2
  <2>2. CASE Woken \/ CheckRead \/ UploadEnds \/ UploadGone \/ SignalSelf \/ Read \/ data
             \/ UnlockData \/ ReturnCredit
    <3>1. up'.pc # "wait"
      BY ZenonT(40), <2>2 DEF Woken, CheckRead, UploadEnds, UploadGone, SignalSelf, Read, data, UnlockData,
         ReturnCredit, TypeOK
    <3> QED BY Zenon, <3>1 DEF NoLostWakeup
  <2>3. CASE accept
    <3>1. up' = up /\ main.pc = "select" /\ wake' = wake
      BY Zenon, <2>3 DEF accept, acceptCredit
    <3>2. main'.pc = "signal" \/ gate' = gate
      BY Zenon, <2>3 DEF accept, acceptCredit, TypeOK
    <3> QED BY Zenon, <3>1, <3>2 DEF NoLostWakeup
  <2>4. CASE SignalUploader \/ Gone
    BY Zenon, <2>4 DEF SignalUploader, Gone, NoLostWakeup
  <2>5. CASE Interrupted \/ UploadFailed \/ streamLost \/ PublishMain \/ UnlockMain
    <3>1. /\ UNCHANGED <<up, gate, wake>> /\ main.pc \notin {"signal", "closed"}
      BY Zenon, <2>5 DEF Interrupted, UploadFailed, streamLost, PublishMain, UnlockMain
    <3> QED BY Zenon, <3>1 DEF NoLostWakeup
  <2>6. CASE close
    BY Zenon, <2>6 DEF close, NoLostWakeup, TypeOK
  <2>7. CASE Working \/ ClientEnds \/ CancelRequest \/ UNCHANGED vars
    <3>1. UNCHANGED <<up, gate, wake, main>>
      BY Zenon, <2>7 DEF Working, WorkerTakes, WorkerCredits, WorkerSends, WorkerEnds, ClientEnds,
         CancelRequest, vars
    <3> QED BY Zenon, <3>1 DEF NoLostWakeup
  <2> QED BY Zenon, <2>1, <2>2, <2>3, <2>4, <2>5, <2>6, <2>7 DEF Next, Uploading, Selecting
<1> QED BY <1>1, <1>2, TypeCorrect, PTL DEF Spec
=============================================================================
