--------------------------- MODULE DispatchProofs ---------------------------
(***************************************************************************)
(* Proofs about Dispatch and DispatchRefinement, for any number of         *)
(* requests and workers and any codes a worker may send.                   *)
(*                                                                         *)
(* SingleStart is not inductive: the fallback looks at an error code, so   *)
(* the invariant has to say which codes can stand in perr after a          *)
(* RequestStart has been published (none that canFallbackBeforeRequestStart *)
(* accepts), and where the current attempt is.                             *)
(***************************************************************************)
EXTENDS DispatchRefinement, TLAPS

\* An active request is in one of its two attempts and that attempt has a worker.
Placed ==
    \A r \in Requests :
        Active(r) => attempt[r] \in Attempts /\ Current(r) \in Workers

BeforeStart == {"idle", "assigning", "waiting", "accepted"}

\* Nothing is started before the acceptance, and nothing was started by an attempt
\* whose code allows a fallback.
NothingStarted ==
    \A r \in Requests :
        /\ phase[r] \in BeforeStart => starts[r] = {}
        /\ phase[r] = "returned" /\ canFallbackBeforeRequestStart(perr[r][attempt[r]])
             => starts[r] = {}

\* What is started is the current attempt, at a worker that accepted it.
StartedAccepted ==
    \A r \in Requests :
        /\ phase[r] = "accepted" => admit[r][Current(r)] = "ACCEPTED"
        /\ \A w \in starts[r] : w = Current(r) /\ admit[r][w] = "ACCEPTED"

IInv == TypeOK /\ Placed /\ NothingStarted /\ StartedAccepted

-----------------------------------------------------------------------------

\* Codes stay within the registry whatever a worker sends.
LEMMA CodesRegistered ==
    /\ routeError \subseteq ErrorRegistry
    /\ validationPipelineError \subseteq ErrorRegistry
    /\ \A code : ValidateExecutorError(code) \in ErrorRegistry
    /\ \A answer : assignRejectError(answer) \in ErrorRegistry
    /\ \A code : ~canFallbackBeforeRequestStart(ValidateExecutorError(code))
BY Zenon DEF routeError, validationPipelineError, ValidateExecutorError, assignRejectError,
       ErrorRegistry, executorEmittableCodes, canFallbackBeforeRequestStart

\* What Return leaves: a typed phase and a typed perr, changed only at r.
LEMMA ReturnTyped ==
    ASSUME TypeOK,
           NEW r \in Requests, attempt[r] \in Attempts,
           NEW code \in ErrorRegistry \union {"OK"},
           Return(r, code)
    PROVE  /\ phase' \in [Requests -> Phases]
           /\ perr' \in [Requests -> [Attempts -> ErrorRegistry \union {"none", "OK"}]]
           /\ phase'[r] = "returned"
           /\ perr'[r][attempt[r]] = code
           /\ \A q \in Requests \ {r} : phase'[q] = phase[q] /\ perr'[q] = perr[q]
BY Zenon DEF TypeOK, Return, Phases

LEMMA InitIInv == Init => IInv
BY DEF Init, IInv, TypeOK, Placed, NothingStarted, StartedAccepted, Active, Phases,
       Attempts, Answers, Writes, BeforeStart

\* An attempt that returns keeps the invariant, provided its code does not allow a
\* fallback or nothing was started.
LEMMA ReturnKeeps ==
    ASSUME IInv,
           NEW r \in Requests, attempt[r] \in Attempts, Current(r) \in Workers,
           NEW code \in ErrorRegistry \union {"OK"},
           Return(r, code),
           UNCHANGED <<attempt, worker, admit>>,
           \/ starts' = starts
           \/ /\ starts' = [starts EXCEPT ![r] = @ \union {Current(r)}]
              /\ admit[r][Current(r)] = "ACCEPTED",
           ~canFallbackBeforeRequestStart(code) \/ starts'[r] = {}
    PROVE  /\ phase' \in [Requests -> Phases]
           /\ perr' \in [Requests -> [Attempts -> ErrorRegistry \union {"none", "OK"}]]
           /\ starts' \in [Requests -> SUBSET Workers]
           /\ Placed' /\ NothingStarted' /\ StartedAccepted'
<1> USE DEF IInv
<1>1. /\ phase' \in [Requests -> Phases]
      /\ perr' \in [Requests -> [Attempts -> ErrorRegistry \union {"none", "OK"}]]
      /\ phase'[r] = "returned"
      /\ perr'[r][attempt[r]] = code
      /\ \A q \in Requests \ {r} : phase'[q] = phase[q] /\ perr'[q] = perr[q]
  BY Zenon, ReturnTyped
<1>2. /\ starts' \in [Requests -> SUBSET Workers]
      /\ \A q \in Requests \ {r} : starts'[q] = starts[q]
      /\ \A w \in starts'[r] : w = Current(r) /\ admit[r][w] = "ACCEPTED"
  <2>1. starts \in [Requests -> SUBSET Workers] /\ Current(r) \in Workers
    BY Zenon DEF TypeOK
  <2>2. \A w \in starts[r] : w = Current(r) /\ admit[r][w] = "ACCEPTED"
    BY Zenon DEF StartedAccepted
  <2>3. CASE starts' = starts
    BY Zenon, <2>1, <2>2, <2>3
  <2>4. CASE /\ starts' = [starts EXCEPT ![r] = @ \union {Current(r)}]
             /\ admit[r][Current(r)] = "ACCEPTED"
    BY Zenon, <2>1, <2>2, <2>4
  <2> QED BY Zenon, <2>3, <2>4
<1>3. Placed'
  BY Zenon, <1>1 DEF Placed, Active, Current
<1>4. NothingStarted'
  BY Zenon, <1>1, <1>2 DEF NothingStarted, BeforeStart
<1>5. StartedAccepted'
  BY <1>1, <1>2 DEF StartedAccepted, Current
<1> QED BY Zenon, <1>1, <1>2, <1>3, <1>4, <1>5

\* The select loop of a response stream only ever returns codes that do not allow a
\* fallback.
LEMMA StreamKeeps ==
    ASSUME IInv, NEW r \in Requests, Stream(r)
    PROVE  IInv'
<1>0. /\ phase[r] = "streaming"
      /\ attempt[r] \in Attempts
      /\ Current(r) \in Workers
  BY Zenon DEF Stream, Selecting, CtxDone, Deadline, Tick, UploadFailed, BadFrame, ResponseStart, DataRefused,
         ErrorFrame, CancelledFrame, EndFrame, WriteData, Written, WriteFailed, IInv, Placed, Active
<1>1. /\ UNCHANGED <<mode, attempt, worker, outcome, ctxDone, expired, inflight, admit, starts>>
      /\ headSent' \in [Requests -> BOOLEAN]
      /\ writing' \in [Requests -> Writes]
      /\ terminal' \in [Requests -> BOOLEAN]
      /\ cancels' \in [Requests -> SUBSET Workers]
      /\ charges' \in [Requests -> [Attempts -> Nat]]
  <2>1. UNCHANGED <<mode, attempt, worker, outcome, ctxDone, expired, inflight, admit, starts>>
    BY Zenon DEF Stream, Selecting, CtxDone, Deadline, Tick, UploadFailed, BadFrame, ResponseStart,
           DataRefused, ErrorFrame, CancelledFrame, EndFrame, WriteData, Written, WriteFailed, StreamUnchanged
  <2>2. /\ headSent' = headSent \/ headSent' = [headSent EXCEPT ![r] = TRUE]
        /\ writing' = writing \/ \E x \in Writes : writing' = [writing EXCEPT ![r] = x]
    BY Zenon DEF Stream, Selecting, CtxDone, Deadline, Tick, UploadFailed, BadFrame, ResponseStart,
           DataRefused, ErrorFrame, CancelledFrame, EndFrame, WriteData, Written, WriteFailed, Writes
  <2>3. terminal' = terminal \/ terminal' = [terminal EXCEPT ![r] = TRUE]
    BY Zenon DEF Stream, Selecting, CtxDone, Deadline, Tick, UploadFailed, BadFrame, ResponseStart,
           DataRefused, ErrorFrame, CancelledFrame, EndFrame, WriteData, Written, WriteFailed
  <2>4. cancels' = cancels \/ sendCancel(r)
    BY Zenon DEF Stream, Selecting, CtxDone, Deadline, Tick, UploadFailed, BadFrame, ResponseStart,
           DataRefused, ErrorFrame, CancelledFrame, EndFrame, WriteData, Written, WriteFailed
  <2>5. charges' = charges \/ routeFailure(r)
    BY Zenon DEF Stream, Selecting, CtxDone, Deadline, Tick, UploadFailed, BadFrame, ResponseStart,
           DataRefused, ErrorFrame, CancelledFrame, EndFrame, WriteData, Written, WriteFailed
  <2>6. /\ headSent' \in [Requests -> BOOLEAN] /\ terminal' \in [Requests -> BOOLEAN]
        /\ writing' \in [Requests -> Writes]
    BY Zenon, <2>2, <2>3 DEF IInv, TypeOK
  <2>7. cancels' \in [Requests -> SUBSET Workers]
    <3>1. cancels \in [Requests -> SUBSET Workers]
      BY Zenon DEF IInv, TypeOK
    <3> QED BY <1>0, <2>4, <3>1 DEF sendCancel
  <2>8. charges' \in [Requests -> [Attempts -> Nat]]
    <3>1. /\ charges \in [Requests -> [Attempts -> Nat]]
          /\ charges[r][attempt[r]] + 1 \in Nat
      BY <1>0 DEF IInv, TypeOK
    <3> QED BY Zenon, <2>5, <1>0, <3>1 DEF routeFailure
  <2> QED BY Zenon, <2>1, <2>6, <2>7, <2>8
<1>2. \/ UNCHANGED <<phase, perr>>
      \/ \E code \in ErrorRegistry \union {"OK"} :
            Return(r, code) /\ ~canFallbackBeforeRequestStart(code)
  BY CodesRegistered DEF Stream, Selecting, CtxDone, Deadline, Tick, UploadFailed, BadFrame,
         ResponseStart, DataRefused, ErrorFrame, CancelledFrame, EndFrame, WriteData, Written, WriteFailed,
         ErrorRegistry, executorEmittableCodes, canFallbackBeforeRequestStart
<1>3. CASE UNCHANGED <<phase, perr>>
  BY Zenon, <1>1, <1>3 DEF IInv, TypeOK, Placed, NothingStarted, StartedAccepted, Active, Current
<1>4. ASSUME NEW code \in ErrorRegistry \union {"OK"}, Return(r, code),
             ~canFallbackBeforeRequestStart(code)
      PROVE  IInv'
  <2>1. Placed' /\ NothingStarted' /\ StartedAccepted'
        /\ phase' \in [Requests -> Phases]
        /\ perr' \in [Requests -> [Attempts -> ErrorRegistry \union {"none", "OK"}]]
    BY Zenon, <1>0, <1>1, <1>4, ReturnKeeps
  <2> QED BY Zenon, <1>1, <2>1 DEF IInv, TypeOK
<1> QED BY Zenon, <1>2, <1>3, <1>4

\* One step of the dispatcher keeps the invariant.
LEMMA NextIInv == IInv /\ [Next]_vars => IInv'
<1> SUFFICES ASSUME IInv, [Next]_vars PROVE IInv'
  BY Zenon
<1> USE DEF IInv
<1>1. CASE UNCHANGED vars
  BY Zenon, <1>1 DEF vars, TypeOK, Placed, NothingStarted, StartedAccepted, Active, Current
<1>2. ASSUME NEW r \in Requests, NEW w \in Workers, Begin(r, w)
      PROVE  IInv'
  <2>1. starts[r] = {}
    BY Zenon, <1>2 DEF Begin, NothingStarted, BeforeStart
  <2>2. ctxDone' \in [Requests -> BOOLEAN]
    BY Zenon, <1>2 DEF Begin, TypeOK
  <2>3. TypeOK'
    BY <1>2, <2>2 DEF Begin, TypeOK, Phases, Attempts
  <2>4. Placed'
    BY <1>2 DEF Begin, Placed, TypeOK, Active, Current, Attempts
  <2>5. NothingStarted'
    BY Zenon, <1>2, <2>1 DEF Begin, NothingStarted, TypeOK, BeforeStart
  <2>6. StartedAccepted'
    BY <1>2, <2>1 DEF Begin, StartedAccepted, TypeOK, Current
  <2> QED BY Zenon, <2>3, <2>4, <2>5, <2>6
<1>3. ASSUME NEW r \in Requests, NEW w \in Workers, Fallback(r, w)
      PROVE  IInv'
  <2>1. starts[r] = {} /\ attempt[r] = 1
    BY Zenon, <1>3 DEF Fallback, CanRetry, NothingStarted
  <2>2. TypeOK'
    BY <1>3, <2>1 DEF Fallback, routeFailure, TypeOK, Phases, Attempts
  <2>3. Placed'
    BY <1>3 DEF Fallback, Placed, TypeOK, Active, Current, Attempts
  <2>4. NothingStarted'
    BY Zenon, <1>3, <2>1 DEF Fallback, NothingStarted, TypeOK, BeforeStart
  <2>5. StartedAccepted'
    BY <1>3, <2>1 DEF Fallback, StartedAccepted, TypeOK, Current
  <2> QED BY Zenon, <2>2, <2>3, <2>4, <2>5
<1>4. ASSUME NEW r \in Requests, NEW code \in routeError \union validationPipelineError,
             Refuse(r, code)
      PROVE  IInv'
  BY <1>4, CodesRegistered DEF Refuse, TypeOK, Placed, NothingStarted, StartedAccepted,
     Active, Current, Phases, BeforeStart
<1>5. ASSUME NEW r \in Requests, AssignRefused(r)
      PROVE  IInv'
  <2>1. PICK code \in ErrorRegistry : Return(r, code)
    BY Zenon, <1>5 DEF AssignRefused, ErrorRegistry
  <2>2. starts[r] = {} /\ attempt[r] \in Attempts /\ Current(r) \in Workers
    BY Zenon, <1>5 DEF AssignRefused, NothingStarted, BeforeStart, Placed, Active
  <2> QED BY Zenon, <1>5, <2>1, <2>2, ReturnKeeps DEF AssignRefused, TypeOK
<1>6. ASSUME NEW r \in Requests, requestAssign(r)
      PROVE  IInv'
  <2>1. starts[r] = {} /\ Current(r) \in Workers
    BY Zenon, <1>6 DEF requestAssign, NothingStarted, BeforeStart, Placed, Active
  <2>2. TypeOK'
    BY Zenon, <1>6, <2>1 DEF requestAssign, TypeOK, Phases, Answers
  <2>3. Placed' /\ NothingStarted'
    BY Zenon, <1>6, <2>1 DEF requestAssign, Placed, NothingStarted, TypeOK, Active, Current, BeforeStart
  <2>4. StartedAccepted'
    BY Zenon, <1>6, <2>1 DEF requestAssign, StartedAccepted, TypeOK, Current
  <2> QED BY Zenon, <2>2, <2>3, <2>4
<1>7. ASSUME NEW r \in Requests, AckReceived(r)
      PROVE  IInv'
  <2>1. starts[r] = {} /\ attempt[r] \in Attempts /\ Current(r) \in Workers
    BY Zenon, <1>7 DEF AckReceived, NothingStarted, BeforeStart, Placed, Active
  <2>2. CASE admit[r][Current(r)] = "ACCEPTED"
    <3>1. phase' = [phase EXCEPT ![r] = "accepted"] /\ UNCHANGED perr
      BY Zenon, <1>7, <2>2 DEF AckReceived
    <3>2. TypeOK'
      BY Zenon, <1>7, <3>1 DEF AckReceived, TypeOK, Phases
    <3>3. Placed' /\ NothingStarted'
      BY Zenon, <1>7, <2>1, <3>1 DEF AckReceived, Placed, NothingStarted, TypeOK, Active, Current
    <3>4. StartedAccepted'
      BY Zenon, <1>7, <2>2, <3>1 DEF AckReceived, StartedAccepted, TypeOK, Current
    <3> QED BY Zenon, <3>2, <3>3, <3>4
  <2>3. CASE admit[r][Current(r)] # "ACCEPTED"
    <3>1. PICK code \in ErrorRegistry : Return(r, code)
      BY Zenon, <1>7, <2>3, CodesRegistered DEF AckReceived
    <3> QED BY Zenon, <1>7, <2>1, <3>1, ReturnKeeps DEF AckReceived, TypeOK
  <2> QED BY Zenon, <2>2, <2>3
<1>8. ASSUME NEW r \in Requests, AckMissed(r)
      PROVE  IInv'
  <2>1. PICK code \in ErrorRegistry : Return(r, code)
    BY Zenon, <1>8 DEF AckMissed, ErrorRegistry
  <2>2. starts[r] = {} /\ attempt[r] \in Attempts /\ Current(r) \in Workers
    BY Zenon, <1>8 DEF AckMissed, NothingStarted, BeforeStart, Placed, Active
  <2> QED BY Zenon, <1>8, <2>1, <2>2, ReturnKeeps DEF AckMissed, TypeOK
<1>9. ASSUME NEW r \in Requests, NEW w \in Workers, NEW answer \in Answers,
             WorkerAnswers(r, w, answer)
      PROVE  IInv'
  BY <1>9 DEF WorkerAnswers, TypeOK, Placed, NothingStarted, StartedAccepted, Active, Current
<1>10. ASSUME NEW r \in Requests, sendRequestStart(r)
       PROVE  IInv'
  <2>1. /\ starts[r] = {} /\ attempt[r] \in Attempts /\ Current(r) \in Workers
        /\ admit[r][Current(r)] = "ACCEPTED"
    BY Zenon, <1>10 DEF sendRequestStart, NothingStarted, BeforeStart, Placed, Active, StartedAccepted
  <2>2. ASSUME NEW code \in {"TransportUnavailable", "BodyRefUnavailable", "ControlInternalError"},
               Return(r, code)
        PROVE  IInv'
    <3>1. code \in ErrorRegistry /\ ~canFallbackBeforeRequestStart(code)
      BY Zenon DEF ErrorRegistry, executorEmittableCodes, canFallbackBeforeRequestStart
    <3> QED BY Zenon, <1>10, <2>1, <2>2, <3>1, ReturnKeeps DEF sendRequestStart, TypeOK
  <2>3. ASSUME starts' = [starts EXCEPT ![r] = @ \union {Current(r)}],
               phase' = [phase EXCEPT ![r] = "streaming"], UNCHANGED perr
        PROVE  IInv'
    <3>1. TypeOK'
      BY Zenon, <1>10, <2>1, <2>3 DEF sendRequestStart, TypeOK, Phases
    <3>2. Placed' /\ NothingStarted'
      BY Zenon, <1>10, <2>1, <2>3 DEF sendRequestStart, Placed, NothingStarted, TypeOK, Active,
         Current, BeforeStart
    <3>3. StartedAccepted'
      BY <1>10, <2>1, <2>3 DEF sendRequestStart, StartedAccepted, TypeOK, Current
    <3> QED BY Zenon, <3>1, <3>2, <3>3
  <2> QED BY Zenon, <1>10, <2>2, <2>3 DEF sendRequestStart
<1>11. ASSUME NEW r \in Requests, Stream(r)
       PROVE  IInv'
  BY Zenon, <1>11, StreamKeeps
<1>12. ASSUME NEW r \in Requests, NoFallback(r)
       PROVE  IInv'
  <2>1. PICK code \in {perr[r][1]} \union validationPipelineError : Done(r, code)
    BY Zenon, <1>12 DEF NoFallback
  <2>2. code \in ErrorRegistry \union {"none", "OK"}
    BY <2>1, CodesRegistered DEF TypeOK, Attempts
  <2>3. attempt[r] = 1
    BY Zenon, <1>12 DEF NoFallback, CanRetry
  <2>4. TypeOK'
    BY <1>12, <2>1, <2>2, <2>3 DEF NoFallback, Done, routeFailure, TypeOK, Phases, Attempts
  <2>5. Placed' /\ NothingStarted' /\ StartedAccepted'
    BY SMTT(40), <1>12, <2>1 DEF NoFallback, Done, Placed, NothingStarted, StartedAccepted, TypeOK,
       Active, Current, BeforeStart
  <2> QED BY Zenon, <2>4, <2>5
<1>13. ASSUME NEW r \in Requests, Finish(r)
       PROVE  IInv'
  <2>1. attempt[r] \in Attempts
    BY Zenon, <1>13 DEF Finish, Placed, Active
  <2>2. TypeOK'
    BY <1>13, <2>1 DEF Finish, Done, TypeOK, Phases
  <2>3. Placed' /\ NothingStarted' /\ StartedAccepted'
    BY <1>13 DEF Finish, Done, Placed, NothingStarted, StartedAccepted, TypeOK,
       Active, Current, BeforeStart
  <2> QED BY Zenon, <2>2, <2>3
<1>14. ASSUME NEW r \in Requests, CancelLocal(r) \/ ClientGone(r) \/ DeadlinePasses(r)
       PROVE  IInv'
  <2>1. ctxDone' \in [Requests -> BOOLEAN] /\ expired' \in [Requests -> BOOLEAN]
    BY Zenon, <1>14 DEF CancelLocal, ClientGone, DeadlinePasses, TypeOK
  <2>2. UNCHANGED <<phase, mode, attempt, worker, perr, outcome, inflight, headSent,
                    writing, admit, starts, cancels, terminal, charges>>
    BY Zenon, <1>14 DEF CancelLocal, ClientGone, DeadlinePasses
  <2> QED BY Zenon, <2>1, <2>2 DEF TypeOK, Placed, NothingStarted, StartedAccepted, Active, Current
<1> QED
  BY Zenon, <1>1, <1>2, <1>3, <1>4, <1>5, <1>6, <1>7, <1>8, <1>9, <1>10, <1>11, <1>12, <1>13, <1>14
     DEF Next

\* Every variable of the dispatcher keeps its type; in particular whatever code a
\* worker puts into an ErrorFrame, the client is only told registered codes.
THEOREM TypeCorrect == Spec => []TypeOK
<1>1. IInv => TypeOK
  BY Zenon DEF IInv
<1> QED BY InitIInv, NextIInv, <1>1, PTL DEF Spec

\* No replay: RequestStart of a request reaches at most one worker, one that accepted.
THEOREM NoReplay == Spec => []SingleStart
<1>1. IInv => SingleStart
  BY Zenon DEF IInv, StartedAccepted, SingleStart
<1> QED BY InitIInv, NextIInv, <1>1, PTL DEF Spec

-----------------------------------------------------------------------------
(* Charges, cancellations and the lifecycle of an attempt                  *)

\* What one request does in a step.
Step(r) ==
    \/ \E w \in Workers : Begin(r, w) \/ Fallback(r, w)
    \/ \E code \in routeError \union validationPipelineError : Refuse(r, code)
    \/ AssignRefused(r) \/ requestAssign(r) \/ AckReceived(r) \/ AckMissed(r)
    \/ \E w \in Workers, answer \in Answers : WorkerAnswers(r, w, answer)
    \/ sendRequestStart(r) \/ Stream(r)
    \/ NoFallback(r) \/ Finish(r)
    \/ CancelLocal(r) \/ ClientGone(r) \/ DeadlinePasses(r)

\* The part of a request's state that the predicates below speak of.
Local(r) == <<phase[r], mode[r], attempt[r], worker[r], perr[r], outcome[r], headSent[r],
              writing[r], starts[r], cancels[r], terminal[r], charges[r]>>

BeforeReturn == BeforeStart \union {"streaming"}
AbortCodes == {"Cancelled", "TimeoutExceeded"}

\* An attempt is charged when it returns or when it is given up for another one,
\* never both: what the stream charges returns a code that allows no fallback.
ChargedAt(r) ==
    /\ \A k \in Attempts : charges[r][k] <= 1 /\ (k > attempt[r] => charges[r][k] = 0)
    /\ phase[r] \in BeforeReturn =>
         \A k \in Attempts : k = attempt[r] => charges[r][k] = 0
    /\ phase[r] = "returned" /\ canFallbackBeforeRequestStart(perr[r][attempt[r]])
         => charges[r][attempt[r]] = 0

\* The duty to tell the worker arises when the attempt returns, before there is an
\* outcome; from then on nothing of the request but its phase and outcome changes.
Owed(r, code) ==
    /\ code \in AbortCodes /\ ~terminal[r]
    /\ ~(code = "Cancelled" /\ mode[r] = "tunnel" /\ ~headSent[r])

ToldAt(r) ==
    /\ outcome[r] # "none" => phase[r] = "done"
    /\ phase[r] = "returned" /\ Owed(r, perr[r][attempt[r]]) => starts[r] \subseteq cancels[r]
    /\ Owed(r, outcome[r]) => starts[r] \subseteq cancels[r]

\* How far the attempts of a request are.
AttemptsAt(r) ==
    /\ phase[r] = "idle" => attempt[r] = 0
    /\ attempt[r] = 2 => worker[r][1] # worker[r][2]
    /\ phase[r] = "streaming" => Current(r) \in starts[r]
    /\ mode[r] = "rest" => ~headSent[r] /\ writing[r] = "none"
    /\ writing[r] = "head" /\ mode[r] = "tunnel" => ~headSent[r]
    /\ \A k \in Attempts :
         k > attempt[r] \/ (k = attempt[r] /\ phase[r] \in BeforeReturn) => perr[r][k] = "none"

Charged == \A r \in Requests : ChargedAt(r)
Told == \A r \in Requests : ToldAt(r)
AttemptsMade == \A r \in Requests : AttemptsAt(r)

FullInv == IInv /\ Charged /\ Told /\ AttemptsMade

-----------------------------------------------------------------------------

LEMMA NextIsStep == Next <=> \E r \in Requests : Step(r)
BY Zenon DEF Next, Step

\* A step of one request leaves the others alone.
LEMMA StepIsLocal ==
    ASSUME IInv, NEW r \in Requests, Step(r), NEW q \in Requests, q # r
    PROVE  Local(q)' = Local(q)
<1> USE DEF IInv, TypeOK, Local
<1>1. ASSUME NEW w \in Workers, Begin(r, w) \/ Fallback(r, w)
      PROVE  Local(q)' = Local(q)
  BY Zenon, <1>1 DEF Begin, Fallback, routeFailure
<1>2. ASSUME NEW code \in routeError \union validationPipelineError, Refuse(r, code)
      PROVE  Local(q)' = Local(q)
  BY Zenon, <1>2 DEF Refuse
<1>3. CASE AssignRefused(r) \/ requestAssign(r) \/ AckReceived(r) \/ AckMissed(r)
  BY Zenon, <1>3 DEF AssignRefused, requestAssign, AckReceived, AckMissed, Return
<1>4. ASSUME NEW w \in Workers, NEW answer \in Answers, WorkerAnswers(r, w, answer)
      PROVE  Local(q)' = Local(q)
  BY Zenon, <1>4 DEF WorkerAnswers
<1>5. CASE sendRequestStart(r)
  BY Zenon, <1>5 DEF sendRequestStart, Return
<1>6. CASE Stream(r)
  <2>1. CASE CtxDone(r) \/ Deadline(r) \/ Tick(r) \/ UploadFailed(r) \/ BadFrame(r)
    BY Zenon, <2>1 DEF Selecting, CtxDone, Deadline, Tick, UploadFailed, BadFrame, StreamUnchanged, Return,
       sendCancel, routeFailure
  <2>2. CASE DataRefused(r) \/ CancelledFrame(r) \/ EndFrame(r)
    BY Zenon, <2>2 DEF Selecting, DataRefused, CancelledFrame, EndFrame, StreamUnchanged, Return,
       routeFailure
  <2>4. CASE ResponseStart(r) \/ WriteData(r) \/ Written(r)
    BY Zenon, <2>4 DEF ResponseStart, WriteData, Written, StreamUnchanged
  <2>5. CASE WriteFailed(r)
    BY Zenon, <2>5 DEF WriteFailed, StreamUnchanged, Return, sendCancel
  <2>3. ASSUME NEW code \in WireCodes, ErrorFrame(r, code)
        PROVE  Local(q)' = Local(q)
    BY Zenon, <2>3 DEF Selecting, ErrorFrame, StreamUnchanged, Return, routeFailure
  <2> QED BY Zenon, <1>6, <2>1, <2>2, <2>3, <2>4, <2>5 DEF Stream
<1>7. CASE NoFallback(r) \/ Finish(r)
  BY Zenon, <1>7 DEF NoFallback, Finish, Done, routeFailure
<1>8. CASE CancelLocal(r) \/ ClientGone(r) \/ DeadlinePasses(r)
  BY Zenon, <1>8 DEF CancelLocal, ClientGone, DeadlinePasses
<1> QED BY Zenon, <1>1, <1>2, <1>3, <1>4, <1>5, <1>6, <1>7, <1>8 DEF Step

\* The predicates of a request depend on its own state only.
LEMMA LocalPredicates ==
    ASSUME NEW q \in Requests, Local(q)' = Local(q)
    PROVE  /\ ChargedAt(q) => ChargedAt(q)'
           /\ ToldAt(q) => ToldAt(q)'
           /\ AttemptsAt(q) => AttemptsAt(q)'
<1>1. /\ phase'[q] = phase[q] /\ mode'[q] = mode[q] /\ attempt'[q] = attempt[q]
      /\ worker'[q] = worker[q] /\ perr'[q] = perr[q] /\ outcome'[q] = outcome[q]
      /\ headSent'[q] = headSent[q] /\ writing'[q] = writing[q]
      /\ starts'[q] = starts[q] /\ cancels'[q] = cancels[q]
      /\ terminal'[q] = terminal[q] /\ charges'[q] = charges[q]
  BY Zenon DEF Local
<1>2. ChargedAt(q) => ChargedAt(q)'
  BY Zenon, <1>1 DEF ChargedAt
<1>3. ToldAt(q) => ToldAt(q)'
  BY Zenon, <1>1 DEF ToldAt, Owed
<1>4. AttemptsAt(q) => AttemptsAt(q)'
  <2>1. Current(q)' = Current(q)
    BY Zenon, <1>1 DEF Current
  <2> QED BY <1>1, <2>1 DEF AttemptsAt
<1> QED BY Zenon, <1>2, <1>3, <1>4

\* What a write to the client changes, when it begins and when it returns.
WriteStep(r) ==
    \/ /\ UNCHANGED headSent
       /\ \E x \in {"head", "data"} :
            /\ writing' = [writing EXCEPT ![r] = x]
            /\ mode[r] # "rest"
            /\ x = "head" /\ mode[r] = "tunnel" => ~headSent[r]
    \/ /\ writing[r] # "none"
       /\ writing' = [writing EXCEPT ![r] = "none"]
       /\ headSent' = [headSent EXCEPT ![r] = TRUE]

\* What an iteration of the select loop may do: leave the attempt running and write
\* to the client, or end it with a code that allows no fallback; if that
\* code is one of Control's own aborts, the worker is told, has ended the stream
\* itself, or belongs to a tunnel that was not yet established.
LEMMA StreamShape ==
    ASSUME NEW r \in Requests, Stream(r)
    PROVE  /\ phase[r] = "streaming"
           /\ UNCHANGED <<mode, attempt, worker, outcome, starts>>
           /\ \/ /\ UNCHANGED <<phase, perr, terminal, cancels, charges>>
                 /\ WriteStep(r)
              \/ /\ UNCHANGED headSent
                 /\ writing' = writing \/ writing' = [writing EXCEPT ![r] = "none"]
                 /\ terminal' = terminal \/ terminal' = [terminal EXCEPT ![r] = TRUE]
                 /\ cancels' = cancels \/ sendCancel(r)
                 /\ charges' = charges \/ routeFailure(r)
                 /\ \E code \in ErrorRegistry \union {"OK"} :
                      /\ Return(r, code)
                      /\ ~canFallbackBeforeRequestStart(code)
                      /\ code \in AbortCodes =>
                           \/ terminal' = [terminal EXCEPT ![r] = TRUE]
                           \/ sendCancel(r)
                           \/ code = "Cancelled" /\ mode[r] = "tunnel" /\ writing[r] = "head"
<1> DEFINE Ends(code) ==
             /\ Return(r, code)
             /\ ~canFallbackBeforeRequestStart(code)
             /\ code \in AbortCodes =>
                  \/ terminal' = [terminal EXCEPT ![r] = TRUE]
                  \/ sendCancel(r)
                  \/ code = "Cancelled" /\ mode[r] = "tunnel" /\ writing[r] = "head"
<1>0. {"Cancelled", "TimeoutExceeded", "TransportUnavailable", "BodyTooLarge", "ProtocolError",
       "ControlInternalError"} \subseteq ErrorRegistry
  BY Zenon DEF ErrorRegistry, executorEmittableCodes
<1>1. CASE CtxDone(r) \/ Deadline(r) \/ Tick(r) \/ UploadFailed(r) \/ BadFrame(r)
  BY <1>0, <1>1 DEF Selecting, CtxDone, Deadline, Tick, UploadFailed, BadFrame, StreamUnchanged,
     canFallbackBeforeRequestStart, AbortCodes
<1>2. CASE ResponseStart(r) \/ WriteData(r) \/ Written(r)
  BY Zenon, <1>2 DEF Selecting, ResponseStart, WriteData, Written, StreamUnchanged, WriteStep
<1>6. CASE WriteFailed(r)
  BY <1>0, <1>6 DEF WriteFailed, StreamUnchanged, canFallbackBeforeRequestStart, AbortCodes
<1>3. CASE DataRefused(r) \/ CancelledFrame(r) \/ EndFrame(r)
  BY <1>0, <1>3 DEF Selecting, DataRefused, CancelledFrame, EndFrame, StreamUnchanged,
     canFallbackBeforeRequestStart, AbortCodes
<1>4. ASSUME NEW code \in WireCodes, ErrorFrame(r, code)
      PROVE  \E c \in ErrorRegistry \union {"OK"} : Ends(c)
  BY Zenon, <1>4, CodesRegistered DEF ErrorFrame
<1>5. ASSUME NEW code \in WireCodes, ErrorFrame(r, code)
      PROVE  /\ phase[r] = "streaming"
             /\ UNCHANGED <<mode, attempt, worker, outcome, starts, headSent, writing, cancels>>
             /\ terminal' = [terminal EXCEPT ![r] = TRUE]
             /\ charges' = charges \/ routeFailure(r)
  BY Zenon, <1>5 DEF Selecting, ErrorFrame, StreamUnchanged
<1> QED BY Zenon, <1>1, <1>2, <1>3, <1>4, <1>5, <1>6 DEF Stream

\* An attempt that returns from Assignment or from sendRequestStart was not charged
\* and owes its worker nothing: its code is none of Control's own aborts.
LEMMA EarlyReturn ==
    ASSUME FullInv, NEW r \in Requests,
           phase[r] \in {"assigning", "waiting", "accepted"},
           NEW code \in ErrorRegistry, code \notin AbortCodes, Return(r, code),
           UNCHANGED <<mode, attempt, worker, outcome, headSent, writing, cancels, terminal, charges>>
    PROVE  ChargedAt(r)' /\ ToldAt(r)' /\ AttemptsAt(r)'
<1>1. attempt[r] \in Attempts
  BY Zenon DEF FullInv, IInv, Placed, Active
<1>2. /\ phase'[r] = "returned"
      /\ perr'[r][attempt[r]] = code
      /\ \A k \in Attempts : k # attempt[r] => perr'[r][k] = perr[r][k]
  BY Zenon, <1>1 DEF Return, FullInv, IInv, TypeOK
<1>3. ChargedAt(r)'
  BY Zenon, <1>1, <1>2 DEF FullInv, Charged, ChargedAt, BeforeReturn, BeforeStart
<1>4. ToldAt(r)'
  BY Zenon, <1>1, <1>2 DEF FullInv, Told, ToldAt, Owed, AbortCodes
<1>5. AttemptsAt(r)'
  BY <1>1, <1>2 DEF FullInv, AttemptsMade, AttemptsAt, BeforeReturn, BeforeStart, Attempts
<1> QED BY Zenon, <1>3, <1>4, <1>5

\* A step of a request keeps its own predicates.
LEMMA StepFull ==
    ASSUME FullInv, NEW r \in Requests, Step(r)
    PROVE  ChargedAt(r)' /\ ToldAt(r)' /\ AttemptsAt(r)'
<1>0. /\ IInv /\ TypeOK
      /\ ChargedAt(r) /\ ToldAt(r) /\ AttemptsAt(r)
      /\ Active(r) => attempt[r] \in Attempts /\ Current(r) \in Workers
  BY Zenon DEF FullInv, Charged, Told, AttemptsMade, IInv, Placed
<1>1. ASSUME NEW w \in Workers, Begin(r, w)
      PROVE  ChargedAt(r)' /\ ToldAt(r)' /\ AttemptsAt(r)'
  <2>1. /\ phase[r] = "idle" /\ attempt[r] = 0
        /\ phase'[r] = "assigning" /\ attempt'[r] = 1
        /\ UNCHANGED <<mode, perr, outcome, headSent, writing, starts, cancels, terminal, charges>>
    BY Zenon, <1>0, <1>1 DEF Begin, AttemptsAt, TypeOK
  <2> QED BY <1>0, <2>1 DEF ChargedAt, ToldAt, Owed, AttemptsAt, BeforeReturn, BeforeStart, Attempts
<1>2. ASSUME NEW w \in Workers, Fallback(r, w)
      PROVE  ChargedAt(r)' /\ ToldAt(r)' /\ AttemptsAt(r)'
  <2>1. /\ phase[r] = "returned" /\ attempt[r] = 1 /\ w # worker[r][1]
        /\ canFallbackBeforeRequestStart(perr[r][1])
        /\ phase'[r] = "assigning" /\ attempt'[r] = 2
        /\ worker'[r][1] = worker[r][1] /\ worker'[r][2] = w
        /\ UNCHANGED <<mode, perr, outcome, headSent, writing, starts, cancels, terminal>>
    BY <1>0, <1>2 DEF Fallback, CanRetry, TypeOK, Attempts
  <2>2. charges'[r][1] = charges[r][1] + 1 /\ charges'[r][2] = charges[r][2]
    BY SMTT(40), <1>0, <1>2, <2>1 DEF Fallback, routeFailure, TypeOK, Attempts
  <2>3. charges[r][1] = 0 /\ charges[r][2] = 0
    BY SMTT(40), <1>0, <2>1 DEF ChargedAt, Attempts
  <2>4. ChargedAt(r)'
    BY SMTT(40), <2>1, <2>2, <2>3 DEF ChargedAt, Attempts
  <2>5. ToldAt(r)' /\ AttemptsAt(r)'
    BY <1>0, <2>1 DEF ToldAt, Owed, AttemptsAt, BeforeReturn, BeforeStart, Attempts
  <2> QED BY Zenon, <2>4, <2>5
<1>3. ASSUME NEW code \in routeError \union validationPipelineError, Refuse(r, code)
      PROVE  ChargedAt(r)' /\ ToldAt(r)' /\ AttemptsAt(r)'
  <2>1. code \notin AbortCodes
    BY Zenon DEF routeError, validationPipelineError, AbortCodes
  <2>2. /\ phase[r] = "idle" /\ phase'[r] = "done" /\ outcome'[r] = code
        /\ UNCHANGED <<mode, attempt, worker, perr, headSent, writing, starts, cancels, terminal, charges>>
    BY Zenon, <1>0, <1>3 DEF Refuse, TypeOK
  <2> QED BY Zenon, <1>0, <2>1, <2>2 DEF ChargedAt, ToldAt, Owed, AttemptsAt, BeforeReturn, BeforeStart
<1>4. CASE AssignRefused(r) \/ AckMissed(r)
  <2>1. PICK code \in ErrorRegistry : Return(r, code) /\ code \notin AbortCodes
    BY <1>4 DEF AssignRefused, AckMissed, ErrorRegistry, AbortCodes
  <2> QED BY Zenon, <1>4, <2>1, EarlyReturn DEF AssignRefused, AckMissed
<1>5. CASE requestAssign(r)
  <2>1. /\ phase[r] = "assigning" /\ phase'[r] = "waiting"
        /\ UNCHANGED <<mode, attempt, worker, perr, outcome, headSent, writing, starts, cancels,
                       terminal, charges>>
    BY Zenon, <1>0, <1>5 DEF requestAssign, TypeOK
  <2> QED BY Zenon, <1>0, <2>1 DEF ChargedAt, ToldAt, Owed, AttemptsAt, BeforeReturn, BeforeStart
<1>6. CASE AckReceived(r)
  <2>1. CASE admit[r][Current(r)] = "ACCEPTED"
    <3>1. /\ phase[r] = "waiting" /\ phase'[r] = "accepted"
          /\ UNCHANGED <<mode, attempt, worker, perr, outcome, headSent, writing, starts, cancels,
                         terminal, charges>>
      BY Zenon, <1>0, <1>6, <2>1 DEF AckReceived, TypeOK
    <3> QED BY Zenon, <1>0, <3>1 DEF ChargedAt, ToldAt, Owed, AttemptsAt, BeforeReturn, BeforeStart
  <2>2. CASE admit[r][Current(r)] # "ACCEPTED"
    <3>1. PICK code \in ErrorRegistry : Return(r, code) /\ code \notin AbortCodes
      BY Zenon, <1>6, <2>2, CodesRegistered DEF AckReceived, assignRejectError, AbortCodes
    <3> QED BY ZenonT(40), <1>6, <3>1, EarlyReturn DEF AckReceived
  <2> QED BY Zenon, <2>1, <2>2
<1>7. ASSUME NEW w \in Workers, NEW answer \in Answers, WorkerAnswers(r, w, answer)
      PROVE  ChargedAt(r)' /\ ToldAt(r)' /\ AttemptsAt(r)'
  BY Zenon, <1>0, <1>7, LocalPredicates DEF WorkerAnswers, Local
<1>8. CASE sendRequestStart(r)
  <2>1. ASSUME NEW code \in {"TransportUnavailable", "BodyRefUnavailable", "ControlInternalError"},
               Return(r, code)
        PROVE  ChargedAt(r)' /\ ToldAt(r)' /\ AttemptsAt(r)'
    <3>1. code \in ErrorRegistry /\ code \notin AbortCodes
      BY Zenon DEF ErrorRegistry, executorEmittableCodes, AbortCodes
    <3> QED BY Zenon, <1>8, <2>1, <3>1, EarlyReturn DEF sendRequestStart
  <2>2. ASSUME starts' = [starts EXCEPT ![r] = @ \union {Current(r)}],
               phase' = [phase EXCEPT ![r] = "streaming"], UNCHANGED perr
        PROVE  ChargedAt(r)' /\ ToldAt(r)' /\ AttemptsAt(r)'
    <3>1. /\ phase[r] = "accepted" /\ phase'[r] = "streaming" /\ Current(r) \in starts'[r]
          /\ UNCHANGED <<mode, attempt, worker, perr, outcome, headSent, writing, cancels, terminal,
                         charges>>
      BY Zenon, <1>0, <1>8, <2>2 DEF sendRequestStart, TypeOK
    <3> QED BY Zenon, <1>0, <3>1 DEF ChargedAt, ToldAt, Owed, AttemptsAt, Current, BeforeReturn,
               BeforeStart, AbortCodes
  <2> QED BY Zenon, <1>8, <2>1, <2>2 DEF sendRequestStart
<1>9. CASE Stream(r)
  <2>1. /\ phase[r] = "streaming" /\ attempt[r] \in Attempts /\ Current(r) \in Workers
        /\ UNCHANGED <<mode, attempt, worker, outcome, starts>>
    BY Zenon, <1>0, <1>9, StreamShape DEF Active
  <2>2. CASE UNCHANGED <<phase, perr, terminal, cancels, charges>> /\ WriteStep(r)
    <3>1. \/ /\ headSent'[r] = headSent[r]
             /\ mode[r] # "rest"
             /\ writing'[r] = "head" /\ mode[r] = "tunnel" => ~headSent[r]
          \/ writing[r] # "none" /\ writing'[r] = "none"
      BY Zenon, <1>0, <2>2 DEF WriteStep, TypeOK
    <3>2. ChargedAt(r)' /\ ToldAt(r)'
      BY Zenon, <1>0, <2>1, <2>2 DEF ChargedAt, ToldAt, Owed, AbortCodes
    <3>3. AttemptsAt(r)'
      BY Zenon, <1>0, <2>1, <2>2, <3>1 DEF AttemptsAt, Current
    <3> QED BY Zenon, <3>2, <3>3
  <2>3. ASSUME UNCHANGED headSent,
               writing' = writing \/ writing' = [writing EXCEPT ![r] = "none"],
               terminal' = terminal \/ terminal' = [terminal EXCEPT ![r] = TRUE],
               cancels' = cancels \/ sendCancel(r),
               charges' = charges \/ routeFailure(r),
               NEW code \in ErrorRegistry \union {"OK"},
               Return(r, code),
               ~canFallbackBeforeRequestStart(code),
               code \in AbortCodes =>
                  \/ terminal' = [terminal EXCEPT ![r] = TRUE]
                  \/ sendCancel(r)
                  \/ code = "Cancelled" /\ mode[r] = "tunnel" /\ writing[r] = "head"
        PROVE  ChargedAt(r)' /\ ToldAt(r)' /\ AttemptsAt(r)'
    <3>1. /\ phase'[r] = "returned"
          /\ perr'[r][attempt[r]] = code
          /\ \A k \in Attempts : k # attempt[r] => perr'[r][k] = perr[r][k]
      <4>1. Return(r, code) /\ attempt[r] \in Attempts
        BY Zenon, <2>1, <2>3
      <4> QED BY Zenon, <1>0, <4>1 DEF Return, TypeOK
    <3>2. /\ \A k \in Attempts : k # attempt[r] => charges'[r][k] = charges[r][k]
          /\ charges'[r][attempt[r]] \in {charges[r][attempt[r]], charges[r][attempt[r]] + 1}
      BY <1>0, <2>1, <2>3 DEF routeFailure, TypeOK
    <3>3. charges[r][attempt[r]] = 0
      BY Zenon, <1>0, <2>1 DEF ChargedAt, BeforeReturn
    <3>4. ChargedAt(r)'
      BY <1>0, <2>1, <2>3, <3>1, <3>2, <3>3 DEF ChargedAt, BeforeReturn, BeforeStart, TypeOK, Attempts
    <3>5. sendCancel(r) => starts[r] \subseteq cancels'[r]
      BY <1>0, <2>1 DEF sendCancel, IInv, StartedAccepted, TypeOK
    <3>6. ToldAt(r)'
      <4>1. code \in AbortCodes =>
              \/ terminal'[r] \/ starts[r] \subseteq cancels'[r]
              \/ code = "Cancelled" /\ mode[r] = "tunnel" /\ ~headSent[r]
        BY Zenon, <1>0, <2>3, <3>5 DEF TypeOK, AttemptsAt
      <4>2. outcome[r] = "none"
        BY Zenon, <1>0, <2>1 DEF ToldAt, Owed
      <4> QED BY Zenon, <2>1, <2>3, <3>1, <4>1, <4>2 DEF ToldAt, Owed, AbortCodes
    <3>7. AttemptsAt(r)'
      <4>1. writing'[r] = writing[r] \/ writing'[r] = "none"
        BY Zenon, <1>0, <2>3 DEF TypeOK
      <4> QED BY <1>0, <2>1, <2>3, <3>1, <4>1 DEF AttemptsAt, BeforeReturn, BeforeStart, Attempts
    <3> QED BY Zenon, <3>4, <3>6, <3>7
  <2> QED BY Zenon, <1>9, <2>2, <2>3, StreamShape
<1>10. CASE NoFallback(r)
  <2>1. PICK code \in {perr[r][1]} \union validationPipelineError : Done(r, code)
    BY Zenon, <1>10 DEF NoFallback
  <2>2. code \notin AbortCodes
    BY Zenon, <1>10 DEF NoFallback, CanRetry, canFallbackBeforeRequestStart, validationPipelineError,
       AbortCodes
  <2>3. /\ phase[r] = "returned" /\ attempt[r] = 1
        /\ canFallbackBeforeRequestStart(perr[r][1])
        /\ phase'[r] = "done" /\ outcome'[r] = code
        /\ UNCHANGED <<mode, attempt, worker, perr, headSent, writing, starts, cancels, terminal>>
    BY Zenon, <1>0, <1>10, <2>1 DEF NoFallback, CanRetry, Done, TypeOK
  <2>4. charges'[r][1] = charges[r][1] + 1 /\ charges'[r][2] = charges[r][2]
    BY <1>0, <1>10, <2>3 DEF NoFallback, routeFailure, TypeOK, Attempts
  <2>5. charges[r][1] = 0 /\ charges[r][2] = 0
    BY <1>0, <2>3 DEF ChargedAt, Attempts
  <2>6. ChargedAt(r)'
    BY <2>3, <2>4, <2>5 DEF ChargedAt, Attempts, BeforeReturn, BeforeStart
  <2>7. ToldAt(r)' /\ AttemptsAt(r)'
    BY Zenon, <1>0, <2>2, <2>3 DEF ToldAt, Owed, AttemptsAt, BeforeReturn, BeforeStart
  <2> QED BY Zenon, <2>6, <2>7
<1>11. CASE Finish(r)
  <2>1. /\ phase[r] = "returned"
        /\ phase'[r] = "done" /\ outcome'[r] = perr[r][attempt[r]]
        /\ UNCHANGED <<mode, attempt, worker, perr, headSent, writing, starts, cancels, terminal, charges>>
    BY Zenon, <1>0, <1>11 DEF Finish, Done, TypeOK
  <2> QED BY Zenon, <1>0, <2>1 DEF ChargedAt, ToldAt, Owed, AttemptsAt, BeforeReturn, BeforeStart
<1>12. CASE CancelLocal(r) \/ ClientGone(r) \/ DeadlinePasses(r)
  BY Zenon, <1>0, <1>12, LocalPredicates DEF CancelLocal, ClientGone, DeadlinePasses, Local
<1> QED
  BY Zenon, <1>1, <1>2, <1>3, <1>4, <1>5, <1>6, <1>7, <1>8, <1>9, <1>10, <1>11, <1>12 DEF Step

LEMMA InitFullInv == Init => FullInv
<1> SUFFICES ASSUME Init PROVE Charged /\ Told /\ AttemptsMade
  BY Zenon, InitIInv DEF FullInv
<1> QED BY DEF Init, Charged, Told, AttemptsMade, ChargedAt, ToldAt, Owed, AttemptsAt, Attempts,
           BeforeReturn, BeforeStart, AbortCodes

LEMMA NextFullInv == FullInv /\ [Next]_vars => FullInv'
<1> SUFFICES ASSUME FullInv, [Next]_vars PROVE FullInv'
  BY Zenon
<1>1. IInv'
  BY Zenon, NextIInv DEF FullInv
<1>2. CASE UNCHANGED vars
  <2>1. \A q \in Requests : Local(q)' = Local(q)
    BY Zenon, <1>2 DEF vars, Local
  <2> QED BY Zenon, <1>1, <2>1, LocalPredicates DEF FullInv, Charged, Told, AttemptsMade
<1>3. ASSUME NEW r \in Requests, Step(r)
      PROVE  FullInv'
  <2>1. \A q \in Requests : q # r => ChargedAt(q)' /\ ToldAt(q)' /\ AttemptsAt(q)'
    BY Zenon, <1>3, StepIsLocal, LocalPredicates DEF FullInv, Charged, Told, AttemptsMade
  <2>2. ChargedAt(r)' /\ ToldAt(r)' /\ AttemptsAt(r)'
    BY Zenon, <1>3, StepFull
  <2> QED BY Zenon, <1>1, <2>1, <2>2 DEF FullInv, Charged, Told, AttemptsMade
<1> QED BY Zenon, <1>2, <1>3, NextIsStep

\* A worker is charged at most once for an attempt: the charge of the stream and that
\* of executeAttemptOrFallback exclude each other.
THEOREM AtMostOneCharge == Spec => []ChargedOnce
<1>1. FullInv => ChargedOnce
  BY Zenon DEF FullInv, Charged, ChargedAt, ChargedOnce
<1> QED BY InitFullInv, NextFullInv, <1>1, PTL DEF Spec

\* Whatever Control ends by cancellation or timeout, it tells the worker that runs it.
THEOREM AbortTold == Spec => []AbortIsTold
<1>1. FullInv => AbortIsTold
  BY Zenon DEF FullInv, Told, ToldAt, Owed, AbortIsTold, AbortCodes
<1> QED BY InitFullInv, NextFullInv, <1>1, PTL DEF Spec

-----------------------------------------------------------------------------
(* Every attempt follows the lifecycle of Assignment                       *)

\* The initial state of every attempt is that of a new assignment.
LEMMA InitRefines ==
    ASSUME Init, NEW r \in Requests, NEW k \in Attempts
    PROVE  Attempt(r, k)!NewAssignment
BY DEF Init, Attempts, Attempt!NewAssignment, AttemptState, AttemptKind, AttemptFallbackAllowed

\* The mapped state of an attempt depends on the request's own state only.
LEMMA LocalLifecycle ==
    ASSUME NEW q \in Requests, NEW k \in Attempts, Local(q)' = Local(q)
    PROVE  UNCHANGED Attempt(q, k)!avars
<1>1. /\ phase'[q] = phase[q] /\ attempt'[q] = attempt[q] /\ worker'[q] = worker[q]
      /\ perr'[q] = perr[q] /\ headSent'[q] = headSent[q] /\ starts'[q] = starts[q]
  BY Zenon DEF Local
<1> QED BY Zenon, <1>1 DEF Attempt!avars, AttemptState, AttemptKind, AttemptFallbackAllowed

\* An attempt that returns takes a terminal step of its lifecycle, which keeps its
\* eligibility for fallback only if RequestStart was not published; the other attempt
\* of the request does not move.
LEMMA ReturnRefines ==
    ASSUME FullInv, NEW r \in Requests, NEW k \in Attempts,
           phase[r] \in {"assigning", "waiting", "accepted", "streaming"},
           NEW code \in ErrorRegistry \union {"OK"}, Return(r, code),
           UNCHANGED <<attempt, worker, headSent>>,
           \/ /\ phase[r] # "streaming" /\ code \notin {"OK", "Cancelled"}
              /\ starts' = starts
           \/ /\ starts' = [starts EXCEPT ![r] = @ \union {Current(r)}]
    PROVE  [Attempt(r, k)!Next]_(Attempt(r, k)!avars)
<1>1. /\ attempt[r] \in Attempts /\ Current(r) \in Workers
      /\ phase[r] # "streaming" => starts[r] = {}
      /\ \A w \in starts[r] : w = Current(r)
      /\ AttemptsAt(r) /\ TypeOK
  BY Zenon DEF FullInv, IInv, Placed, Active, NothingStarted, BeforeStart, StartedAccepted, AttemptsMade
<1>2. /\ phase'[r] = "returned"
      /\ perr'[r][attempt[r]] = code
      /\ \A j \in Attempts : j # attempt[r] => perr'[r][j] = perr[r][j]
  BY <1>1 DEF Return, TypeOK
<1>3. code # "none"
  BY Zenon DEF ErrorRegistry, executorEmittableCodes
<1>4. CASE k > attempt[r]
  <2>1. UNCHANGED <<AttemptState(r, k), AttemptKind(r, k), AttemptFallbackAllowed(r, k)>>
    BY <1>1, <1>2, <1>4 DEF AttemptState, AttemptKind, AttemptFallbackAllowed, Attempts
  <2> QED BY Zenon, <2>1 DEF Attempt!avars
<1>5. CASE k < attempt[r]
  <2>1. k = 1 /\ attempt[r] = 2 /\ worker[r][1] # worker[r][2] /\ Current(r) = worker[r][2]
    BY <1>1, <1>5 DEF Attempts, AttemptsAt, Current
  <2>2. worker[r][1] \notin starts[r] /\ worker[r][1] \notin starts'[r]
    BY <1>1, <2>1 DEF TypeOK
  <2>3. AttemptState(r, k) = "terminated" /\ AttemptState(r, k)' = "terminated"
    BY <2>1 DEF AttemptState
  <2>4. UNCHANGED <<AttemptState(r, k), AttemptKind(r, k), AttemptFallbackAllowed(r, k)>>
    BY Zenon, <1>1, <1>2, <2>1, <2>2, <2>3 DEF AttemptKind, AttemptFallbackAllowed, Attempts
  <2> QED BY Zenon, <2>4 DEF Attempt!avars
<1>6. CASE k = attempt[r]
  <2>1. /\ AttemptState(r, k) \in {"assigning", "accepted", "started"}
        /\ AttemptState(r, k) = "started" <=> phase[r] = "streaming"
        /\ AttemptState(r, k)' = "terminated"
        /\ AttemptFallbackAllowed(r, k) = FALSE
        /\ AttemptFallbackAllowed(r, k)' = (worker[r][k] \notin starts'[r])
    BY <1>1, <1>2, <1>6 DEF AttemptState, AttemptFallbackAllowed, Attempts
  <2>2. AttemptKind(r, k)' = IF code = "OK" THEN "end" ELSE IF code = "Cancelled" THEN "cancelled"
                             ELSE "error"
    BY Zenon, <1>2, <1>3, <1>6 DEF AttemptKind
  <2>3. CASE phase[r] # "streaming" /\ code \notin {"OK", "Cancelled"} /\ starts' = starts
    <3>1. AttemptFallbackAllowed(r, k)' = TRUE /\ AttemptKind(r, k)' = "error"
      BY Zenon, <1>1, <2>1, <2>2, <2>3
    <3>2. CASE AttemptState(r, k) = "assigning"
      BY Zenon, <2>1, <3>1, <3>2 DEF Attempt!Next, Attempt!OnAckTimeout, Attempt!Terminate
    <3>3. CASE AttemptState(r, k) = "accepted"
      <4>1. Attempt(r, k)!SynthesizeTerminal(FALSE)
        BY Zenon, <2>1, <3>1, <3>3 DEF Attempt!SynthesizeTerminal, Attempt!Terminate, Attempt!CanFallback
      <4> QED BY Zenon, <4>1 DEF Attempt!Next
    <3> QED BY Zenon, <2>1, <2>3, <3>2, <3>3
  <2>4. CASE starts' = [starts EXCEPT ![r] = @ \union {Current(r)}]
    <3>1. AttemptFallbackAllowed(r, k)' = FALSE
      BY Zenon, <1>1, <1>6, <2>1, <2>4 DEF Current, TypeOK
    <3>2. \E t \in {"end", "error", "cancelled"} : Attempt(r, k)!RecordTerminal(t)
      BY Zenon, <2>1, <2>2, <3>1 DEF Attempt!RecordTerminal, Attempt!Terminate
    <3> QED BY Zenon, <3>2 DEF Attempt!Next
  <2> QED BY Zenon, <2>3, <2>4
<1> QED BY <1>1, <1>4, <1>5, <1>6 DEF Attempts

\* Every step of a request is a step of the lifecycle of each of its attempts, or
\* leaves it unchanged.
LEMMA StepRefines ==
    ASSUME FullInv, NEW r \in Requests, NEW k \in Attempts, Step(r)
    PROVE  [Attempt(r, k)!Next]_(Attempt(r, k)!avars)
<1>0. /\ TypeOK /\ AttemptsAt(r)
      /\ Active(r) => attempt[r] \in Attempts /\ Current(r) \in Workers
      /\ phase[r] \in BeforeStart => starts[r] = {}
      /\ \A w \in starts[r] : w = Current(r)
  BY Zenon DEF FullInv, AttemptsMade, IInv, Placed, NothingStarted, StartedAccepted
<1>1. ASSUME NEW w \in Workers, Begin(r, w) \/ Fallback(r, w)
      PROVE  UNCHANGED Attempt(r, k)!avars
  <2>1. CASE Begin(r, w)
    <3>1. /\ phase[r] = "idle" /\ attempt[r] = 0 /\ phase'[r] = "assigning" /\ attempt'[r] = 1
          /\ UNCHANGED <<perr, headSent, starts>>
      BY Zenon, <1>0, <2>1 DEF Begin, AttemptsAt, TypeOK
    <3> QED BY <3>1 DEF Attempts, Attempt!avars, AttemptState, AttemptKind, AttemptFallbackAllowed
  <2>2. CASE Fallback(r, w)
    <3>1. /\ phase[r] = "returned" /\ attempt[r] = 1 /\ phase'[r] = "assigning"
          /\ attempt'[r] = 2 /\ worker'[r][1] = worker[r][1]
          /\ UNCHANGED <<perr, headSent, starts>>
      BY <1>0, <2>2 DEF Fallback, CanRetry, TypeOK, Attempts
    <3> QED BY <3>1 DEF Attempts, Attempt!avars, AttemptState, AttemptKind, AttemptFallbackAllowed
  <2> QED BY Zenon, <1>1, <2>1, <2>2
<1>2. ASSUME NEW code \in routeError \union validationPipelineError, Refuse(r, code)
      PROVE  UNCHANGED Attempt(r, k)!avars
  <2>1. /\ phase[r] = "idle" /\ attempt[r] = 0 /\ phase'[r] = "done"
        /\ UNCHANGED <<attempt, worker, perr, headSent, starts>>
    BY Zenon, <1>0, <1>2 DEF Refuse, AttemptsAt, TypeOK
  <2> QED BY <2>1 DEF Attempts, Attempt!avars, AttemptState, AttemptKind, AttemptFallbackAllowed
<1>3. CASE AssignRefused(r) \/ AckMissed(r)
  <2>1. PICK code \in ErrorRegistry : Return(r, code) /\ code \notin {"OK", "Cancelled"}
    BY <1>3 DEF AssignRefused, AckMissed, ErrorRegistry
  <2> QED BY Zenon, <1>3, <2>1, ReturnRefines DEF AssignRefused, AckMissed
<1>4. CASE requestAssign(r)
  <2>1. /\ phase[r] = "assigning" /\ phase'[r] = "waiting"
        /\ UNCHANGED <<attempt, worker, perr, headSent, starts>>
    BY Zenon, <1>0, <1>4 DEF requestAssign, TypeOK
  <2> QED BY Zenon, <2>1 DEF Attempts, Attempt!avars, AttemptState, AttemptKind, AttemptFallbackAllowed
<1>5. CASE AckReceived(r)
  <2>1. CASE admit[r][Current(r)] = "ACCEPTED"
    <3>1. /\ phase[r] = "waiting" /\ phase'[r] = "accepted" /\ attempt[r] \in Attempts
          /\ UNCHANGED <<attempt, worker, perr, headSent, starts>>
      BY Zenon, <1>0, <1>5, <2>1 DEF AckReceived, TypeOK, Active
    <3>2. CASE k = attempt[r]
      <4>1. /\ AttemptState(r, k) = "assigning" /\ AttemptState(r, k)' = "accepted"
            /\ UNCHANGED <<AttemptKind(r, k), headSent, AttemptFallbackAllowed(r, k)>>
        BY <3>1, <3>2 DEF Attempts, AttemptState, AttemptKind, AttemptFallbackAllowed
      <4>2. Attempt(r, k)!OnAssignAck(TRUE)
        BY Zenon, <4>1 DEF Attempt!OnAssignAck
      <4> QED BY Zenon, <4>2 DEF Attempt!Next
    <3>3. CASE k # attempt[r]
      BY SMTT(40), <3>1, <3>3 DEF Attempts, Attempt!avars, AttemptState, AttemptKind,
         AttemptFallbackAllowed
    <3> QED BY Zenon, <3>2, <3>3
  <2>2. CASE admit[r][Current(r)] # "ACCEPTED"
    <3>1. PICK code \in ErrorRegistry : Return(r, code) /\ code \notin {"OK", "Cancelled"}
      BY Zenon, <1>5, <2>2, CodesRegistered DEF AckReceived, assignRejectError
    <3> QED BY Zenon, <1>5, <3>1, ReturnRefines DEF AckReceived
  <2> QED BY Zenon, <2>1, <2>2
<1>6. ASSUME NEW w \in Workers, NEW answer \in Answers, WorkerAnswers(r, w, answer)
      PROVE  UNCHANGED Attempt(r, k)!avars
  BY Zenon, <1>6, LocalLifecycle DEF WorkerAnswers, Local
<1>7. CASE sendRequestStart(r)
  <2>1. ASSUME NEW code \in {"TransportUnavailable", "BodyRefUnavailable", "ControlInternalError"},
               Return(r, code)
        PROVE  [Attempt(r, k)!Next]_(Attempt(r, k)!avars)
    <3>1. code \in ErrorRegistry /\ code \notin {"OK", "Cancelled"}
      BY Zenon DEF ErrorRegistry, executorEmittableCodes
    <3> QED BY Zenon, <1>7, <2>1, <3>1, ReturnRefines DEF sendRequestStart
  <2>2. ASSUME starts' = [starts EXCEPT ![r] = @ \union {Current(r)}],
               phase' = [phase EXCEPT ![r] = "streaming"], UNCHANGED perr
        PROVE  [Attempt(r, k)!Next]_(Attempt(r, k)!avars)
    <3>1. /\ phase[r] = "accepted" /\ phase'[r] = "streaming" /\ attempt[r] \in Attempts
          /\ starts[r] = {} /\ starts'[r] = {worker[r][attempt[r]]}
          /\ UNCHANGED <<attempt, worker, perr, headSent>>
      BY Zenon, <1>0, <1>7, <2>2 DEF sendRequestStart, TypeOK, Active, BeforeStart, Current
    <3>2. CASE k = attempt[r]
      <4>1. /\ AttemptState(r, k) = "accepted" /\ AttemptState(r, k)' = "started"
            /\ UNCHANGED <<AttemptKind(r, k), headSent, AttemptFallbackAllowed(r, k)>>
        BY <3>1, <3>2 DEF Attempts, AttemptState, AttemptKind, AttemptFallbackAllowed
      <4> QED BY Zenon, <4>1 DEF Attempt!Next, Attempt!MarkRequestStart
    <3>3. CASE k # attempt[r]
      <4>1. UNCHANGED <<AttemptState(r, k), AttemptKind(r, k)>>
        BY <3>1, <3>3 DEF Attempts, AttemptState, AttemptKind
      <4>2. AttemptState(r, k) = "terminated" => worker[r][k] # worker[r][attempt[r]]
        BY <1>0, <3>1, <3>3 DEF Attempts, AttemptState, AttemptsAt
      <4> QED BY Zenon, <3>1, <4>1, <4>2 DEF AttemptFallbackAllowed, Attempt!avars
    <3> QED BY Zenon, <3>2, <3>3
  <2> QED BY Zenon, <1>7, <2>1, <2>2 DEF sendRequestStart
<1>8. CASE Stream(r)
  <2>1. /\ phase[r] = "streaming" /\ attempt[r] \in Attempts /\ Current(r) \in Workers
        /\ UNCHANGED <<mode, attempt, worker, outcome, starts>>
        /\ starts' = [starts EXCEPT ![r] = @ \union {Current(r)}]
    BY SMTT(40), <1>0, <1>8, StreamShape DEF Active, AttemptsAt, TypeOK
  <2>2. CASE UNCHANGED <<phase, perr, terminal, cancels, charges>> /\ WriteStep(r)
    <3>1. UNCHANGED <<AttemptState(r, k), AttemptKind(r, k), AttemptFallbackAllowed(r, k)>>
      BY Zenon, <2>1, <2>2 DEF AttemptState, AttemptKind, AttemptFallbackAllowed
    <3>2. headSent'[r] = headSent[r] \/ headSent'[r] = TRUE
      BY Zenon, <1>0, <2>2 DEF WriteStep, TypeOK
    <3> QED BY Zenon, <3>1, <3>2 DEF Attempt!Next, Attempt!avars, Attempt!MarkClientResponded
  <2>3. ASSUME NEW code \in ErrorRegistry \union {"OK"}, Return(r, code), UNCHANGED headSent
        PROVE  [Attempt(r, k)!Next]_(Attempt(r, k)!avars)
    BY ZenonT(40), <2>1, <2>3, ReturnRefines
  <2> QED BY Zenon, <1>8, <2>2, <2>3, StreamShape
<1>9. CASE NoFallback(r) \/ Finish(r)
  <2>1. /\ phase[r] = "returned" /\ phase'[r] = "done"
        /\ UNCHANGED <<attempt, worker, perr, headSent, starts>>
    BY Zenon, <1>0, <1>9 DEF NoFallback, Finish, Done, TypeOK
  <2> QED BY Zenon, <2>1 DEF Attempt!avars, AttemptState, AttemptKind, AttemptFallbackAllowed
<1>10. CASE CancelLocal(r) \/ ClientGone(r) \/ DeadlinePasses(r)
  BY Zenon, <1>10, LocalLifecycle DEF CancelLocal, ClientGone, DeadlinePasses, Local
<1> QED
  BY Zenon, <1>1, <1>2, <1>3, <1>4, <1>5, <1>6, <1>7, <1>8, <1>9, <1>10 DEF Step

LEMMA NextRefines ==
    FullInv /\ [Next]_vars =>
        [\A r \in Requests, k \in Attempts :
            [Attempt(r, k)!Next]_(Attempt(r, k)!avars)]_vars
<1> SUFFICES ASSUME FullInv, Next, NEW q \in Requests, NEW k \in Attempts
             PROVE  [Attempt(q, k)!Next]_(Attempt(q, k)!avars)
  BY Zenon
<1>1. PICK r \in Requests : Step(r)
  BY Zenon, NextIsStep
<1>2. CASE q = r
  BY Zenon, <1>1, <1>2, StepRefines
<1>3. CASE q # r
  <2>1. Local(q)' = Local(q)
    BY Zenon, <1>1, <1>3, StepIsLocal DEF FullInv
  <2> QED BY Zenon, <2>1, LocalLifecycle
<1> QED BY Zenon, <1>2, <1>3

\* The dispatcher implements the lifecycle of lifecycle.go, which it never calls: both
\* attempts of every request are behaviours of Assignment with Replayable = FALSE.
THEOREM ImplementsLifecycle == Spec => AttemptsFollowLifecycle
<1>1. Init => \A r \in Requests, k \in Attempts : Attempt(r, k)!NewAssignment
  BY Zenon, InitRefines
<1> QED BY InitFullInv, NextFullInv, NextRefines, <1>1, PTL DEF Spec, AttemptsFollowLifecycle

\* A second worker is tried only where the lifecycle of the first attempt permits it,
\* although executeAttemptOrFallback only looks at an error code.
THEOREM FallbackPermitted == Spec => FallbackWithinLifecycle
<1>1. FullInv /\ [Next]_vars =>
        [\A r \in Requests :
            attempt[r] = 1 /\ attempt'[r] = 2 => Attempt(r, 1)!CanFallback]_vars
  <2> SUFFICES ASSUME FullInv, Next, NEW q \in Requests, attempt[q] = 1, attempt'[q] = 2
               PROVE  Attempt(q, 1)!CanFallback
    BY Zenon
  <2>1. PICK r \in Requests : Step(r)
    BY Zenon, NextIsStep
  <2>2. q = r
    BY SMTT(40), <2>1, StepIsLocal DEF FullInv, Local
  <2>3. PICK w \in Workers : Fallback(q, w)
    BY <2>1, <2>2, StreamShape DEF Step, Begin, Refuse, AssignRefused, requestAssign, AckReceived,
       AckMissed, WorkerAnswers, sendRequestStart, NoFallback, Finish, CancelLocal, ClientGone,
       DeadlinePasses, FullInv, AttemptsMade, AttemptsAt, IInv, TypeOK
  <2>4. phase[q] = "returned" /\ CanRetry(q)
    BY Zenon, <2>3 DEF Fallback
  <2>5. starts[q] = {} /\ ~headSent[q]
    BY Zenon, <2>4 DEF CanRetry, FullInv, IInv, NothingStarted, AttemptsMade, AttemptsAt
  <2>6. AttemptFallbackAllowed(q, 1)
    <3>1. AttemptState(q, 1) = "terminated"
      BY <2>4 DEF AttemptState
    <3> QED BY Zenon, <2>5, <3>1 DEF AttemptFallbackAllowed
  <2> QED BY Zenon, <2>5, <2>6 DEF Attempt!CanFallback
<1> QED BY InitFullInv, NextFullInv, <1>1, PTL DEF Spec, FallbackWithinLifecycle
=============================================================================
