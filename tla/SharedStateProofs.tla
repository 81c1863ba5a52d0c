------------------------- MODULE SharedStateProofs -------------------------
(***************************************************************************)
(* Proofs about what the Controls share through Redis: the ownership       *)
(* records of InFlight and the worker sessions of WorkerSessions, for any  *)
(* number of Controls, request ids, workers, registrations, failures and   *)
(* upsets, and the sticky pins of Routing, for any rules, requests, fleet  *)
(* and pins.                                                               *)
(*                                                                         *)
(* CancelFindsEntry speaks of cancellations on their way.  They come from  *)
(* ownership records, and records from claims, so the invariant follows    *)
(* the chain back: a cancellation or a record exists only for a run that   *)
(* has been inserted, and until a run is released the registry has it.     *)
(*                                                                         *)
(* NewestRegistrationWins holds although heartbeats write back records     *)
(* they read earlier: the script compares fences, and a fence belongs to   *)
(* one session.                                                            *)
(*                                                                         *)
(* SessionStays compares two evaluations that the fleet, the rules and     *)
(* the pin did not change between.  Its invariant says how far through     *)
(* the matching rules each has come, as a set closed under passing over    *)
(* a rule without a usable worker (Reach), and that the second finds the   *)
(* pin of the first at the rule where the first stopped.                   *)
(***************************************************************************)
EXTENDS InFlight, WorkerSessions, Routing, WellFoundedInduction, TLAPS

InProgress == {"inserted", "working"}

\* InFlightRegistry.entries holds the requests in progress: none is missing between
\* Register and Deregister, and none is left behind.
RegistryIsExact ==
    \A run \in Runs : run[2] \in entries[run[1]] <=> phase[run] \in InProgress

\* A record names a run that got as far as its claim.
RecordsAreClaimed ==
    \A r \in Requests : owner[r] # Nobody =>
        <<owner[r], r>> \in Runs /\ phase[<<owner[r], r>>] \notin {"arriving", "inserted"}

\* A cancellation was addressed by a record.
CancelsAreAddressed ==
    \A run \in cancels : run \in Runs /\ phase[run] \notin {"arriving", "inserted"}

IInv == TypeOK /\ RegistryIsExact /\ RecordsAreClaimed /\ CancelsAreAddressed

-----------------------------------------------------------------------------

\* A run is a Control and a request id.
LEMMA RunIsPair ==
    ASSUME NEW run \in Runs
    PROVE  run[1] \in Controls /\ run[2] \in Requests /\ run = <<run[1], run[2]>>
BY RunsAssumption

\* A Redis call changes the availability flag and the count of upsets, typed.
LEMMA CallTyped ==
    ASSUME TypeOK, NEW c \in Controls, NEW alive, NEW reply \in Replies, Call(c, alive, reply)
    PROVE  available' \in [Controls -> BOOLEAN] /\ upsets' \in 0..MaxUpsets
BY MaxUpsetsAssumption DEF TypeOK, Call, Upset

LEMMA InitIInv == Init => IInv
BY NobodyAssumption, RunIsPair, MaxUpsetsAssumption
   DEF Init, IInv, TypeOK, RegistryIsExact, RecordsAreClaimed, CancelsAreAddressed, Phases,
       InProgress

\* Each step of a request keeps the invariant.
LEMMA RequestKeeps ==
    ASSUME IInv, NEW c \in Controls, NEW r \in Requests, <<c, r>> \in Runs, Request(c, r)
    PROVE  IInv'
<1> USE DEF IInv
<1>0. \A run \in Runs : run[1] \in Controls /\ run[2] \in Requests /\ run = <<run[1], run[2]>>
  BY Zenon, RunIsPair
<1>1. CASE Insert(c, r)
  <2>1. TypeOK'
    BY Zenon, <1>1 DEF Insert, TypeOK, Phases
  <2>2. RegistryIsExact'
    BY Zenon, <1>0, <1>1 DEF Insert, TypeOK, RegistryIsExact, InProgress
  <2>3. RecordsAreClaimed' /\ CancelsAreAddressed'
    BY Zenon, <1>0, <1>1 DEF Insert, TypeOK, RecordsAreClaimed, CancelsAreAddressed
  <2> QED BY Zenon, <2>1, <2>2, <2>3
<1>2. CASE Claim(c, r)
  <2>1. PICK reply \in Replies :
          /\ Call(c, <<c, r>> \in live, reply)
          /\ \/ /\ owner[r] = Nobody
                /\ owner' = [owner EXCEPT ![r] = c] /\ fresh' = fresh \cup {r}
             \/ UNCHANGED <<owner, fresh>>
          /\ renewing' \subseteq renewing \cup {<<c, r>>}
          /\ live' \subseteq live
    BY Zenon, <1>2 DEF Claim, cancelLocal
  <2>2. phase[<<c, r>>] = "inserted" /\ phase' = [phase EXCEPT ![<<c, r>>] = "working"]
    BY Zenon, <1>2 DEF Claim
  <2>3. TypeOK'
    BY <1>2, <2>1, <2>2, CallTyped DEF Claim, TypeOK, Phases
  <2>4. RegistryIsExact' /\ CancelsAreAddressed'
    BY Zenon, <1>0, <1>2, <2>2 DEF Claim, TypeOK, RegistryIsExact, CancelsAreAddressed, InProgress
  <2>5. RecordsAreClaimed'
    BY Zenon, <1>0, <1>2, <2>1, <2>2 DEF TypeOK, RecordsAreClaimed
  <2> QED BY Zenon, <2>3, <2>4, <2>5
<1>3. CASE Finish(c, r)
  <2>1. TypeOK'
    BY Zenon, <1>3 DEF Finish, TypeOK, Phases
  <2>2. RegistryIsExact'
    BY Zenon, <1>0, <1>3 DEF Finish, TypeOK, RegistryIsExact, InProgress
  <2>3. RecordsAreClaimed' /\ CancelsAreAddressed'
    BY Zenon, <1>0, <1>3 DEF Finish, TypeOK, RecordsAreClaimed, CancelsAreAddressed
  <2> QED BY Zenon, <2>1, <2>2, <2>3
<1>4. CASE Release(c, r)
  <2>1. PICK reply \in Replies :
          /\ Call(c, <<c, r>> \in live, reply)
          /\ \/ owner' = [owner EXCEPT ![r] = Nobody] /\ fresh' = fresh \ {r}
             \/ UNCHANGED <<owner, fresh>>
    BY Zenon, <1>4 DEF Release
  <2>2. TypeOK'
    BY Zenon, <1>4, <2>1, CallTyped DEF Release, TypeOK, Phases
  <2>3. RegistryIsExact' /\ RecordsAreClaimed' /\ CancelsAreAddressed'
    BY Zenon, <1>0, <1>4, <2>1 DEF Release, TypeOK, RegistryIsExact, RecordsAreClaimed,
       CancelsAreAddressed, InProgress
  <2> QED BY Zenon, <2>2, <2>3
<1>5. CASE Return(c, r)
  <2>1. TypeOK'
    BY Zenon, <1>5 DEF Return, TypeOK, Phases
  <2>2. RegistryIsExact' /\ RecordsAreClaimed' /\ CancelsAreAddressed'
    BY Zenon, <1>0, <1>5 DEF Return, TypeOK, RegistryIsExact, RecordsAreClaimed,
       CancelsAreAddressed, InProgress
  <2> QED BY Zenon, <2>1, <2>2
<1>6. CASE Renew(c, r)
  <2>1. PICK reply \in Replies :
          /\ Call(c, <<c, r>> \in live, reply)
          /\ fresh' \subseteq fresh \cup {r}
          /\ live' \subseteq live /\ renewing' \subseteq renewing
    BY Zenon, <1>6 DEF Renew, cancelLocal
  <2>2. TypeOK'
    BY Zenon, <1>6, <2>1, CallTyped DEF Renew, TypeOK
  <2> QED BY Zenon, <1>6, <2>2 DEF Renew, RegistryIsExact, RecordsAreClaimed, CancelsAreAddressed
<1>7. CASE StopRenewing(c, r) \/ Disconnect(c, r)
  BY Zenon, <1>7 DEF StopRenewing, Disconnect, TypeOK, RegistryIsExact, RecordsAreClaimed,
     CancelsAreAddressed
<1> QED BY Zenon, <1>1, <1>2, <1>3, <1>4, <1>5, <1>6, <1>7 DEF Request

LEMMA NextIInv == IInv /\ [Next]_vars => IInv'
<1> SUFFICES ASSUME IInv, [Next]_vars PROVE IInv'
  BY Zenon
<1> USE DEF IInv
<1>0. \A run \in Runs : run[1] \in Controls /\ run[2] \in Requests /\ run = <<run[1], run[2]>>
  BY Zenon, RunIsPair
<1>1. CASE UNCHANGED vars
  BY Zenon, <1>1 DEF vars, TypeOK, RegistryIsExact, RecordsAreClaimed, CancelsAreAddressed
<1>2. ASSUME NEW run \in Runs, Request(run[1], run[2])
      PROVE  IInv'
  BY Zenon, <1>0, <1>2, RequestKeeps
<1>3. ASSUME NEW c \in Controls, NEW r \in Requests, Cancel(c, r)
      PROVE  IInv'
  <2>1. live' \subseteq live
    BY Zenon, <1>3 DEF Cancel, cancelLocal
  <2>2. \/ UNCHANGED <<cancels, available, upsets>>
        \/ \E reply \in Replies :
             /\ Call(c, TRUE, reply)
             /\ \/ UNCHANGED cancels
                \/ owner[r] # Nobody /\ cancels' = cancels \cup {<<owner[r], r>>}
    BY Zenon, <1>3 DEF Cancel
  <2>3. available' \in [Controls -> BOOLEAN] /\ upsets' \in 0..MaxUpsets
    BY Zenon, <2>2, CallTyped DEF TypeOK
  <2>4. UNCHANGED cancels \/ (owner[r] # Nobody /\ cancels' = cancels \cup {<<owner[r], r>>})
    BY Zenon, <2>2
  <2>5. owner[r] # Nobody =>
          /\ <<owner[r], r>> \in Runs
          /\ phase[<<owner[r], r>>] \notin {"arriving", "inserted"}
    BY Zenon DEF RecordsAreClaimed
  <2>6. cancels' \subseteq Controls \X Requests
    BY Zenon, <2>4, <2>5, RunsAssumption DEF TypeOK
  <2>7. UNCHANGED phase
    BY Zenon, <1>3 DEF Cancel
  <2>8. CancelsAreAddressed'
    BY Zenon, <2>4, <2>5, <2>7 DEF CancelsAreAddressed
  <2>9. TypeOK'
    BY Zenon, <1>3, <2>1, <2>3, <2>6 DEF Cancel, TypeOK
  <2> QED BY Zenon, <1>3, <2>8, <2>9 DEF Cancel, RegistryIsExact, RecordsAreClaimed
<1>4. ASSUME NEW c \in Controls, NEW r \in Requests, Deliver(c, r)
      PROVE  IInv'
  BY Zenon, <1>4 DEF Deliver, cancelLocal, TypeOK, RegistryIsExact, RecordsAreClaimed,
     CancelsAreAddressed
<1>5. ASSUME NEW r \in Requests, Age(r) \/ Expire(r)
      PROVE  IInv'
  BY <1>5 DEF Age, Expire, TypeOK, RegistryIsExact, RecordsAreClaimed, CancelsAreAddressed
<1>6. CASE Outage \/ Recovery
  <2>1. TypeOK'
    BY <1>6, MaxUpsetsAssumption DEF Outage, Recovery, Upset, TypeOK
  <2> QED BY Zenon, <1>6, <2>1 DEF Outage, Recovery, RegistryIsExact, RecordsAreClaimed,
             CancelsAreAddressed
<1>7. ASSUME NEW c \in Controls, Touch(c) \/ Drain(c)
      PROVE  IInv'
  <2>1. available' \in [Controls -> BOOLEAN] /\ upsets' \in 0..MaxUpsets
    BY Zenon, <1>7, CallTyped DEF Touch, Drain
  <2>2. TypeOK'
    BY Zenon, <1>7, <2>1 DEF Touch, Drain, TypeOK
  <2> QED BY Zenon, <1>7, <2>2 DEF Touch, Drain, RegistryIsExact, RecordsAreClaimed,
             CancelsAreAddressed
<1>8. ASSUME NEW c \in Controls, Crash(c)
      PROVE  IInv'
  <2>1. TypeOK'
    BY <1>8, MaxUpsetsAssumption DEF Crash, Upset, TypeOK, Phases
  <2>2. RegistryIsExact'
    BY Zenon, <1>0, <1>8 DEF Crash, TypeOK, RegistryIsExact, InProgress
  <2>3. RecordsAreClaimed' /\ CancelsAreAddressed'
    BY Zenon, <1>8 DEF Crash, TypeOK, RecordsAreClaimed, CancelsAreAddressed
  <2> QED BY Zenon, <2>1, <2>2, <2>3
<1> QED BY Zenon, <1>1, <1>2, <1>3, <1>4, <1>5, <1>6, <1>7, <1>8 DEF Next

-----------------------------------------------------------------------------

\* Every variable keeps its type, and the registry of every Control holds exactly its
\* requests in progress, across failed claims, lost replies and crashes.
THEOREM RegistryExact == Spec => [](TypeOK /\ RegistryIsExact)
<1>1. IInv => TypeOK /\ RegistryIsExact
  BY Zenon DEF IInv
<1> QED BY InitIInv, NextIInv, <1>1, PTL DEF Spec

\* A cancellation on its way to another Control finds the entry it is for, or its
\* request is over.
THEOREM CancellationFinds == Spec => []CancelFindsEntry
<1>1. IInv => CancelFindsEntry
  <2> SUFFICES ASSUME IInv, NEW run \in cancels \cap Runs, run[2] \notin entries[run[1]]
               PROVE  phase[run] \in {"releasing", "returning", "done"}
    BY Zenon DEF CancelFindsEntry
  <2> QED BY Zenon DEF IInv, TypeOK, Phases, RegistryIsExact, CancelsAreAddressed, InProgress
<1> QED BY InitIInv, NextIInv, <1>1, PTL DEF Spec

\* No Control takes away a record that names another one.
THEOREM RecordsKept == Spec => OthersRecordsAreKept
<1>1. IInv /\ [Next]_vars =>
        [\A c \in Controls, r \in Requests :
            owner[r] = c /\ owner'[r] # c =>
                /\ owner'[r] = Nobody
                /\ \A run \in Runs : run # <<c, r>> => phase'[run] = phase[run]]_vars
  <2> SUFFICES ASSUME IInv, Next, NEW c \in Controls, NEW r \in Requests,
                      owner[r] = c, owner'[r] # c
               PROVE  /\ owner'[r] = Nobody
                      /\ \A run \in Runs : run # <<c, r>> => phase'[run] = phase[run]
    BY Zenon
  <2>0. c # Nobody /\ TypeOK
    BY Zenon, NobodyAssumption DEF IInv
  <2>1. ASSUME NEW run \in Runs, Request(run[1], run[2])
        PROVE  Release(c, r)
    <3>1. owner' = owner \/ Claim(run[1], run[2]) \/ Release(run[1], run[2])
      BY Zenon, <2>1 DEF Request, Insert, Finish, Return, Renew, StopRenewing, Disconnect
    <3>2. run[1] \in Controls /\ run[2] \in Requests
      BY Zenon, RunIsPair
    <3>3. ~Claim(run[1], run[2])
      BY Zenon, <2>0, <3>2 DEF Claim, TypeOK
    <3>4. CASE Release(run[1], run[2])
      <4>1. run[1] = c /\ run[2] = r
        BY Zenon, <2>0, <3>2, <3>4 DEF Release, TypeOK
      <4> QED BY Zenon, <3>4, <4>1
    <3> QED BY Zenon, <3>1, <3>3, <3>4
  <2>2. CASE Release(c, r)
    <3>1. owner' = [owner EXCEPT ![r] = Nobody]
      BY Zenon, <2>2 DEF Release
    <3>2. phase' = [phase EXCEPT ![<<c, r>>] = "returning"]
      BY Zenon, <2>2 DEF Release
    <3> QED BY Zenon, <2>0, <3>1, <3>2 DEF TypeOK
  <2>3. CASE UNCHANGED phase /\ owner'[r] = Nobody
    BY Zenon, <2>3
  <2>4. ASSUME NEW d \in Controls, NEW q \in Requests, Cancel(d, q) \/ Deliver(d, q)
        PROVE  FALSE
    BY Zenon, <2>4 DEF Cancel, Deliver
  <2>5. ASSUME NEW q \in Requests, Age(q) \/ Expire(q)
        PROVE  UNCHANGED phase /\ owner'[r] = Nobody
    BY Zenon, <2>0, <2>5 DEF Age, Expire, TypeOK
  <2>6. CASE Outage \/ Recovery
    BY Zenon, <2>0, <2>6 DEF Outage, Recovery, TypeOK
  <2>7. ASSUME NEW d \in Controls, Touch(d) \/ Drain(d) \/ Crash(d)
        PROVE  FALSE
    BY Zenon, <2>7 DEF Touch, Drain, Crash
  <2> QED BY Zenon, <2>1, <2>2, <2>3, <2>4, <2>5, <2>6, <2>7 DEF Next
<1> QED BY InitIInv, NextIInv, <1>1, PTL DEF Spec, OthersRecordsAreKept

-----------------------------------------------------------------------------
(* The worker registry *)

\* A failure being charged names a worker, the session it is charged to and the one
\* the request went to.
ChargesTyped == charging \subseteq Workers \X Sessions \X Sessions

\* Every failure counted against a session, and every request under way to it, was one
\* of the requests routed.
FailuresAreRouted ==
    \A slot \in Slots : failed[slot] + (IF slot \in assigned THEN 1 ELSE 0) <= failures

SessionsInv == SessionsTypeOK /\ ChargesTyped /\ FailuresAreRouted /\ NewestRegistrationWins

LEMMA SlotIsPair ==
    ASSUME NEW slot \in Slots
    PROVE  slot[1] \in Workers /\ slot[2] \in Sessions /\ slot = <<slot[1], slot[2]>>
BY DEF Slots

LEMMA UpsetTyped ==
    ASSUME upsets \in 0..MaxUpsets, Upset
    PROVE  upsets' \in 0..MaxUpsets
BY MaxUpsetsAssumption DEF Upset

\* Idle is no slot, and no session is 0.
LEMMA SessionsApart == 0 \notin Sessions /\ Sessions \subseteq 0..MaxSessions /\ NoWorker.session = 0
BY SessionBoundsAssumption DEF Sessions, NoWorker

LEMMA SessionsInitHolds == SessionsInit => SessionsInv
<1> SUFFICES ASSUME SessionsInit PROVE SessionsInv
  BY Zenon
<1>1. SessionsTypeOK
  BY MaxUpsetsAssumption, SessionBoundsAssumption, FailureCountAssumption
     DEF SessionsInit, SessionsTypeOK, NoWorker
<1>2. ChargesTyped /\ NewestRegistrationWins
  BY Zenon DEF SessionsInit, ChargesTyped, NewestRegistrationWins
<1>3. FailuresAreRouted
  BY DEF SessionsInit, FailuresAreRouted
<1> QED BY Zenon, <1>1, <1>2, <1>3 DEF SessionsInv

\* A step that leaves the registry and the failures alone keeps what is said of them.
LEMMA RegistryKept ==
    ASSUME SessionsInv, UNCHANGED <<registry, routing>>
    PROVE  ChargesTyped' /\ FailuresAreRouted' /\ NewestRegistrationWins'
BY Zenon DEF SessionsInv, registry, routing, ChargesTyped, FailuresAreRouted, NewestRegistrationWins

LEMMA SendRegisterKeeps ==
    ASSUME SessionsInv, NEW w \in Workers, Start(w) \/ StartAgain(w)
    PROVE  SessionsInv'
<1>1. /\ worker[w].attempt < MaxSessions
      /\ worker' = [worker EXCEPT ![w] =
             [session |-> 0, attempt |-> worker[w].attempt + 1, waiting |-> TRUE]]
      /\ queue' = queue \union {<<w, worker[w].attempt + 1>>}
      /\ UNCHANGED <<registry, routing, beats, registering, beating, refused>>
      /\ upsets' = upsets \/ Upset
  BY Zenon DEF Start, StartAgain, SendRegister, Calm
<1>2. worker[w].attempt \in 0..MaxSessions
  BY Zenon DEF SessionsInv, SessionsTypeOK
<1>3. worker[w].attempt + 1 \in Sessions /\ worker[w].attempt + 1 \in 0..MaxSessions
      /\ 0 \in 0..MaxSessions
  BY <1>1, <1>2, SessionBoundsAssumption DEF Sessions
<1>4. upsets' \in 0..MaxUpsets
  BY Zenon, <1>1, UpsetTyped DEF SessionsInv, SessionsTypeOK
<1>5. SessionsTypeOK'
  BY Zenon, <1>1, <1>3, <1>4 DEF SessionsInv, SessionsTypeOK, registry, routing, Slots
<1> QED BY Zenon, <1>1, <1>5, RegistryKept DEF SessionsInv

\* What an answer does to a worker.
LEMMA AnsweredTyped ==
    ASSUME SessionsTypeOK, NEW w \in Workers, NEW s, NEW session \in 0..MaxSessions,
           Answered(w, s, session)
    PROVE  worker' \in [Workers -> [session : 0..MaxSessions, attempt : 0..MaxSessions,
                                    waiting : BOOLEAN]]
BY Zenon DEF SessionsTypeOK, Answered

LEMMA RegisterKeeps ==
    ASSUME SessionsInv, NEW c \in Controls, NEW w \in Workers, NEW s \in Sessions, Register(c, w, s)
    PROVE  SessionsInv'
<1>1. 0 \in 0..MaxSessions /\ <<w, s>> \in Slots
  BY SessionBoundsAssumption DEF Slots
<1>2. worker' \in [Workers -> [session : 0..MaxSessions, attempt : 0..MaxSessions,
                               waiting : BOOLEAN]]
  BY Zenon, <1>1, AnsweredTyped DEF SessionsInv, SessionsTypeOK, Register
<1>3. upsets' \in 0..MaxUpsets
  BY Zenon, UpsetTyped DEF SessionsInv, SessionsTypeOK, Register, Calm
<1>4. SessionsTypeOK'
  BY Zenon, <1>1, <1>2, <1>3 DEF SessionsInv, SessionsTypeOK, Register, registry, routing
<1>5. UNCHANGED <<registry, routing>>
  BY Zenon DEF Register
<1> QED BY Zenon, <1>4, <1>5, RegistryKept DEF SessionsInv

\* A registration that is stored is the newest; its fence and its session agree.
LEMMA putWorkerKeeps ==
    ASSUME SessionsInv, NEW c \in Controls, putWorker(c)
    PROVE  SessionsInv'
<1> DEFINE w == registering[c][1]
           s == registering[c][2]
<1>1. registering[c] \in Slots
  BY Zenon DEF SessionsInv, SessionsTypeOK, putWorker
<1>2. w \in Workers /\ s \in Sessions /\ s \in 0..MaxSessions /\ 0 \in 0..MaxSessions
  BY <1>1, SlotIsPair, SessionsApart, SessionBoundsAssumption
<1>3. /\ Answered(w, s, s) \/ Answered(w, s, 0)
      /\ Stored(w, s) \/ UNCHANGED registry
      /\ upsets' = upsets \/ Upset
      /\ registering' = [registering EXCEPT ![c] = Idle]
      /\ UNCHANGED <<routing, queue, beats, beating, refused>>
  BY Zenon DEF putWorker, Calm
<1> HIDE DEF w, s
<1>4. worker' \in [Workers -> [session : 0..MaxSessions, attempt : 0..MaxSessions,
                               waiting : BOOLEAN]]
  BY Zenon, <1>2, <1>3, AnsweredTyped DEF SessionsInv
<1>5. upsets' \in 0..MaxUpsets
  BY Zenon, <1>3, UpsetTyped DEF SessionsInv, SessionsTypeOK
<1>6. /\ shared' \in [Workers -> SharedWorker \union {NoWorker}]
      /\ fence' = [v \in Workers |-> shared'[v].session]
      /\ latest' \in [Workers -> 0..MaxSessions]
      /\ NewestRegistrationWins'
  <2>1. CASE UNCHANGED registry
    BY Zenon, <2>1 DEF SessionsInv, SessionsTypeOK, NewestRegistrationWins, registry
  <2>2. CASE Stored(w, s)
    <3>1. [session |-> s, status |-> "registered"] \in SharedWorker
      BY Zenon, <1>2 DEF SharedWorker
    <3> QED BY Zenon, <1>2, <2>2, <3>1 DEF Stored, SessionsInv, SessionsTypeOK, NewestRegistrationWins
  <2> QED BY Zenon, <1>3, <2>1, <2>2
<1>7. SessionsTypeOK'
  BY Zenon, <1>3, <1>4, <1>5, <1>6 DEF SessionsInv, SessionsTypeOK, routing
<1>8. ChargesTyped' /\ FailuresAreRouted'
  BY Zenon, <1>3 DEF SessionsInv, ChargesTyped, FailuresAreRouted, routing
<1> QED BY Zenon, <1>6, <1>7, <1>8 DEF SessionsInv

LEMMA SendHeartbeatKeeps ==
    ASSUME SessionsInv, NEW w \in Workers, SendHeartbeat(w)
    PROVE  SessionsInv'
<1>1. worker[w].session \in Sessions
  BY SessionBoundsAssumption DEF SessionsInv, SessionsTypeOK, SendHeartbeat, Sessions
<1>2. SessionsTypeOK'
  BY <1>1 DEF SessionsInv, SessionsTypeOK, SendHeartbeat, registry, routing, Slots
<1>3. UNCHANGED <<registry, routing>>
  BY Zenon DEF SendHeartbeat
<1> QED BY Zenon, <1>2, <1>3, RegistryKept DEF SessionsInv

\* A refusal concerns a session, and leaves the worker without one.
LEMMA RefusedTyped ==
    ASSUME SessionsTypeOK, NEW w \in Workers, NEW s \in Sessions, Refused(w, s)
    PROVE  /\ refused' \subseteq Slots
           /\ worker' \in [Workers -> [session : 0..MaxSessions, attempt : 0..MaxSessions,
                                       waiting : BOOLEAN]]
<1>1. 0 \in 0..MaxSessions /\ <<w, s>> \in Slots
  BY SessionBoundsAssumption DEF Slots
<1> QED BY Zenon, <1>1 DEF SessionsTypeOK, Refused

LEMMA HeartbeatKeeps ==
    ASSUME SessionsInv, NEW c \in Controls, NEW w \in Workers, NEW s \in Sessions,
           Heartbeat(c, w, s)
    PROVE  SessionsInv'
<1>1. <<w, s>> \in Slots
  BY Zenon DEF Slots
<1>2. /\ Refused(w, s) \/ UNCHANGED <<worker, refused>>
      /\ beating' = [beating EXCEPT ![c] = <<w, s>>] \/ UNCHANGED beating
      /\ upsets' = upsets \/ Upset
      /\ beats' = beats \ {<<w, s>>}
      /\ UNCHANGED <<registry, routing, queue, registering>>
  BY Zenon DEF Heartbeat, Calm
<1>3. upsets' \in 0..MaxUpsets
  BY Zenon, <1>2, UpsetTyped DEF SessionsInv, SessionsTypeOK
<1>4. /\ refused' \subseteq Slots
      /\ worker' \in [Workers -> [session : 0..MaxSessions, attempt : 0..MaxSessions,
                                  waiting : BOOLEAN]]
  BY Zenon, <1>2, RefusedTyped DEF SessionsInv, SessionsTypeOK
<1>5. SessionsTypeOK'
  BY Zenon, <1>1, <1>2, <1>3, <1>4 DEF SessionsInv, SessionsTypeOK, registry, routing
<1> QED BY Zenon, <1>2, <1>5, RegistryKept DEF SessionsInv

\* A heartbeat is stored under its own fence only, so that it names the stored session.
LEMMA heartbeatWorkerKeeps ==
    ASSUME SessionsInv, NEW c \in Controls, heartbeatWorker(c)
    PROVE  SessionsInv'
<1> DEFINE w == beating[c][1]
           s == beating[c][2]
           stored == [session |-> s, status |-> "ready"]
<1>1. beating[c] \in Slots
  BY Zenon DEF SessionsInv, SessionsTypeOK, heartbeatWorker
<1>2. w \in Workers /\ s \in Sessions
  BY Zenon, <1>1, SlotIsPair
<1>3. /\ Refused(w, s) \/ UNCHANGED <<worker, refused>>
      /\ UNCHANGED shared \/ (fence[w] = s /\ shared' = [shared EXCEPT ![w] = stored])
      /\ upsets' = upsets \/ Upset
      /\ beating' = [beating EXCEPT ![c] = Idle]
      /\ UNCHANGED <<fence, latest, routing, queue, beats, registering>>
  BY Zenon DEF heartbeatWorker, Calm
<1>4. stored \in SharedWorker /\ stored.session = s
  BY Zenon, <1>2 DEF SharedWorker
<1> HIDE DEF w, s, stored
<1>5. upsets' \in 0..MaxUpsets
  BY Zenon, <1>3, UpsetTyped DEF SessionsInv, SessionsTypeOK
<1>6. /\ refused' \subseteq Slots
      /\ worker' \in [Workers -> [session : 0..MaxSessions, attempt : 0..MaxSessions,
                                  waiting : BOOLEAN]]
  BY Zenon, <1>2, <1>3, RefusedTyped DEF SessionsInv, SessionsTypeOK
<1>7. /\ shared' \in [Workers -> SharedWorker \union {NoWorker}]
      /\ fence' = [v \in Workers |-> shared'[v].session]
      /\ NewestRegistrationWins'
  <2>1. CASE UNCHANGED shared
    BY Zenon, <1>3, <2>1 DEF SessionsInv, SessionsTypeOK, NewestRegistrationWins
  <2>2. CASE fence[w] = s /\ shared' = [shared EXCEPT ![w] = stored]
    <3>1. shared[w].session = s /\ shared[w] # NoWorker
      BY Zenon, <1>2, <2>2, SessionsApart DEF SessionsInv, SessionsTypeOK
    <3>2. latest[w] = s
      BY Zenon, <1>2, <3>1 DEF SessionsInv, NewestRegistrationWins
    <3> QED BY Zenon, <1>2, <1>3, <1>4, <2>2, <3>1, <3>2
            DEF SessionsInv, SessionsTypeOK, NewestRegistrationWins
  <2> QED BY Zenon, <1>3, <2>1, <2>2
<1>8. SessionsTypeOK'
  BY Zenon, <1>3, <1>5, <1>6, <1>7 DEF SessionsInv, SessionsTypeOK, routing
<1>9. ChargesTyped' /\ FailuresAreRouted'
  BY Zenon, <1>3 DEF SessionsInv, ChargesTyped, FailuresAreRouted, routing
<1> QED BY Zenon, <1>7, <1>8, <1>9 DEF SessionsInv

LEMMA RegistryAges ==
    ASSUME SessionsInv, NEW w \in Workers, GoesStale(w) \/ Expires(w)
    PROVE  SessionsInv'
<1>1. /\ UNCHANGED <<latest, routing, queue, beats, registering, beating, worker, refused>>
      /\ upsets' = upsets \/ Upset
  BY Zenon DEF GoesStale, Expires
<1>2. upsets' \in 0..MaxUpsets
  BY Zenon, <1>1, UpsetTyped DEF SessionsInv, SessionsTypeOK
<1>3. /\ shared' \in [Workers -> SharedWorker \union {NoWorker}]
      /\ fence' = [v \in Workers |-> shared'[v].session]
      /\ NewestRegistrationWins'
  <2>1. CASE GoesStale(w)
    <3>1. shared[w] \in SharedWorker
      BY <2>1 DEF GoesStale, NoWorker, SessionsInv, SessionsTypeOK
    <3>2. PICK aged : aged = [shared[w] EXCEPT !.status = "stale"]
      BY Zenon
    <3>3. aged \in SharedWorker /\ aged.session = shared[w].session
      BY Zenon, <3>1, <3>2 DEF SharedWorker
    <3>4. shared' = [shared EXCEPT ![w] = aged] /\ fence' = fence
      BY Zenon, <2>1, <3>2 DEF GoesStale
    <3>5. shared[w].session = latest[w]
      BY <2>1 DEF GoesStale, NoWorker, SessionsInv, NewestRegistrationWins
    <3> QED BY Zenon, <1>1, <3>1, <3>3, <3>4, <3>5
            DEF SessionsInv, SessionsTypeOK, NewestRegistrationWins
  <2>2. CASE Expires(w)
    BY Zenon, <1>1, <2>2, SessionsApart
       DEF Expires, SessionsInv, SessionsTypeOK, NewestRegistrationWins
  <2> QED BY Zenon, <2>1, <2>2
<1>4. SessionsTypeOK'
  BY Zenon, <1>1, <1>2, <1>3 DEF SessionsInv, SessionsTypeOK, routing
<1>5. ChargesTyped' /\ FailuresAreRouted'
  BY Zenon, <1>1 DEF SessionsInv, ChargesTyped, FailuresAreRouted, routing
<1> QED BY Zenon, <1>3, <1>4, <1>5 DEF SessionsInv

LEMMA AssignKeeps ==
    ASSUME SessionsInv, NEW w \in Workers, Assign(w)
    PROVE  SessionsInv'
<1>1. PICK slot : slot = <<w, shared[w].session>>
  BY Zenon
<1>2. /\ failures < MaxFailures /\ failures' = failures + 1
      /\ slot \notin assigned /\ assigned' = assigned \union {slot}
      /\ UNCHANGED <<registry, count, cooling, queue, beats, registering, beating, worker,
                     refused, charging, failed, upsets>>
  BY Zenon, <1>1 DEF Assign
<1>3. slot \in Slots
  <2>1. shared[w] \in SharedWorker
    BY DEF Assign, Candidate, NoWorker, SessionsInv, SessionsTypeOK
  <2> QED BY Zenon, <1>1, <2>1 DEF SharedWorker, Slots
<1>4. failures \in 0..MaxFailures /\ failures' \in 0..MaxFailures
  BY <1>2, SessionBoundsAssumption DEF SessionsInv, SessionsTypeOK
<1>5. SessionsTypeOK'
  BY Zenon, <1>2, <1>3, <1>4 DEF SessionsInv, SessionsTypeOK, registry
<1>6. FailuresAreRouted'
  <2> SUFFICES ASSUME NEW t \in Slots
               PROVE  failed'[t] + (IF t \in assigned' THEN 1 ELSE 0) <= failures'
    BY Zenon DEF FailuresAreRouted
  <2>1. failed[t] + (IF t \in assigned THEN 1 ELSE 0) <= failures
    BY Zenon DEF SessionsInv, FailuresAreRouted
  <2>2. failed[t] \in Nat /\ failed'[t] = failed[t]
    BY <1>2, SessionBoundsAssumption DEF SessionsInv, SessionsTypeOK
  <2> QED BY <1>2, <1>4, <2>1, <2>2
<1>7. ChargesTyped' /\ NewestRegistrationWins'
  BY Zenon, <1>2 DEF SessionsInv, ChargesTyped, NewestRegistrationWins, registry
<1> QED BY Zenon, <1>5, <1>6, <1>7 DEF SessionsInv

\* A failed request leaves the ones under way and joins the failures of its session.
LEMMA RecordFailureKeeps ==
    ASSUME SessionsInv, NEW slot \in Slots, RecordFailure(slot)
    PROVE  SessionsInv'
<1>1. /\ slot \in assigned /\ assigned' = assigned \ {slot}
      /\ failed' = [failed EXCEPT ![slot] = failed[slot] + 1]
      /\ UNCHANGED <<registry, count, cooling, queue, beats, registering, beating, worker,
                     refused, failures>>
  BY Zenon DEF RecordFailure
<1>2. slot[1] \in Workers /\ slot[2] \in Sessions
  BY Zenon, SlotIsPair
<1>3. upsets' \in 0..MaxUpsets
  <2>1. upsets' = upsets \/ Upset
    BY Zenon DEF RecordFailure, Calm
  <2> QED BY Zenon, <2>1, UpsetTyped DEF SessionsInv, SessionsTypeOK
<1>4. ChargesTyped'
  <2>1. CASE UNCHANGED charging
    BY Zenon, <2>1 DEF SessionsInv, ChargesTyped
  <2>2. CASE ~UNCHANGED charging
    <3>1. /\ shared[slot[1]] # NoWorker
          /\ charging' = charging \union {<<slot[1], shared[slot[1]].session, slot[2]>>}
      BY Zenon, <2>2 DEF RecordFailure
    <3>2. shared[slot[1]].session \in Sessions
      BY Zenon, <1>2, <3>1 DEF SessionsInv, SessionsTypeOK, SharedWorker
    <3> QED BY <1>2, <3>1, <3>2 DEF SessionsInv, ChargesTyped
  <2> QED BY Zenon, <2>1, <2>2
<1>5. failed[slot] \in Nat /\ failures \in 0..MaxFailures /\ failed[slot] + 1 <= failures
  <2>1. failed[slot] \in Nat /\ failures \in 0..MaxFailures
    BY SessionBoundsAssumption DEF SessionsInv, SessionsTypeOK
  <2>2. failed[slot] + (IF slot \in assigned THEN 1 ELSE 0) <= failures
    BY Zenon DEF SessionsInv, FailuresAreRouted
  <2> QED BY Zenon, <1>1, <2>1, <2>2
<1>6. failed' \in [Slots -> 0..MaxFailures]
  <2>1. failed[slot] + 1 \in 0..MaxFailures
    BY <1>5, SessionBoundsAssumption
  <2> QED BY Zenon, <1>1, <2>1 DEF SessionsInv, SessionsTypeOK
<1>7. SessionsTypeOK'
  BY Zenon, <1>1, <1>3, <1>6 DEF SessionsInv, SessionsTypeOK, registry
<1>8. FailuresAreRouted'
  <2> SUFFICES ASSUME NEW t \in Slots
               PROVE  failed'[t] + (IF t \in assigned' THEN 1 ELSE 0) <= failures'
    BY Zenon DEF FailuresAreRouted
  <2>1. failed[t] + (IF t \in assigned THEN 1 ELSE 0) <= failures
    BY Zenon DEF SessionsInv, FailuresAreRouted
  <2>2. failed'[t] = IF t = slot THEN failed[slot] + 1 ELSE failed[t]
    BY Zenon, <1>1 DEF SessionsInv, SessionsTypeOK
  <2>3. CASE t = slot
    BY <1>1, <1>5, <2>2, <2>3
  <2>4. CASE t # slot
    BY Zenon, <1>1, <2>1, <2>2, <2>4
  <2> QED BY Zenon, <2>3, <2>4
<1>9. NewestRegistrationWins'
  BY Zenon, <1>1 DEF SessionsInv, NewestRegistrationWins, registry
<1> QED BY Zenon, <1>4, <1>7, <1>8, <1>9 DEF SessionsInv

\* The counter of a session stays below the threshold that starts its cooldown.
LEMMA CountsKeep ==
    ASSUME SessionsInv,
           \/ \E f \in charging : recordWorkerFailure(f)
           \/ \E slot \in Slots : WindowEnds(slot) \/ CooldownEnds(slot)
    PROVE  SessionsInv'
<1>1. UNCHANGED <<registry, queue, beats, registering, beating, worker, refused, assigned, failed,
                  failures, upsets>>
  BY Zenon DEF recordWorkerFailure, WindowEnds, CooldownEnds
<1>2. /\ count' \in [Slots -> 0..(FailureCount - 1)]
      /\ cooling' \subseteq Slots /\ charging' \subseteq charging
  <2>0. 0 \in 0..(FailureCount - 1)
    BY FailureCountAssumption
  <2>1. ASSUME NEW f \in charging, recordWorkerFailure(f)
        PROVE  /\ count' \in [Slots -> 0..(FailureCount - 1)]
               /\ cooling' \subseteq Slots /\ charging' \subseteq charging
    <3>1. PICK slot : slot = <<f[1], f[2]>>
      BY Zenon
    <3>2. slot \in Slots
      BY Zenon, <3>1 DEF SessionsInv, ChargesTyped, Slots
    <3>3. /\ charging' = charging \ {f}
          /\ \/ cooling' = cooling \union {slot} /\ count' = [count EXCEPT ![slot] = 0]
             \/ /\ ~(count[slot] + 1 >= FailureCount)
                /\ count' = [count EXCEPT ![slot] = count[slot] + 1] /\ cooling' = cooling
      BY Zenon, <2>1, <3>1 DEF recordWorkerFailure
    <3>4. ~(count[slot] + 1 >= FailureCount) => count[slot] + 1 \in 0..(FailureCount - 1)
      BY <3>2, FailureCountAssumption DEF SessionsInv, SessionsTypeOK
    <3> QED BY Zenon, <2>0, <3>2, <3>3, <3>4 DEF SessionsInv, SessionsTypeOK
  <2>2. ASSUME NEW slot \in Slots, WindowEnds(slot) \/ CooldownEnds(slot)
        PROVE  /\ count' \in [Slots -> 0..(FailureCount - 1)]
               /\ cooling' \subseteq Slots /\ charging' \subseteq charging
    BY <2>0, <2>2 DEF WindowEnds, CooldownEnds, SessionsInv, SessionsTypeOK
  <2> QED BY Zenon, <2>1, <2>2
<1>3. SessionsTypeOK'
  BY Zenon, <1>1, <1>2 DEF SessionsInv, SessionsTypeOK, registry
<1>4. ChargesTyped' /\ FailuresAreRouted' /\ NewestRegistrationWins'
  BY Zenon, <1>1, <1>2 DEF SessionsInv, ChargesTyped, FailuresAreRouted, NewestRegistrationWins, registry
<1> QED BY Zenon, <1>3, <1>4 DEF SessionsInv

LEMMA SessionsInductive ==
    ASSUME SessionsInv, [SessionsNext]_sessionsVars
    PROVE  SessionsInv'
<1>1. ASSUME NEW w \in Workers,
             Start(w) \/ StartAgain(w) \/ SendHeartbeat(w) \/ GoesStale(w) \/ Expires(w) \/ Assign(w)
      PROVE  SessionsInv'
  BY Zenon, <1>1, SendRegisterKeeps, SendHeartbeatKeeps, RegistryAges, AssignKeeps
<1>2. ASSUME NEW c \in Controls, putWorker(c) \/ heartbeatWorker(c)
      PROVE  SessionsInv'
  BY Zenon, <1>2, putWorkerKeeps, heartbeatWorkerKeeps
<1>3. ASSUME NEW c \in Controls, NEW w \in Workers, NEW s \in Sessions,
             Register(c, w, s) \/ Heartbeat(c, w, s)
      PROVE  SessionsInv'
  BY Zenon, <1>3, RegisterKeeps, HeartbeatKeeps
<1>4. ASSUME NEW slot \in Slots, RecordFailure(slot)
      PROVE  SessionsInv'
  BY Zenon, <1>4, RecordFailureKeeps
<1>5. CASE UNCHANGED sessionsVars
  <2>1. SessionsTypeOK'
    BY Zenon, <1>5 DEF sessionsVars, SessionsInv, SessionsTypeOK
  <2>2. UNCHANGED <<registry, routing>>
    BY Zenon, <1>5 DEF sessionsVars, registry, routing
  <2> QED BY Zenon, <2>1, <2>2, RegistryKept DEF SessionsInv
<1> QED BY Zenon, <1>1, <1>2, <1>3, <1>4, <1>5, CountsKeep DEF SessionsNext

\* The worker registry keeps its types, and with them the agreement of every fence with
\* the session stored under it (runtime_state.go:146-168).
THEOREM SessionsTypeCorrect == SessionsSpec => []SessionsTypeOK
<1>1. SessionsInv => SessionsTypeOK
  BY Zenon DEF SessionsInv
<1> QED BY <1>1, SessionsInitHolds, SessionsInductive, PTL DEF SessionsSpec

\* The session all Controls route to is that of the registration written last, whatever
\* heartbeat handlers had read before it (worker_registry.go:204-216, 319-376).
THEOREM NewestSession == SessionsSpec => []NewestRegistrationWins
<1>1. SessionsInv => NewestRegistrationWins
  BY Zenon DEF SessionsInv
<1> QED BY <1>1, SessionsInitHolds, SessionsInductive, PTL DEF SessionsSpec

-----------------------------------------------------------------------------
(* Routing.  A sticky request passes over the rules that have no usable     *)
(* worker and stops at the first that has one; the next request of the      *)
(* session takes the same way, and finds the pin at the same rule.          *)

\* y is reached from the rules x by passing over rules with no usable worker: it is in
\* every set that has x and, with a list of more than one rule whose first has no usable
\* worker, the rest of it.
Reach(x, y, req) ==
    \A S : x \in S /\ (\A z \in S : Len(z) > 1 /\ Usable(Head(z), req) = {} => Tail(z) \in S)
           => y \in S

\* An evaluation has the fields of Router's, and is over when it has an outcome.
IsEvaluation(e) ==
    /\ e = [pc |-> e.pc, todo |-> e.todo, view |-> e.view, pinned |-> e.pinned,
            picked |-> e.picked, unfit |-> e.unfit, full |-> e.full, outcome |-> e.outcome]
    /\ e.pc \in {"idle", "rule", "pin", "set", "done"}
    /\ e.outcome = "ok" => e.pc = "done"

\* The requests that have begun are listed once each, in order; while one is calm, all
\* before the last are over.
OrderFits ==
    /\ order \in Seq(Evaluations) /\ calm \subseteq Evaluations
    /\ \A q \in Evaluations : eval[q].pc # "idle" <=> \E i \in 1..Len(order) : order[i] = q
    /\ \A q \in calm : eval[q].pc # "idle"
    /\ calm # {} => \A i \in 1..(Len(order) - 1) : eval[order[i]].pc = "done"

\* A calm sticky request is at the rule its way leads to, has read the workers that rule
\* can use now, and picks one of them.
IsSteady(e, req) ==
    /\ e.pc \in {"rule", "pin", "set"} \/ e.outcome = "ok" => Reach(matchingRules(rules, req), e.todo, req)
    /\ e.pc = "pin" => DOMAIN e.view = Usable(Head(e.todo), req)
                       /\ \A w \in DOMAIN e.view : e.view[w] \in Reports
    /\ e.pc = "set" \/ e.outcome = "ok" => e.picked \in Usable(Head(e.todo), req)

Steady == \A q \in calm : asks[q].sticky => IsSteady(eval[q], asks[q])

\* The request has pinned its session, and nothing but loads has moved since.
Pins(a) == a \in calm /\ asks[a].sticky /\ eval[a].outcome = "ok" /\ Head(eval[a].todo).ttl > 0

FirstPins == \A a \in Evaluations : order = <<a>> /\ Pins(a) => pin = eval[a].picked

\* The second request has not gone past the rule of the first, and stops there.
IsBehind(e, a) ==
    /\ e.pc \in {"rule", "pin"} => Reach(e.todo, eval[a].todo, asks[a])
    /\ e.pc = "set" => e.todo = eval[a].todo
    /\ e.pc = "set" \/ e.outcome = "ok" => e.picked = eval[a].picked

SecondFollows ==
    \A a, b \in Evaluations :
        order = <<a, b>> /\ Pins(a) /\ b \in calm /\ asks[a] = asks[b] =>
            pin = eval[a].picked /\ IsBehind(eval[b], a)

RoutingInv ==
    /\ eval = [q \in Evaluations |-> eval[q]]
    /\ \A q \in Evaluations : IsEvaluation(eval[q])
    /\ fleet \in [Executors -> Reports]
    /\ OrderFits /\ Steady /\ FirstPins /\ SecondFollows

-----------------------------------------------------------------------------
(* selectExecutor.  That some candidate is least loaded is by induction: a  *)
(* set of naturals that is not empty has a least element.                   *)

LEMMA LeastElement ==
    ASSUME NEW T, T \subseteq Nat, T # {}
    PROVE  \E x \in T : \A y \in T : x <= y
<1> DEFINE R == {p \in Nat \X Nat : p[1] < p[2]}
<1>1. IsWellFoundedOn(R, Nat)
  <2>1. R = OpToRel(<, Nat)
    BY Zenon DEF OpToRel
  <2> QED BY Zenon, <2>1, NatLessThanWellFounded
<1>2. \A x, y \in Nat : y < x => <<y, x>> \in R
  BY Zenon
<1> HIDE DEF R
<1>3. PICK x \in T : \A y \in T : ~(<<y, x>> \in R)
  BY Zenon, <1>1, WFMin
<1>4. ASSUME NEW y \in T
      PROVE  x <= y
  <2>1. x \in Nat /\ y \in Nat /\ ~(<<y, x>> \in R)
    BY Zenon, <1>3
  <2> QED BY <1>2, <2>1
<1> QED BY Zenon, <1>4

\* A fraction that is not greater than one that is less than a third is less than it.
LEMMA FractionsOrdered ==
    ASSUME NEW a \in Nat, NEW b \in Nat \ {0}, NEW c \in Nat, NEW d \in Nat \ {0},
           NEW e \in Nat, NEW f \in Nat \ {0},
           a * d < c * b, ~(e * d < c * f)
    PROVE  ~(e * b < a * f)
<1>1. (a * d) * f < (c * b) * f
  OBVIOUS
<1>2. (c * f) * b <= (e * d) * b
  OBVIOUS
<1>3. (c * b) * f = (c * f) * b
  OBVIOUS
<1>4. (a * d) * f = (a * f) * d /\ (e * d) * b = (e * b) * d
  OBVIOUS
<1>5. (a * f) * d < (e * b) * d
  <2>1. {(a * d) * f, (c * b) * f, (c * f) * b, (e * d) * b} \subseteq Nat
    OBVIOUS
  <2> QED BY <1>1, <1>2, <1>3, <1>4, <2>1
<1> DEFINE x == a * f
           y == e * b
<1>6. x \in Nat /\ y \in Nat
  OBVIOUS
<1>7. x * d < y * d
  BY Zenon, <1>5
<1> HIDE DEF x, y
<1>8. ~(y < x)
  BY <1>6, <1>7
<1> QED BY Zenon, <1>8 DEF x, y

LEMMA LoadTyped ==
    ASSUME NEW report, report.active \in Nat, report.max \in Nat
    PROVE  load(report)[1] \in Nat /\ load(report)[2] \in Nat \ {0}
BY DEF load

\* One of the candidates up to the n-th is least loaded among them.
LEMMA LeastLoadedUpTo ==
    ASSUME NEW view, NEW n \in Nat, DOMAIN view \subseteq 1..n, DOMAIN view # {},
           \A w \in DOMAIN view : view[w].active \in Nat /\ view[w].max \in Nat
    PROVE  \E w \in DOMAIN view : \A v \in DOMAIN view : ~LessLoaded(view, v, w)
<1> DEFINE D == DOMAIN view
           Least(k, w) == w \in D /\ w <= k /\ \A v \in D : v <= k => ~LessLoaded(view, v, w)
           T == {k \in Nat : (\E w \in D : w <= k) /\ ~(\E w \in D : Least(k, w))}
<1>0. \A x \in D : load(view[x])[1] \in Nat /\ load(view[x])[2] \in Nat \ {0}
  BY Zenon, LoadTyped
<1>5. \A v \in D : ~LessLoaded(view, v, v)
  BY <1>0 DEF LessLoaded
<1>6. \A u, v, w \in D : LessLoaded(view, w, v) /\ ~LessLoaded(view, u, v) => ~LessLoaded(view, u, w)
  <2>1. \A a, c, e \in Nat : \A b, d, f \in Nat \ {0} :
          a * d < c * b /\ ~(e * d < c * f) => ~(e * b < a * f)
    BY Zenon, FractionsOrdered
  <2> SUFFICES ASSUME NEW u \in D, NEW v \in D, NEW w \in D
               PROVE  LessLoaded(view, w, v) /\ ~LessLoaded(view, u, v) => ~LessLoaded(view, u, w)
    BY Zenon
  <2>2. /\ load(view[u])[1] \in Nat /\ load(view[u])[2] \in Nat \ {0}
        /\ load(view[v])[1] \in Nat /\ load(view[v])[2] \in Nat \ {0}
        /\ load(view[w])[1] \in Nat /\ load(view[w])[2] \in Nat \ {0}
    BY Zenon, <1>0
  <2> QED BY Zenon, <2>1, <2>2 DEF LessLoaded
<1>1. \A w \in D : w \in Nat /\ w # 0 /\ w <= n
  OBVIOUS
<1>2. T = {}
  <2> SUFFICES ASSUME T # {} PROVE FALSE
    BY Zenon
  <2>1. PICK k \in T : \A j \in T : k <= j
    BY Zenon, LeastElement
  <2>2. k \in Nat /\ ~(\E w \in D : Least(k, w))
    BY Zenon, <2>1
  <2>3. PICK x \in D : x <= k
    BY Zenon, <2>1
  <2>4. k # 0 /\ k - 1 \in Nat /\ k - 1 \notin T
    <3> HIDE DEF T, D
    <3>1. x \in Nat /\ x # 0
      BY Zenon, <1>1
    <3>2. k # 0 /\ k - 1 \in Nat /\ ~(k <= k - 1)
      BY <2>2, <2>3, <3>1
    <3> QED BY Zenon, <2>1, <3>2
  <2>7. \A w \in D : w <= k => w = k \/ w <= k - 1
    <3> HIDE DEF D
    <3>1. \A w \in D : w \in Nat
      BY Zenon, <1>1
    <3> QED BY <2>2, <3>1
  <2>8. \A w \in D : w <= k - 1 => w <= k
    <3> HIDE DEF D
    <3>1. \A w \in D : w \in Nat
      BY Zenon, <1>1
    <3> QED BY <2>2, <3>1
  <2>9. (\E w \in D : w <= k - 1) => \E w \in D : Least(k - 1, w)
    BY Zenon, <2>4
  <2> HIDE DEF T, D
  <2>5. CASE k \notin D
    <3>1. \A w \in D : w <= k <=> w <= k - 1
      BY Zenon, <2>5, <2>7, <2>8
    <3>2. PICK w \in D : Least(k - 1, w)
      BY Zenon, <2>3, <2>9, <3>1
    <3>3. Least(k, w)
      BY Zenon, <3>1, <3>2
    <3> QED BY Zenon, <2>2, <3>3
  <2>6. CASE k \in D
    <3>1. k <= k
      BY <2>2
    <3>2. CASE ~(\E w \in D : w <= k - 1)
      <4>1. Least(k, k)
        <5>1. ASSUME NEW v \in D, v <= k PROVE ~LessLoaded(view, v, k)
          <6>1. v = k
            BY Zenon, <2>7, <3>2, <5>1
          <6> QED BY Zenon, <1>5, <2>6, <6>1
        <5> QED BY Zenon, <2>6, <3>1, <5>1
      <4> QED BY Zenon, <2>2, <2>6, <4>1
    <3>3. CASE \E w \in D : w <= k - 1
      <4>1. PICK m \in D : Least(k - 1, m)
        BY Zenon, <2>9, <3>3
      <4>2. CASE LessLoaded(view, k, m)
        <5>1. Least(k, k)
          <6>1. ASSUME NEW v \in D, v <= k PROVE ~LessLoaded(view, v, k)
            <7>1. CASE v = k
              BY Zenon, <1>5, <2>6, <7>1
            <7>2. CASE v <= k - 1
              <8>1. ~LessLoaded(view, v, m)
                BY Zenon, <4>1, <7>2
              <8> QED BY Zenon, <1>6, <2>6, <4>2, <8>1
            <7> QED BY Zenon, <2>7, <6>1, <7>1, <7>2
          <6> QED BY Zenon, <2>6, <3>1, <6>1
        <5> QED BY Zenon, <2>2, <2>6, <5>1
      <4>3. CASE ~LessLoaded(view, k, m)
        <5>1. Least(k, m)
          BY Zenon, <2>7, <2>8, <4>1, <4>3
        <5> QED BY Zenon, <2>2, <5>1
      <4> QED BY Zenon, <4>2, <4>3
    <3> QED BY Zenon, <3>2, <3>3
  <2> QED BY Zenon, <2>5, <2>6
<1>3. n \notin T
  BY Zenon, <1>2
<1>4. PICK w \in D : Least(n, w)
  BY Zenon, <1>1, <1>3
<1> QED BY Zenon, <1>1, <1>4

\* selectExecutor chooses one of the candidates.
LEMMA SelectsCandidate ==
    ASSUME NEW view, DOMAIN view \subseteq Executors, DOMAIN view # {},
           \A w \in DOMAIN view : view[w] \in Reports
    PROVE  selectExecutor(view) \in DOMAIN view
<1> DEFINE tied == {w \in DOMAIN view : \A v \in DOMAIN view : ~LessLoaded(view, v, w)}
<1>1. PICK n \in Nat : DOMAIN view \subseteq 1..n
  BY Zenon, FleetAssumption
<1>2. tied # {}
  BY Zenon, <1>1, LeastLoadedUpTo, FleetAssumption
<1>3. tied \subseteq Nat
  BY <1>1
<1> HIDE DEF tied
<1>4. PICK w \in tied : \A v \in tied : w <= v
  BY Zenon, <1>2, <1>3, LeastElement
<1>5. (CHOOSE x \in tied : \A v \in tied : x <= v) \in tied
  BY Zenon, <1>4
<1>6. selectExecutor(view) = CHOOSE x \in tied : \A v \in tied : x <= v
  BY Zenon DEF selectExecutor, tied
<1> QED BY Zenon, <1>5, <1>6 DEF tied

-----------------------------------------------------------------------------
LEMMA ReachSelf ==
    ASSUME NEW x, NEW req
    PROVE  Reach(x, x, req)
BY Zenon DEF Reach

\* One more rule is passed over...
LEMMA ReachOn ==
    ASSUME NEW x, NEW z, NEW req, Reach(x, z, req), Len(z) > 1, Usable(Head(z), req) = {}
    PROVE  Reach(x, Tail(z), req)
BY Zenon DEF Reach

\* ...on the way to a rule that has usable workers...
LEMMA ReachPast ==
    ASSUME NEW z, NEW y, NEW req, Reach(z, y, req),
           Usable(Head(z), req) = {}, Usable(Head(y), req) # {}
    PROVE  Reach(Tail(z), y, req)
<1> SUFFICES ASSUME NEW S, Tail(z) \in S,
                    \A x \in S : Len(x) > 1 /\ Usable(Head(x), req) = {} => Tail(x) \in S
             PROVE  y \in S
  BY Zenon DEF Reach
<1>1. y \in S \union {z}
  BY Zenon DEF Reach
<1> QED BY Zenon, <1>1

\* ...where it ends.
LEMMA ReachStops ==
    ASSUME NEW z, NEW y, NEW req, Reach(z, y, req), Usable(Head(z), req) # {}
    PROVE  y = z
<1>1. y \in {z}
  BY Zenon DEF Reach
<1> QED BY Zenon, <1>1

\* Which workers a rule can use does not depend on their loads.
LEMMA SameUsable ==
    ASSUME \A w \in Executors : fleet'[w].state = fleet[w].state /\ fleet'[w].cap = fleet[w].cap
    PROVE  \A rule, req : Usable(rule, req)' = Usable(rule, req)
<1>1. \A p : CandidatesForPool(p)' = CandidatesForPool(p)
  BY Zenon DEF CandidatesForPool
<1>2. \A p : CandidatesForPool(p) \subseteq Executors
  BY Zenon DEF CandidatesForPool
<1>3. ASSUME NEW all, all \subseteq Executors, NEW rule, NEW req
      PROVE  Suitable(all, rule, req)' = Suitable(all, rule, req)
             /\ Suitable(all, rule, req) \subseteq Executors
  <2>1. \A w \in all : fleet'[w].state = fleet[w].state
    BY Zenon, <1>3
  <2> QED BY Zenon, <1>3, <2>1 DEF Suitable
<1>4. \A ws : ws \subseteq Executors => WithCapacity(ws)' = WithCapacity(ws)
  BY Zenon DEF WithCapacity
<1>5. \A ws, req : Fingerprinted(ws, req)' = Fingerprinted(ws, req)
  BY Zenon DEF Fingerprinted
<1>6. ASSUME NEW rule, NEW req
      PROVE  Usable(rule, req)' = Usable(rule, req)
  <2>1. CandidatesForPool(rule.pool)' = CandidatesForPool(rule.pool)
    BY Zenon, <1>1
  <2>2. Suitable(CandidatesForPool(rule.pool), rule, req)'
          = Suitable(CandidatesForPool(rule.pool), rule, req)
        /\ Suitable(CandidatesForPool(rule.pool), rule, req) \subseteq Executors
    BY Zenon, <1>2, <1>3, <2>1
  <2> QED BY Zenon, <1>4, <1>5, <2>2 DEF Usable
<1> QED BY Zenon, <1>6

LEMMA UsableTyped ==
    ASSUME NEW rule, NEW req
    PROVE  Usable(rule, req) \subseteq Executors
BY Zenon DEF Usable, Fingerprinted, WithCapacity, Suitable, CandidatesForPool

LEMMA SameSteady ==
    ASSUME UNCHANGED rules,
           \A w \in Executors : fleet'[w].state = fleet[w].state /\ fleet'[w].cap = fleet[w].cap
    PROVE  /\ \A x, y, req : Reach(x, y, req)' <=> Reach(x, y, req)
           /\ \A e, req : IsSteady(e, req)' <=> IsSteady(e, req)
<1>1. \A rule, req : Usable(rule, req)' = Usable(rule, req)
  BY Zenon, SameUsable
<1>2. \A x, y, req : Reach(x, y, req)' <=> Reach(x, y, req)
  BY Zenon, <1>1 DEF Reach
<1>3. \A req : matchingRules(rules, req)' = matchingRules(rules, req)
  BY Zenon
<1> QED BY Zenon, <1>1, <1>2, <1>3 DEF IsSteady

-----------------------------------------------------------------------------
LEMMA EndedFields ==
    ASSUME NEW q, NEW o, IsEvaluation(eval[q])
    PROVE  /\ IsEvaluation(Ended(q, o)) /\ Ended(q, o).pc = "done" /\ Ended(q, o).outcome = o
           /\ Ended(q, o).todo = eval[q].todo
<1>1. PICK e : e = eval[q]
  BY Zenon
<1>2. PICK n : n = [e EXCEPT !.pc = "done", !.outcome = o]
  BY Zenon
<1>3. n = [pc |-> "done", todo |-> e.todo, view |-> e.view, pinned |-> e.pinned,
           picked |-> e.picked, unfit |-> e.unfit, full |-> e.full, outcome |-> o]
  BY Zenon, <1>1, <1>2 DEF IsEvaluation
<1>4. n.pc = "done" /\ n.outcome = o /\ n.todo = e.todo /\ IsEvaluation(n)
  BY Zenon, <1>3 DEF IsEvaluation
<1> QED BY Zenon, <1>1, <1>2, <1>4 DEF Ended

LEMMA SelectedFields ==
    ASSUME NEW q, NEW w, IsEvaluation(eval[q])
    PROVE  /\ IsEvaluation(Selected(q, w)) /\ Selected(q, w).pc = "done"
           /\ Selected(q, w).outcome = "ok" /\ Selected(q, w).todo = eval[q].todo
           /\ Selected(q, w).picked = w
<1>1. PICK e : e = Ended(q, "ok")
  BY Zenon
<1>2. PICK n : n = [e EXCEPT !.picked = w]
  BY Zenon
<1>3. IsEvaluation(e) /\ e.pc = "done" /\ e.outcome = "ok" /\ e.todo = eval[q].todo
  BY Zenon, <1>1, EndedFields
<1>4. n = [pc |-> e.pc, todo |-> e.todo, view |-> e.view, pinned |-> e.pinned,
           picked |-> w, unfit |-> e.unfit, full |-> e.full, outcome |-> e.outcome]
  BY Zenon, <1>2, <1>3 DEF IsEvaluation
<1>5. n.pc = e.pc /\ n.outcome = e.outcome /\ n.todo = e.todo /\ n.picked = w /\ IsEvaluation(n)
  BY Zenon, <1>3, <1>4 DEF IsEvaluation
<1> QED BY Zenon, <1>1, <1>2, <1>3, <1>5 DEF Selected

\* The next rule, or an error.
LEMMA NextRuleFields ==
    ASSUME NEW q, NEW unfit, NEW full, IsEvaluation(eval[q]), eval[q].pc \in {"rule", "pin"}
    PROVE  LET new == NextRule(q, unfit, full) IN
           /\ IsEvaluation(new) /\ new.outcome # "ok"
           /\ \/ new.pc = "done"
              \/ new.pc = "rule" /\ Len(eval[q].todo) > 1 /\ new.todo = Tail(eval[q].todo)
<1>1. CASE Len(eval[q].todo) > 1
  BY Zenon, <1>1 DEF NextRule, IsEvaluation
<1>2. CASE ~(Len(eval[q].todo) > 1)
  <2>1. PICK o \in {"unsupported_fingerprint", "executor_capacity_exhausted", "route_unavailable"} :
          NextRule(q, unfit, full) = Ended(q, o)
    BY Zenon, <1>2 DEF NextRule
  <2> QED BY <2>1, EndedFields
<1> QED BY Zenon, <1>1, <1>2

-----------------------------------------------------------------------------
LEMMA RoutingInitHolds ==
    ASSUME RoutingInit
    PROVE  RoutingInv
<1>1. eval = [q \in Evaluations |-> NotRouted] /\ order = <<>> /\ calm = {} /\ fleet \in [Executors -> Reports]
  BY Zenon DEF RoutingInit
<1>2. IsEvaluation(NotRouted) /\ NotRouted.pc = "idle"
  BY Zenon DEF IsEvaluation, NotRouted
<1>3. \A q \in Evaluations : eval[q] = NotRouted
  BY Zenon, <1>1
<1>4. OrderFits
  BY <1>1, <1>2, <1>3 DEF OrderFits
<1>5. \A a, b : order # <<a>> /\ order # <<a, b>>
  BY Zenon, <1>1
<1>6. Steady /\ FirstPins /\ SecondFollows
  BY Zenon, <1>1, <1>5 DEF Steady, FirstPins, SecondFollows
<1> QED BY Zenon, <1>1, <1>2, <1>3, <1>4, <1>6 DEF RoutingInv

\* What an evaluation under way does: new is what becomes of it.
LEMMA Turn ==
    ASSUME RoutingInv, NEW q \in Evaluations, NEW new, Advance(q, new),
           IsEvaluation(new), new.pc # "idle", eval[q].pc \in {"rule", "pin", "set"},
           UNCHANGED <<rules, asks, fleet, order>>,
           \/ calm' = {}
           \/ /\ calm' = calm
              /\ q \in calm /\ asks[q].sticky =>
                    /\ IsSteady(new, asks[q])
                    /\ new.outcome = "ok" /\ Head(new.todo).ttl > 0 => pin' = new.picked
              /\ \A a \in Evaluations :
                    q \in calm /\ Pins(a) /\ asks[a] = asks[q] /\ pin = eval[a].picked
                    /\ IsSteady(eval[a], asks[a]) /\ IsBehind(eval[q], a)
                    => pin' = eval[a].picked /\ IsBehind(new, a)
    PROVE  RoutingInv'
<1>1. /\ eval' = [r \in Evaluations |-> eval'[r]] /\ eval'[q] = new
      /\ \A r \in Evaluations \ {q} : eval'[r] = eval[r]
  BY Zenon DEF RoutingInv, Advance
<1>2. \A r \in Evaluations : IsEvaluation(eval'[r])
  BY Zenon, <1>1 DEF RoutingInv
<1>3. \A r \in Evaluations : (eval'[r].pc # "idle" <=> eval[r].pc # "idle")
                             /\ (eval[r].pc = "done" => eval'[r] = eval[r] /\ r # q)
  BY Zenon, <1>1
<1>4. OrderFits'
  <2>1. \A i \in 1..Len(order) : order[i] \in Evaluations
    BY DEF RoutingInv, OrderFits
  <2>2. calm' = {} \/ calm' = calm
    BY Zenon
  <2>3. \A i \in 1..(Len(order) - 1) : i \in 1..Len(order)
    BY DEF RoutingInv, OrderFits
  <2> QED BY Zenon, <1>3, <2>1, <2>2, <2>3 DEF RoutingInv, OrderFits
<1>5. CASE calm' = {}
  BY Zenon, <1>1, <1>2, <1>4, <1>5 DEF RoutingInv, Steady, FirstPins, SecondFollows, Pins
<1>6. CASE calm' # {}
  <2>0. calm' = calm /\ calm # {} /\ calm \subseteq Evaluations
    BY Zenon, <1>6 DEF RoutingInv, OrderFits
  <2>1. /\ \A x, y, req : Reach(x, y, req)' <=> Reach(x, y, req)
        /\ \A e, req : IsSteady(e, req)' <=> IsSteady(e, req)
    BY Zenon, SameSteady
  <2>2. Steady'
    BY Zenon, <1>1, <1>6, <2>0, <2>1 DEF RoutingInv, Steady
  <2>3. FirstPins'
    <3> SUFFICES ASSUME NEW a \in Evaluations, order = <<a>>, Pins(a)'
                 PROVE  pin' = eval'[a].picked
      BY Zenon DEF FirstPins
    <3>1. PICK i \in 1..Len(order) : order[i] = q
      BY Zenon DEF RoutingInv, OrderFits
    <3>2. q = a
      BY <3>1
    <3> QED BY Zenon, <1>1, <1>6, <2>0, <3>2 DEF Pins
  <2>4. SecondFollows'
    <3> SUFFICES ASSUME NEW a \in Evaluations, NEW b \in Evaluations, order = <<a, b>>, Pins(a)',
                        b \in calm', asks[a] = asks[b]
                 PROVE  pin' = eval'[a].picked /\ IsBehind(eval[b], a)'
      BY Zenon DEF SecondFollows
    <3>1. PICK i \in 1..Len(order) : order[i] = q
      BY Zenon DEF RoutingInv, OrderFits
    <3>2. q = a \/ q = b
      BY <3>1
    <3>3. 1 \in 1..(Len(order) - 1) /\ order[1] = a
      OBVIOUS
    <3>4. eval[a].pc = "done"
      BY Zenon, <2>0, <3>3 DEF RoutingInv, OrderFits
    <3>5. q = b /\ eval'[a] = eval[a] /\ eval'[b] = new
      BY Zenon, <1>1, <1>3, <3>2, <3>4
    <3>6. Pins(a)
      BY Zenon, <2>0, <3>5 DEF Pins
    <3>7. pin = eval[a].picked /\ IsBehind(eval[b], a) /\ IsSteady(eval[a], asks[a])
      BY Zenon, <2>0, <3>6 DEF RoutingInv, SecondFollows, Steady, Pins
    <3>8. pin' = eval[a].picked /\ IsBehind(new, a)
      BY Zenon, <1>6, <2>0, <3>5, <3>6, <3>7
    <3> QED BY Zenon, <2>1, <3>5, <3>8 DEF IsBehind
  <2> QED BY Zenon, <1>1, <1>2, <1>4, <2>2, <2>3, <2>4 DEF RoutingInv
<1> QED BY Zenon, <1>5, <1>6

LEMMA OnPinFields ==
    ASSUME NEW e, NEW view, NEW full, IsEvaluation(e)
    PROVE  [e EXCEPT !.pc = "pin", !.view = view, !.full = full]
             = [pc |-> "pin", todo |-> e.todo, view |-> view, pinned |-> e.pinned,
                picked |-> e.picked, unfit |-> e.unfit, full |-> full, outcome |-> e.outcome]
<1>1. PICK n : n = [e EXCEPT !.pc = "pin", !.view = view, !.full = full]
  BY Zenon
<1>2. n = [pc |-> "pin", todo |-> e.todo, view |-> view, pinned |-> e.pinned,
           picked |-> e.picked, unfit |-> e.unfit, full |-> full, outcome |-> e.outcome]
  BY Zenon, <1>1 DEF IsEvaluation
<1> QED BY Zenon, <1>1, <1>2

\* evaluateRule: a sticky request goes on to its pin with the workers it read, or passes
\* over a rule that has none for it.
LEMMA ReadFields ==
    ASSUME RoutingInv, NEW q \in Evaluations, eval[q].pc = "rule", NEW all,
           evaluateRule(q, all)
    PROVE  \E n : /\ Advance(q, n) /\ IsEvaluation(n) /\ n.pc # "idle"
                  /\ asks[q].sticky /\ all = CandidatesForPool(Head(eval[q].todo).pool) =>
                        /\ n.outcome # "ok"
                        /\ \/ n.pc = "done"
                           \/ /\ n.pc = "rule" /\ Usable(Head(eval[q].todo), asks[q]) = {}
                              /\ Len(eval[q].todo) > 1 /\ n.todo = Tail(eval[q].todo)
                           \/ /\ n.pc = "pin" /\ n.todo = eval[q].todo
                              /\ DOMAIN n.view = Usable(Head(eval[q].todo), asks[q])
                              /\ \A w \in DOMAIN n.view : n.view[w] \in Reports
<1> DEFINE rule == Head(eval[q].todo)
           fit == Suitable(all, rule, asks[q])
           ordinary == WithCapacity(fit)
           ws == Fingerprinted(ordinary, asks[q])
           view == [w \in ws |-> fleet[w]]
           full == fit # {} /\ ordinary = {}
           both == eval[q].full \/ full
           onPin == [eval[q] EXCEPT !.pc = "pin", !.view = view, !.full = both]
<1>0. IsEvaluation(eval[q]) /\ eval[q].outcome # "ok"
  BY Zenon DEF RoutingInv, IsEvaluation
<1>1. \/ ws = {} /\ Advance(q, NextRule(q, TRUE, full))
      \/ asks[q].sticky /\ Advance(q, onPin)
      \/ ~asks[q].sticky /\ Advance(q, NextRule(q, FALSE, full))
      \/ ~asks[q].sticky /\ Advance(q, Selected(q, selectExecutor(view)))
  BY Zenon DEF evaluateRule
<1>2. all = CandidatesForPool(rule.pool) => ws = Usable(rule, asks[q])
  BY Zenon DEF Usable
<1>3. \A w \in Usable(rule, asks[q]) : fleet[w] \in Reports
  BY Zenon, UsableTyped DEF RoutingInv
<1> HIDE DEF rule, fit, ordinary, ws, full
<1>4. \A u, f : /\ IsEvaluation(NextRule(q, u, f)) /\ NextRule(q, u, f).outcome # "ok"
                /\ \/ NextRule(q, u, f).pc = "done"
                   \/ /\ NextRule(q, u, f).pc = "rule" /\ Len(eval[q].todo) > 1
                      /\ NextRule(q, u, f).todo = Tail(eval[q].todo)
  BY Zenon, <1>0, NextRuleFields
<1>5. CASE ws = {} /\ Advance(q, NextRule(q, TRUE, full))
  <2>1. PICK n : n = NextRule(q, TRUE, full)
    BY Zenon
  <2>2. n.pc # "idle"
    BY Zenon, <1>4, <2>1
  <2> QED BY Zenon, <1>2, <1>4, <1>5, <2>1, <2>2 DEF rule
<1>6. CASE asks[q].sticky /\ Advance(q, onPin)
  <2>1. onPin = [pc |-> "pin", todo |-> eval[q].todo, view |-> view, pinned |-> eval[q].pinned,
                 picked |-> eval[q].picked, unfit |-> eval[q].unfit, full |-> both,
                 outcome |-> eval[q].outcome]
    <3> HIDE DEF view, both
    <3> QED BY Zenon, <1>0, OnPinFields
  <2> HIDE DEF onPin
  <2>2. /\ onPin.pc = "pin" /\ onPin.todo = eval[q].todo /\ onPin.view = view
        /\ onPin.outcome = eval[q].outcome
    BY Zenon, <2>1
  <2>3. IsEvaluation(onPin)
    <3> HIDE DEF view
    <3> QED BY Zenon, <1>0, <2>1 DEF IsEvaluation
  <2>4. DOMAIN onPin.view = ws /\ \A w \in ws : onPin.view[w] = fleet[w]
    BY Zenon, <2>2
  <2>5. all = CandidatesForPool(rule.pool) =>
          DOMAIN onPin.view = Usable(rule, asks[q]) /\ \A w \in DOMAIN onPin.view : onPin.view[w] \in Reports
    BY Zenon, <1>2, <1>3, <2>4
  <2>6. onPin.pc # "idle" /\ onPin.outcome # "ok"
    BY Zenon, <1>0, <2>2
  <2> QED BY Zenon, <1>6, <2>2, <2>3, <2>5, <2>6 DEF rule
<1>7. CASE ~asks[q].sticky /\ Advance(q, NextRule(q, FALSE, full))
  <2>1. PICK n : n = NextRule(q, FALSE, full)
    BY Zenon
  <2> QED BY Zenon, <1>4, <1>7, <2>1
<1>8. CASE ~asks[q].sticky /\ Advance(q, Selected(q, selectExecutor(view)))
  <2>1. PICK n : n = Selected(q, selectExecutor(view))
    BY Zenon
  <2> QED BY Zenon, <1>0, <1>8, <2>1, SelectedFields
<1> QED BY Zenon, <1>1, <1>5, <1>6, <1>7, <1>8

LEMMA ReadCandidatesKeeps ==
    ASSUME RoutingInv, NEW q \in Evaluations, ReadCandidates(q)
    PROVE  RoutingInv'
<1> DEFINE todo == eval[q].todo
<1>0. eval[q].pc = "rule" /\ UNCHANGED <<rules, asks, fleet, pin, order>>
  BY Zenon DEF ReadCandidates
<1>1. CASE \E all : evaluateRule(q, all) /\ calm' = {}
  <2>1. PICK n : Advance(q, n) /\ IsEvaluation(n) /\ n.pc # "idle"
    BY Zenon, <1>0, <1>1, ReadFields
  <2> QED BY Zenon, <1>0, <1>1, <2>1, Turn
<1>2. CASE evaluateRule(q, CandidatesForPool(Head(todo).pool)) /\ calm' = calm
  <2>1. PICK n :
          /\ Advance(q, n) /\ IsEvaluation(n) /\ n.pc # "idle"
          /\ asks[q].sticky =>
                /\ n.outcome # "ok"
                /\ \/ n.pc = "done"
                   \/ /\ n.pc = "rule" /\ Usable(Head(todo), asks[q]) = {}
                      /\ Len(todo) > 1 /\ n.todo = Tail(todo)
                   \/ /\ n.pc = "pin" /\ n.todo = todo
                      /\ DOMAIN n.view = Usable(Head(todo), asks[q])
                      /\ \A w \in DOMAIN n.view : n.view[w] \in Reports
    BY Zenon, <1>0, <1>2, ReadFields
  <2> HIDE DEF todo
  <2>2. ASSUME q \in calm, asks[q].sticky
        PROVE  IsSteady(n, asks[q])
    <3>1. Reach(matchingRules(rules, asks[q]), todo, asks[q])
      BY Zenon, <1>0, <2>2 DEF RoutingInv, Steady, IsSteady, todo
    <3> QED BY Zenon, <2>1, <2>2, <3>1, ReachOn DEF IsSteady
  <2>3. ASSUME NEW a \in Evaluations, q \in calm, Pins(a), asks[a] = asks[q],
               pin = eval[a].picked, IsSteady(eval[a], asks[a]), IsBehind(eval[q], a)
        PROVE  pin' = eval[a].picked /\ IsBehind(n, a)
    <3>1. Usable(Head(eval[a].todo), asks[a]) # {} /\ asks[q].sticky
      BY Zenon, <2>3 DEF IsSteady, Pins
    <3>2. Reach(todo, eval[a].todo, asks[a])
      BY Zenon, <1>0, <2>3 DEF IsBehind, todo
    <3>3. n.pc = "rule" => Reach(n.todo, eval[a].todo, asks[a])
      BY Zenon, <2>1, <2>3, <3>1, <3>2, ReachPast
    <3> QED BY Zenon, <1>0, <2>1, <2>3, <3>1, <3>2, <3>3 DEF IsBehind
  <2> QED BY Zenon, <1>0, <1>2, <2>1, <2>2, <2>3, Turn
<1> QED BY Zenon, <1>1, <1>2 DEF ReadCandidates, Undisturbed, Disturb

\* evaluateSticky: the pinned worker if the rule can use it, the error of a rule without
\* fallback, the next rule if this one has no worker, else the choice of selectExecutor.
LEMMA PinFields ==
    ASSUME RoutingInv, NEW q \in Evaluations, eval[q].pc = "pin", NEW pinned,
           evaluateSticky(q, pinned)
    PROVE  \E n : /\ Advance(q, n) /\ IsEvaluation(n) /\ n.pc # "idle" /\ n.outcome # "ok"
                  /\ \/ n.pc = "done"
                     \/ /\ n.pc = "rule" /\ DOMAIN eval[q].view = {}
                        /\ Len(eval[q].todo) > 1 /\ n.todo = Tail(eval[q].todo)
                     \/ /\ n.pc = "set" /\ n.todo = eval[q].todo /\ DOMAIN eval[q].view # {}
                        /\ n.picked = IF pinned \in DOMAIN eval[q].view THEN pinned
                                      ELSE selectExecutor(eval[q].view)
<1> DEFINE view == eval[q].view
           keep(w) == [eval[q] EXCEPT !.pc = "set", !.picked = w]
<1>0. IsEvaluation(eval[q]) /\ eval[q].outcome # "ok"
  BY Zenon DEF RoutingInv, IsEvaluation
<1>1. \/ pinned \in DOMAIN view /\ Advance(q, keep(pinned))
      \/ Advance(q, Ended(q, "sticky_session_unavailable"))
      \/ DOMAIN view = {} /\ Advance(q, NextRule(q, FALSE, FALSE))
      \/ pinned \notin DOMAIN view /\ DOMAIN view # {} /\ Advance(q, keep(selectExecutor(view)))
  BY Zenon DEF evaluateSticky
<1>2. ASSUME NEW w
      PROVE  IsEvaluation(keep(w)) /\ keep(w).pc = "set" /\ keep(w).picked = w
             /\ keep(w).todo = eval[q].todo /\ keep(w).outcome # "ok"
  <2>1. PICK e : e = eval[q]
    BY Zenon
  <2>2. PICK n : n = [e EXCEPT !.pc = "set", !.picked = w]
    BY Zenon
  <2>3. n = [pc |-> "set", todo |-> e.todo, view |-> e.view, pinned |-> e.pinned,
             picked |-> w, unfit |-> e.unfit, full |-> e.full, outcome |-> e.outcome]
    BY Zenon, <1>0, <2>1, <2>2 DEF IsEvaluation
  <2>4. n.pc = "set" /\ n.picked = w /\ n.todo = e.todo /\ n.outcome = e.outcome
    BY Zenon, <2>3
  <2>5. IsEvaluation(n)
    BY Zenon, <1>0, <2>1, <2>3 DEF IsEvaluation
  <2> QED BY Zenon, <1>0, <2>1, <2>2, <2>4, <2>5
<1> HIDE DEF keep
<1>3. CASE pinned \in DOMAIN view /\ Advance(q, keep(pinned))
  BY Zenon, <1>2, <1>3
<1>4. CASE Advance(q, Ended(q, "sticky_session_unavailable"))
  <2>1. PICK n : n = Ended(q, "sticky_session_unavailable")
    BY Zenon
  <2>2. IsEvaluation(n) /\ n.pc = "done" /\ n.outcome = "sticky_session_unavailable"
    <3>1. \A o : IsEvaluation(Ended(q, o)) /\ Ended(q, o).pc = "done" /\ Ended(q, o).outcome = o
      BY ZenonT(30), <1>0, EndedFields
    <3> QED BY Zenon, <2>1, <3>1
  <2>3. n.pc # "idle" /\ n.outcome # "ok"
    BY Zenon, <2>2
  <2> QED BY Zenon, <1>4, <2>1, <2>2, <2>3
<1>5. CASE DOMAIN view = {} /\ Advance(q, NextRule(q, FALSE, FALSE))
  <2>1. PICK n : n = NextRule(q, FALSE, FALSE)
    BY Zenon
  <2>2. /\ IsEvaluation(n) /\ n.outcome # "ok"
        /\ \/ n.pc = "done"
           \/ n.pc = "rule" /\ Len(eval[q].todo) > 1 /\ n.todo = Tail(eval[q].todo)
    BY Zenon, <1>0, <2>1, NextRuleFields
  <2>3. n.pc # "idle"
    BY Zenon, <2>2
  <2> QED BY Zenon, <1>5, <2>1, <2>2, <2>3
<1>6. CASE pinned \notin DOMAIN view /\ DOMAIN view # {} /\ Advance(q, keep(selectExecutor(view)))
  <2>1. PICK w : w = selectExecutor(view)
    BY Zenon
  <2>2. Advance(q, keep(w)) /\ w = IF pinned \in DOMAIN view THEN pinned ELSE selectExecutor(view)
    BY Zenon, <1>6, <2>1
  <2>3. keep(w).pc # "idle"
    BY Zenon, <1>2
  <2> QED BY Zenon, <1>2, <1>6, <2>2, <2>3
<1> QED BY Zenon, <1>1, <1>3, <1>4, <1>5, <1>6

LEMMA GetPinKeeps ==
    ASSUME RoutingInv, NEW q \in Evaluations, GetPin(q)
    PROVE  RoutingInv'
<1> DEFINE todo == eval[q].todo
           view == eval[q].view
<1>0. eval[q].pc = "pin" /\ UNCHANGED <<rules, asks, fleet, pin, order>>
  BY Zenon DEF GetPin
<1>1. CASE \E pinned : evaluateSticky(q, pinned) /\ calm' = {}
  <2>1. PICK n : Advance(q, n) /\ IsEvaluation(n) /\ n.pc # "idle"
    BY Zenon, <1>0, <1>1, PinFields
  <2> QED BY Zenon, <1>0, <1>1, <2>1, Turn
<1>2. CASE evaluateSticky(q, pin) /\ calm' = calm
  <2>1. PICK n :
          /\ Advance(q, n) /\ IsEvaluation(n) /\ n.pc # "idle" /\ n.outcome # "ok"
          /\ \/ n.pc = "done"
             \/ n.pc = "rule" /\ DOMAIN view = {} /\ Len(todo) > 1 /\ n.todo = Tail(todo)
             \/ /\ n.pc = "set" /\ n.todo = todo /\ DOMAIN view # {}
                /\ n.picked = IF pin \in DOMAIN view THEN pin ELSE selectExecutor(view)
    BY Zenon, <1>0, <1>2, PinFields
  <2> HIDE DEF todo, view
  <2>2. ASSUME q \in calm, asks[q].sticky
        PROVE  /\ Reach(matchingRules(rules, asks[q]), todo, asks[q])
               /\ DOMAIN view = Usable(Head(todo), asks[q])
               /\ DOMAIN view # {} => selectExecutor(view) \in DOMAIN view
    <3>1. /\ Reach(matchingRules(rules, asks[q]), todo, asks[q])
          /\ DOMAIN view = Usable(Head(todo), asks[q])
          /\ \A w \in DOMAIN view : view[w] \in Reports
      BY Zenon, <1>0, <2>2 DEF RoutingInv, Steady, IsSteady, todo, view
    <3>2. DOMAIN view \subseteq Executors
      BY Zenon, <3>1, UsableTyped
    <3> QED BY Zenon, <3>1, <3>2, SelectsCandidate
  <2>3. ASSUME q \in calm, asks[q].sticky
        PROVE  IsSteady(n, asks[q])
    <3>1. n.pc = "set" => n.picked \in DOMAIN view
      BY Zenon, <2>1, <2>2, <2>3
    <3> QED BY Zenon, <2>1, <2>2, <2>3, <3>1, ReachOn DEF IsSteady
  <2>4. ASSUME NEW a \in Evaluations, q \in calm, Pins(a), asks[a] = asks[q],
               pin = eval[a].picked, IsSteady(eval[a], asks[a]), IsBehind(eval[q], a)
        PROVE  pin' = eval[a].picked /\ IsBehind(n, a)
    <3>1. eval[a].picked \in Usable(Head(eval[a].todo), asks[a]) /\ asks[q].sticky
      BY Zenon, <2>4 DEF IsSteady, Pins
    <3>2. Reach(todo, eval[a].todo, asks[a]) /\ DOMAIN view = Usable(Head(todo), asks[a])
      BY Zenon, <1>0, <2>2, <2>4, <3>1 DEF IsBehind, todo
    <3>3. CASE n.pc = "rule"
      <4>1. Reach(n.todo, eval[a].todo, asks[a])
        BY Zenon, <2>1, <3>1, <3>2, <3>3, ReachPast
      <4> QED BY Zenon, <1>0, <2>1, <2>4, <3>3, <4>1 DEF IsBehind
    <3>4. CASE n.pc = "set"
      <4>1. n.todo = todo /\ DOMAIN view # {}
            /\ n.picked = IF pin \in DOMAIN view THEN pin ELSE selectExecutor(view)
        BY Zenon, <2>1, <3>4
      <4>2. eval[a].todo = todo
        BY Zenon, <3>2, <4>1, ReachStops
      <4>3. pin \in DOMAIN view
        BY Zenon, <2>4, <3>1, <3>2, <4>2
      <4> QED BY Zenon, <1>0, <2>4, <3>4, <4>1, <4>2, <4>3 DEF IsBehind
    <3>5. CASE n.pc = "done"
      BY Zenon, <1>0, <2>1, <2>4, <3>5 DEF IsBehind
    <3> QED BY Zenon, <2>1, <3>3, <3>4, <3>5
  <2> QED BY Zenon, <1>0, <1>2, <2>1, <2>3, <2>4, Turn
<1> QED BY Zenon, <1>1, <1>2 DEF GetPin, Undisturbed, Disturb

LEMMA SetPinKeeps ==
    ASSUME RoutingInv, NEW q \in Evaluations, SetPin(q)
    PROVE  RoutingInv'
<1>1. eval[q].pc = "set" /\ UNCHANGED <<rules, asks, fleet, order>>
  BY Zenon DEF SetPin
<1>2. PICK n : n = Selected(q, eval[q].picked)
  BY Zenon
<1>3. /\ Advance(q, n) /\ IsEvaluation(n) /\ n.pc = "done" /\ n.outcome = "ok"
      /\ n.todo = eval[q].todo /\ n.picked = eval[q].picked
  <2>1. IsEvaluation(eval[q])
    BY Zenon DEF RoutingInv
  <2>2. \A w : /\ IsEvaluation(Selected(q, w)) /\ Selected(q, w).pc = "done"
               /\ Selected(q, w).outcome = "ok" /\ Selected(q, w).todo = eval[q].todo
               /\ Selected(q, w).picked = w
    BY <2>1, SelectedFields
  <2> QED BY Zenon, <1>2, <2>2 DEF SetPin
<1>4. n.pc # "idle"
  BY Zenon, <1>3
<1>5. CASE calm' = {}
  BY Zenon, <1>1, <1>3, <1>4, <1>5, Turn
<1>6. CASE calm' = calm /\ (Head(eval[q].todo).ttl > 0 => pin' = eval[q].picked)
  <2>1. ASSUME q \in calm, asks[q].sticky
        PROVE  /\ IsSteady(n, asks[q])
               /\ n.outcome = "ok" /\ Head(n.todo).ttl > 0 => pin' = n.picked
    <3>1. /\ Reach(matchingRules(rules, asks[q]), n.todo, asks[q])
          /\ n.picked \in Usable(Head(n.todo), asks[q])
      BY Zenon, <1>1, <1>3, <2>1 DEF RoutingInv, Steady, IsSteady
    <3>2. IsSteady(n, asks[q])
      BY Zenon, <1>3, <3>1 DEF IsSteady
    <3> QED BY Zenon, <1>3, <1>6, <3>2
  <2>2. ASSUME NEW a \in Evaluations, Pins(a), IsBehind(eval[q], a)
        PROVE  pin' = eval[a].picked /\ IsBehind(n, a)
    <3>1. eval[q].todo = eval[a].todo /\ eval[q].picked = eval[a].picked
          /\ Head(eval[a].todo).ttl > 0
      BY Zenon, <1>1, <2>2 DEF IsBehind, Pins
    <3>2. pin' = eval[a].picked /\ n.picked = eval[a].picked
      BY Zenon, <1>3, <1>6, <3>1
    <3> QED BY Zenon, <1>3, <3>2 DEF IsBehind
  <2> QED BY Zenon, <1>1, <1>3, <1>4, <1>6, <2>1, <2>2, Turn
<1> QED BY Zenon, <1>5, <1>6 DEF SetPin, Undisturbed, Disturb

\* A request begins with all its rules before it.  When none is under way, those that began
\* before it are over.
LEMMA EvaluateKeeps ==
    ASSUME RoutingInv, NEW q \in Evaluations, Evaluate(q)
    PROVE  RoutingInv'
<1> DEFINE m == matchingRules(rules, asks[q])
<1>0. /\ eval[q].pc = "idle" /\ IsEvaluation(eval[q]) /\ order' = Append(order, q)
      /\ calm' = (IF Running = {} THEN calm \cup {q} ELSE {})
      /\ UNCHANGED <<rules, asks, fleet, pin>>
  BY Zenon DEF Evaluate, RoutingInv
<1> HIDE DEF m
<1>1. PICK n : /\ Advance(q, n) /\ IsEvaluation(n) /\ n.outcome # "ok"
               /\ n.pc = "done" \/ (n.pc = "rule" /\ n.todo = m)
  <2>1. \/ Advance(q, Ended(q, "route_no_match"))
        \/ Advance(q, [eval[q] EXCEPT !.pc = "rule", !.todo = m, !.pinned = pin])
    BY Zenon DEF Evaluate, m
  <2>2. CASE Advance(q, Ended(q, "route_no_match"))
    <3>1. PICK n : n = Ended(q, "route_no_match")
      BY Zenon
    <3>2. IsEvaluation(n) /\ n.pc = "done" /\ n.outcome = "route_no_match"
      BY ZenonT(30), <1>0, <3>1, EndedFields
    <3>3. n.outcome # "ok"
      BY Zenon, <3>2
    <3> QED BY Zenon, <2>2, <3>1, <3>2, <3>3
  <2>3. CASE Advance(q, [eval[q] EXCEPT !.pc = "rule", !.todo = m, !.pinned = pin])
    <3>1. PICK e : e = eval[q]
      BY Zenon
    <3>2. PICK n : n = [e EXCEPT !.pc = "rule", !.todo = m, !.pinned = pin]
      BY Zenon
    <3>3. n = [pc |-> "rule", todo |-> m, view |-> e.view, pinned |-> pin,
               picked |-> e.picked, unfit |-> e.unfit, full |-> e.full, outcome |-> e.outcome]
      BY Zenon, <1>0, <3>1, <3>2 DEF IsEvaluation
    <3>4. n.pc = "rule" /\ n.todo = m /\ n.outcome = e.outcome /\ e.outcome # "ok"
      BY Zenon, <1>0, <3>1, <3>3 DEF IsEvaluation
    <3>5. IsEvaluation(n)
      BY Zenon, <1>0, <3>1, <3>3, <3>4 DEF IsEvaluation
    <3> QED BY Zenon, <2>3, <3>1, <3>2, <3>4, <3>5
  <2> QED BY Zenon, <2>1, <2>2, <2>3
<1>2. /\ eval' = [r \in Evaluations |-> eval'[r]] /\ eval'[q] = n
      /\ \A r \in Evaluations \ {q} : eval'[r] = eval[r]
  BY Zenon, <1>1 DEF RoutingInv, Advance
<1>3. n.pc # "idle"
  BY Zenon, <1>1
<1>4. /\ order \in Seq(Evaluations) /\ order' \in Seq(Evaluations) /\ Len(order') = Len(order) + 1
      /\ Len(order) \in Nat /\ order'[Len(order')] = q
      /\ \A i \in 1..Len(order) : order'[i] = order[i] /\ order[i] \in Evaluations
  BY <1>0 DEF RoutingInv, OrderFits
<1>5. \A i \in 1..Len(order) : order[i] # q /\ eval[order[i]].pc # "idle"
  BY Zenon, <1>0, <1>4 DEF RoutingInv, OrderFits
<1>6. /\ \A i \in 1..Len(order) : i \in 1..Len(order')
      /\ Len(order') \in 1..Len(order')
      /\ \A i \in 1..Len(order') : i = Len(order') \/ i \in 1..Len(order)
      /\ \A i \in 1..(Len(order') - 1) : i \in 1..Len(order)
  BY <1>4
<1>7. OrderFits'
  <2>1. ASSUME NEW r \in Evaluations
        PROVE  eval'[r].pc # "idle" <=> \E i \in 1..Len(order') : order'[i] = r
    <3>1. CASE r = q
      BY Zenon, <1>2, <1>3, <1>4, <1>6, <3>1
    <3>2. CASE r # q
      <4>1. eval'[r].pc # "idle" <=> \E i \in 1..Len(order) : order[i] = r
        BY Zenon, <1>2, <3>2 DEF RoutingInv, OrderFits
      <4> QED BY Zenon, <1>4, <1>6, <3>2, <4>1
    <3> QED BY Zenon, <3>1, <3>2
  <2>2. \A r \in calm' : eval'[r].pc # "idle"
    BY Zenon, <1>0, <1>2, <1>3 DEF RoutingInv, OrderFits
  <2>3. ASSUME calm' # {}, NEW i \in 1..(Len(order') - 1)
        PROVE  eval'[order'[i]].pc = "done"
    <3>1. i \in 1..Len(order) /\ order'[i] = order[i] /\ order[i] \in Evaluations /\ order[i] # q
      BY Zenon, <1>4, <1>5, <1>6
    <3>2. order[i] \notin Running
      BY Zenon, <1>0, <2>3
    <3>3. eval[order[i]].pc \in {"idle", "rule", "pin", "set", "done"} /\ eval[order[i]].pc # "idle"
      BY Zenon, <1>5, <3>1 DEF RoutingInv, IsEvaluation
    <3> QED BY Zenon, <1>2, <3>1, <3>2, <3>3 DEF Running
  <2>4. calm' \subseteq Evaluations
    BY Zenon, <1>0 DEF RoutingInv, OrderFits
  <2> QED BY Zenon, <1>4, <2>1, <2>2, <2>3, <2>4 DEF OrderFits
<1>8. /\ \A x, y, req : Reach(x, y, req)' <=> Reach(x, y, req)
      /\ \A e, req : IsSteady(e, req)' <=> IsSteady(e, req)
  BY Zenon, <1>0, SameSteady
<1>9. Steady'
  <2> SUFFICES ASSUME NEW r \in calm', asks[r].sticky PROVE IsSteady(eval'[r], asks[r])
    BY Zenon, <1>0, <1>8 DEF Steady
  <2>1. CASE r = q
    <3>1. IsSteady(n, asks[q])
      BY Zenon, <1>1, ReachSelf DEF IsSteady, m
    <3> QED BY Zenon, <1>2, <2>1, <3>1
  <2>2. CASE r # q
    <3>1. r \in calm /\ r \in Evaluations
      BY Zenon, <1>0, <2>2 DEF RoutingInv, OrderFits
    <3> QED BY Zenon, <1>2, <2>2, <3>1 DEF RoutingInv, Steady
  <2> QED BY Zenon, <2>1, <2>2
<1>10. FirstPins'
  <2> SUFFICES ASSUME NEW a \in Evaluations, order' = <<a>>, Pins(a)' PROVE FALSE
    BY Zenon DEF FirstPins
  <2>1. a = q
    BY Zenon, <1>4
  <2> QED BY Zenon, <1>1, <1>2, <2>1 DEF Pins
<1>11. SecondFollows'
  <2> SUFFICES ASSUME NEW a \in Evaluations, NEW b \in Evaluations, order' = <<a, b>>, Pins(a)',
                      asks[a] = asks[b]
               PROVE  pin' = eval'[a].picked /\ IsBehind(eval[b], a)'
    BY Zenon, <1>0 DEF SecondFollows
  <2>1. b = q /\ order = <<a>>
    <3>1. Len(order') = 2 /\ order'[1] = a /\ order'[2] = b
      BY Zenon
    <3>3. Len(order) = 1 /\ 1 \in 1..Len(order) /\ Len(order') = 2
      <4>1. PICK k \in Nat : k = Len(order)
        BY Zenon, <1>4
      <4>2. 2 = k + 1
        BY Zenon, <1>4, <3>1, <4>1
      <4>3. k = 1
        BY <4>2
      <4>4. 1 \in 1..1
        OBVIOUS
      <4> QED BY Zenon, <3>1, <4>1, <4>3, <4>4
    <3>2. Len(order) = 1 /\ order[1] = a /\ b = q
      BY Zenon, <1>4, <3>1, <3>3
    <3> QED BY <1>4, <3>2
  <2>2. Len(order) = 1 /\ order[1] = a
    BY Zenon, <2>1
  <2>3. a # q
    BY <1>5, <2>2
  <2>4. eval'[a] = eval[a] /\ eval'[b] = n /\ a \in calm
    BY Zenon, <1>0, <1>2, <2>1, <2>3 DEF Pins
  <2>5. Pins(a)
    BY Zenon, <1>0, <2>4 DEF Pins
  <2>6. pin = eval[a].picked /\ IsSteady(eval[a], asks[a])
    BY Zenon, <2>1, <2>5 DEF RoutingInv, FirstPins, Steady, Pins
  <2>7. Reach(matchingRules(rules, asks[a]), eval[a].todo, asks[a])
    BY Zenon, <2>5, <2>6 DEF IsSteady, Pins
  <2>8. n.pc = "rule" => Reach(n.todo, eval[a].todo, asks[a])
    BY Zenon, <1>1, <2>1, <2>7 DEF m
  <2>9. n.pc \notin {"pin", "set"}
    BY Zenon, <1>1
  <2> QED BY Zenon, <1>0, <1>1, <1>8, <2>4, <2>6, <2>8, <2>9 DEF IsBehind
<1> QED BY Zenon, <1>0, <1>1, <1>2, <1>7, <1>9, <1>10, <1>11 DEF RoutingInv

LEMMA FleetKeeps ==
    ASSUME RoutingInv, UNCHANGED <<rules, asks, eval, order>>, fleet' \in [Executors -> Reports],
           \/ calm' = {}
           \/ /\ calm' = calm /\ pin' = pin
              /\ \A w \in Executors : fleet'[w].state = fleet[w].state /\ fleet'[w].cap = fleet[w].cap
    PROVE  RoutingInv'
<1>1. eval' = [q \in Evaluations |-> eval'[q]] /\ \A q \in Evaluations : IsEvaluation(eval'[q])
  BY Zenon DEF RoutingInv
<1>2. OrderFits'
  BY Zenon DEF RoutingInv, OrderFits
<1>3. CASE calm' = {}
  BY Zenon, <1>1, <1>2, <1>3 DEF RoutingInv, Steady, FirstPins, SecondFollows, Pins
<1>4. CASE calm' # {}
  <2>1. /\ \A x, y, req : Reach(x, y, req)' <=> Reach(x, y, req)
        /\ \A e, req : IsSteady(e, req)' <=> IsSteady(e, req)
    BY Zenon, <1>4, SameSteady
  <2>2. calm' = calm /\ pin' = pin
    BY Zenon, <1>4
  <2>3. Steady'
    BY Zenon, <2>1, <2>2 DEF RoutingInv, Steady
  <2>4. FirstPins'
    BY Zenon, <2>2 DEF RoutingInv, FirstPins, Pins
  <2>5. SecondFollows'
    BY ZenonT(30), <2>1, <2>2 DEF RoutingInv, SecondFollows, Pins, IsBehind
  <2> QED BY Zenon, <1>1, <1>2, <2>3, <2>4, <2>5 DEF RoutingInv
<1> QED BY Zenon, <1>3, <1>4

LEMMA RoutingInductive ==
    ASSUME RoutingInv, [RoutingNext]_routingVars
    PROVE  RoutingInv'
<1>1. ASSUME NEW q \in Evaluations, Evaluate(q) PROVE RoutingInv'
  BY Zenon, <1>1, EvaluateKeeps
<1>2. ASSUME NEW q \in Evaluations, ReadCandidates(q) PROVE RoutingInv'
  BY Zenon, <1>2, ReadCandidatesKeeps
<1>3. ASSUME NEW q \in Evaluations, GetPin(q) PROVE RoutingInv'
  BY Zenon, <1>3, GetPinKeeps
<1>4. ASSUME NEW q \in Evaluations, SetPin(q) PROVE RoutingInv'
  BY Zenon, <1>4, SetPinKeeps
<1>5. ASSUME NEW w \in Executors, LoadMoves(w) PROVE RoutingInv'
  <2>1. PICK report \in Reports : /\ report.state = fleet[w].state /\ report.cap = fleet[w].cap
                                  /\ fleet' = [fleet EXCEPT ![w] = report]
    BY Zenon, <1>5 DEF LoadMoves
  <2>2. /\ fleet' \in [Executors -> Reports]
        /\ \A v \in Executors : fleet'[v].state = fleet[v].state /\ fleet'[v].cap = fleet[v].cap
    BY Zenon, <2>1 DEF RoutingInv
  <2> QED BY Zenon, <1>5, <2>2, FleetKeeps DEF LoadMoves
<1>6. ASSUME NEW w \in Executors, FleetChanges(w) PROVE RoutingInv'
  <2>1. fleet' \in [Executors -> Reports] /\ calm' = {} /\ UNCHANGED <<rules, asks, eval, order>>
    BY Zenon, <1>6 DEF FleetChanges, Disturb, RoutingInv
  <2> QED BY Zenon, <2>1, FleetKeeps
<1>7. ASSUME PinExpires PROVE RoutingInv'
  <2>1. fleet' \in [Executors -> Reports] /\ calm' = {} /\ UNCHANGED <<rules, asks, eval, order>>
    BY Zenon, <1>7 DEF PinExpires, Disturb, RoutingInv
  <2> QED BY Zenon, <2>1, FleetKeeps
<1>8. ASSUME UNCHANGED routingVars PROVE RoutingInv'
  <2>1. UNCHANGED <<rules, asks, eval, order, fleet, calm, pin>>
    BY Zenon, <1>8 DEF routingVars
  <2>2. fleet' \in [Executors -> Reports]
    BY Zenon, <2>1 DEF RoutingInv
  <2> QED BY Zenon, <2>1, <2>2, FleetKeeps
<1> QED BY Zenon, <1>1, <1>2, <1>3, <1>4, <1>5, <1>6, <1>7, <1>8 DEF RoutingNext

\* A session stays with its worker: of two like requests, one after the other, the second
\* is routed to the worker of the first, whatever the rules, the pools, the fleet and the
\* loads, and however many rules either passes over (routing.go:249-274).
THEOREM StickySession == RoutingSpec => []SessionStays
<1>1. RoutingInv => SessionStays
  <2> SUFFICES ASSUME RoutingInv, NEW a \in Evaluations, NEW b \in Evaluations, Followed(a, b),
                      eval[b].outcome = "ok"
               PROVE  eval[b].picked = eval[a].picked
    BY Zenon DEF SessionStays
  <2>1. order = <<a, b>> /\ Pins(a) /\ b \in calm /\ asks[a] = asks[b]
    BY Zenon DEF Followed, Pins
  <2> QED BY Zenon, <2>1 DEF RoutingInv, SecondFollows, IsBehind
<1> QED BY <1>1, RoutingInitHolds, RoutingInductive, PTL DEF RoutingSpec
=============================================================================
