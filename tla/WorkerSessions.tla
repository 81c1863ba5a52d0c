--------------------------- MODULE WorkerSessions ---------------------------
(***************************************************************************)
(* The worker registry several Controls share through Redis                *)
(* (worker_registry.go over runtime_state.go): registration, heartbeats,   *)
(* selection and the failure cooldown.                                     *)
(*                                                                         *)
(* Registrations and heartbeats are NATS requests to the queue group of    *)
(* the Controls, so any Control may handle any of them, one registration   *)
(* and one heartbeat at a time, and each handler makes more than one Redis *)
(* call.  The session that a worker's n-th registration is given is called *)
(* n.  Redis calls may fail, with or without effect, and keys may expire.  *)
(* Everything a worker does on its own account (registering again when a   *)
(* heartbeat is refused or an answer is late) is the SDK's.                *)
(***************************************************************************)
EXTENDS Upsets

CONSTANTS
    Workers,        \* worker ids
    FailureCount,   \* WorkerTimings.CooldownFailureCount
    MaxSessions,    \* bound: registrations of one worker
    MaxFailures     \* bound: failed requests

ASSUME FailureCountAssumption == FailureCount \in Nat \ {0}
ASSUME SessionBoundsAssumption == MaxSessions \in Nat /\ MaxFailures \in Nat

VARIABLES
    fence,      \* Redis worker-fence keys: the session heartbeats must name
    shared,     \* Redis worker keys: the stored session and its status
    count,      \* Redis failure keys: failures counted against a session
    cooling,    \* Redis cooldown keys
    queue,      \* registration requests not yet handled
    beats,      \* heartbeat requests not yet handled
    registering,    \* the registration each Control is handling
    beating,        \* the heartbeat each Control is handling
    worker,     \* what each worker knows of its registration
    latest,     \* the session last written by putWorker
    refused,    \* sessions whose heartbeat was answered unknown_worker_session
    assigned,   \* requests under way: the worker and the session they went to
    charging,   \* RecordFailure calls between their read and their write
    failed,     \* requests that failed, by the session they went to
    failures

sessionsVars == <<fence, shared, count, cooling, queue, beats, registering, beating, worker,
          latest, refused, assigned, charging, failed, upsets, failures>>

registry == <<fence, shared, latest>>
routing == <<count, cooling, assigned, charging, failed, failures>>

Sessions == 1..MaxSessions
Slots == Workers \X Sessions

\* "registered" until the first heartbeat; "stale" past AvailabilityTimeout.
NoWorker == [session |-> 0, status |-> "absent"]
SharedWorker == [session : Sessions, status : {"registered", "ready", "stale"}]

Idle == <<>>

SessionsInit ==
    /\ fence = [w \in Workers |-> 0]
    /\ shared = [w \in Workers |-> NoWorker]
    /\ count = [s \in Slots |-> 0]
    /\ cooling = {}
    /\ queue = {}
    /\ beats = {}
    /\ registering = [c \in Controls |-> Idle]
    /\ beating = [c \in Controls |-> Idle]
    /\ worker = [w \in Workers |-> [session |-> 0, attempt |-> 0, waiting |-> FALSE]]
    /\ latest = [w \in Workers |-> 0]
    /\ refused = {}
    /\ assigned = {}
    /\ charging = {}
    /\ failed = [s \in Slots |-> 0]
    /\ upsets = 0
    /\ failures = 0

Calm == UNCHANGED upsets

-----------------------------------------------------------------------------
(* Registration *)

\* A worker sends a registration and waits; it forgets the session it had.
SendRegister(w) ==
    /\ worker[w].attempt < MaxSessions
    /\ worker' = [worker EXCEPT ![w] =
                     [session |-> 0, attempt |-> @.attempt + 1, waiting |-> TRUE]]
    /\ queue' = queue \union {<<w, worker[w].attempt + 1>>}
    /\ UNCHANGED <<registry, routing, beats, registering, beating, refused>>

Start(w) == worker[w].session = 0 /\ ~worker[w].waiting /\ Calm /\ SendRegister(w)

\* A restart of the worker, or an answer that is not there in time.
StartAgain(w) == worker[w].attempt > 0 /\ Upset /\ SendRegister(w)

\* What the answer to registration <<w, s>> does to the worker, if it still waits for it.
Answered(w, s, session) ==
    worker' = IF worker[w].waiting /\ worker[w].attempt = s
              THEN [worker EXCEPT ![w].session = session, ![w].waiting = FALSE] ELSE worker

\* Register up to putWorker: the checks pass and the session is made, or it is rejected.
Register(c, w, s) ==
    /\ <<w, s>> \in queue
    /\ registering[c] = Idle
    /\ queue' = queue \ {<<w, s>>}
    /\ \/ registering' = [registering EXCEPT ![c] = <<w, s>>] /\ Calm /\ UNCHANGED worker
       \/ UNCHANGED registering /\ Upset /\ Answered(w, s, 0)
    /\ UNCHANGED <<registry, routing, beats, beating, refused>>

\* putWorker's script: the fence and the session, together.
Stored(w, s) ==
    /\ fence' = [fence EXCEPT ![w] = s]
    /\ shared' = [shared EXCEPT ![w] = [session |-> s, status |-> "registered"]]
    /\ latest' = [latest EXCEPT ![w] = s]

putWorker(c) ==
    /\ registering[c] # Idle
    /\ LET w == registering[c][1]
           s == registering[c][2] IN
       \/ Stored(w, s) /\ Calm /\ Answered(w, s, s)
       \/ (Stored(w, s) \/ UNCHANGED registry) /\ Upset /\ Answered(w, s, 0)
    /\ registering' = [registering EXCEPT ![c] = Idle]
    /\ UNCHANGED <<routing, queue, beats, beating, refused>>

-----------------------------------------------------------------------------
(* Heartbeats *)

SendHeartbeat(w) ==
    /\ worker[w].session # 0
    /\ beats' = beats \union {<<w, worker[w].session>>}
    /\ UNCHANGED <<registry, routing, queue, registering, beating, worker, refused, upsets>>

\* "unknown_worker_session": the worker, if that is its session, registers again.
Refused(w, s) ==
    /\ refused' = refused \union {<<w, s>>}
    /\ worker' = IF worker[w].session = s THEN [worker EXCEPT ![w].session = 0] ELSE worker

\* Mutant of Heartbeat: a heartbeat of an unknown session is acknowledged.
HeartbeatLenient(c, w, s) ==
    /\ <<w, s>> \in beats
    /\ beating[c] = Idle
    /\ beats' = beats \ {<<w, s>>}
    /\ beating' = IF shared[w].session = s THEN [beating EXCEPT ![c] = <<w, s>>] ELSE beating
    /\ UNCHANGED <<registry, routing, queue, registering, worker, refused, upsets>>

\* Heartbeat up to heartbeatWorker: read the stored sessions and compare.
Heartbeat(c, w, s) ==
    /\ <<w, s>> \in beats
    /\ beating[c] = Idle
    /\ beats' = beats \ {<<w, s>>}
    /\ \/ /\ shared[w].session = s
          /\ beating' = [beating EXCEPT ![c] = <<w, s>>]
          /\ UNCHANGED <<worker, refused>> /\ Calm
       \/ /\ shared[w].session # s
          /\ Refused(w, s)
          /\ UNCHANGED beating /\ Calm
       \/ UNCHANGED <<worker, refused, beating>> /\ Upset
    /\ UNCHANGED <<registry, routing, queue, registering>>

\* Mutant of heartbeatWorker: the fence is set where it should be compared.
heartbeatWorkerRefences(c) ==
    /\ beating[c] # Idle
    /\ LET w == beating[c][1]
           s == beating[c][2] IN
       /\ shared' = [shared EXCEPT ![w] = [session |-> s, status |-> "ready"]]
       /\ fence' = [fence EXCEPT ![w] = s]
       /\ UNCHANGED <<latest, refused, worker>>
    /\ beating' = [beating EXCEPT ![c] = Idle]
    /\ UNCHANGED <<routing, queue, beats, registering, upsets>>

\* heartbeatWorker's script: the session is stored only under its own fence.
heartbeatWorker(c) ==
    /\ beating[c] # Idle
    /\ LET w == beating[c][1]
           s == beating[c][2]
           beat == [shared EXCEPT ![w] = [session |-> s, status |-> "ready"]] IN
       /\ \/ fence[w] = s /\ shared' = beat /\ Calm /\ UNCHANGED <<refused, worker>>
          \/ fence[w] # s /\ UNCHANGED shared /\ Calm /\ Refused(w, s)
          \/ fence[w] = s /\ shared' = beat /\ Upset /\ UNCHANGED <<refused, worker>>
          \/ UNCHANGED <<shared, refused, worker>> /\ Upset
       /\ UNCHANGED <<fence, latest>>
    /\ beating' = [beating EXCEPT ![c] = Idle]
    /\ UNCHANGED <<routing, queue, beats, registering>>

\* No heartbeat for AvailabilityTimeout.
GoesStale(w) ==
    /\ shared[w].status = "ready"
    /\ shared' = [shared EXCEPT ![w].status = "stale"]
    /\ UNCHANGED <<fence, latest, routing, queue, beats, registering, beating, worker, refused, upsets>>

\* worker_ttl_ms without a heartbeat: both keys expire.
Expires(w) ==
    /\ shared[w] # NoWorker
    /\ Upset
    /\ fence' = [fence EXCEPT ![w] = 0]
    /\ shared' = [shared EXCEPT ![w] = NoWorker]
    /\ UNCHANGED <<latest, routing, queue, beats, registering, beating, worker, refused>>

-----------------------------------------------------------------------------
(* Selection and the failure cooldown *)

\* sharedCandidate: a live session that is not cooling down.  (The overrides of the
\* durable configuration, which RuntimeConfig models, only take workers away.)
Candidate(w) == shared[w].status = "ready" /\ <<w, shared[w].session>> \notin cooling

\* A request is routed to a candidate of the fleet and assigned to its session.
Assign(w) ==
    /\ Candidate(w)
    /\ failures < MaxFailures
    /\ failures' = failures + 1
    /\ assigned' = assigned \union {<<w, shared[w].session>>}
    /\ <<w, shared[w].session>> \notin assigned
    /\ UNCHANGED <<registry, count, cooling, queue, beats, registering, beating, worker, refused,
                   charging, failed, upsets>>

\* RecordFailure(workerID) reads the session the worker has now.  Nothing is recorded
\* for a worker that has none, or when Redis fails.
RecordFailure(slot) ==
    /\ slot \in assigned
    /\ assigned' = assigned \ {slot}
    /\ failed' = [failed EXCEPT ![slot] = @ + 1]
    /\ LET now == shared[slot[1]] IN
       \/ now = NoWorker /\ UNCHANGED charging /\ Calm
       \/ /\ now # NoWorker /\ Calm
          /\ charging' = charging \union {<<slot[1], now.session, slot[2]>>}
       \/ UNCHANGED charging /\ Upset
    /\ UNCHANGED <<registry, count, cooling, queue, beats, registering, beating, worker, refused,
                   failures>>

\* recordWorkerFailure's script: count, and start a cooldown at the threshold.
recordWorkerFailure(f) ==
    LET slot == <<f[1], f[2]>> IN
    /\ f \in charging
    /\ charging' = charging \ {f}
    /\ IF count[slot] + 1 >= FailureCount
       THEN cooling' = cooling \union {slot} /\ count' = [count EXCEPT ![slot] = 0]
       ELSE count' = [count EXCEPT ![slot] = @ + 1] /\ UNCHANGED cooling
    /\ UNCHANGED <<registry, queue, beats, registering, beating, worker, refused, assigned, failed,
                   failures, upsets>>

\* CooldownWindow: the count of a session's failures expires.
WindowEnds(slot) ==
    /\ count[slot] > 0
    /\ count' = [count EXCEPT ![slot] = 0]
    /\ UNCHANGED <<registry, cooling, queue, beats, registering, beating, worker, refused, assigned,
                   charging, failed, failures, upsets>>

\* CooldownDuration.
CooldownEnds(slot) ==
    /\ slot \in cooling
    /\ cooling' = cooling \ {slot}
    /\ UNCHANGED <<registry, count, queue, beats, registering, beating, worker, refused, assigned,
                   charging, failed, failures, upsets>>

-----------------------------------------------------------------------------
(* Specification *)

SessionsNext ==
    \/ \E w \in Workers :
         Start(w) \/ StartAgain(w) \/ SendHeartbeat(w) \/ GoesStale(w) \/ Expires(w) \/ Assign(w)
    \/ \E c \in Controls :
         \/ putWorker(c) \/ heartbeatWorker(c)
         \/ \E w \in Workers, s \in Sessions : Register(c, w, s) \/ Heartbeat(c, w, s)
    \/ \E slot \in Slots : RecordFailure(slot) \/ WindowEnds(slot) \/ CooldownEnds(slot)
    \/ \E f \in charging : recordWorkerFailure(f)

SessionsSpec == SessionsInit /\ [][SessionsNext]_sessionsVars

\* Control's handlers run to their end and its queue group serves every message; a worker
\* without a session registers, and one with a session keeps beating (the SDK).
SessionsFairness ==
    /\ \A c \in Controls :
         /\ WF_sessionsVars(putWorker(c)) /\ WF_sessionsVars(heartbeatWorker(c))
         /\ \A w \in Workers, s \in Sessions :
              WF_sessionsVars(Register(c, w, s)) /\ WF_sessionsVars(Heartbeat(c, w, s))
    /\ \A w \in Workers : WF_sessionsVars(Start(w)) /\ WF_sessionsVars(SendHeartbeat(w))

SessionsFairSpec == SessionsSpec /\ SessionsFairness

-----------------------------------------------------------------------------
(* Properties *)

\* The stored session of a worker and its fence are one registration's.
SessionsTypeOK ==
    /\ shared \in [Workers -> SharedWorker \union {NoWorker}]
    /\ fence = [w \in Workers |-> shared[w].session]
    /\ count \in [Slots -> 0..(FailureCount - 1)]
    /\ cooling \subseteq Slots
    /\ queue \subseteq Slots
    /\ beats \subseteq Slots
    /\ registering \in [Controls -> Slots \union {Idle}]
    /\ beating \in [Controls -> Slots \union {Idle}]
    /\ worker \in [Workers -> [session : 0..MaxSessions, attempt : 0..MaxSessions,
                               waiting : BOOLEAN]]
    /\ latest \in [Workers -> 0..MaxSessions]
    /\ refused \subseteq Slots
    /\ assigned \subseteq Slots
    /\ failed \in [Slots -> 0..MaxFailures]
    /\ upsets \in 0..MaxUpsets
    /\ failures \in 0..MaxFailures

\* "Stale heartbeats cannot overwrite it": the session all Controls route to is the one of
\* the registration written last, even when a heartbeat handler read the session before.
NewestRegistrationWins ==
    \A w \in Workers : shared[w] # NoWorker => shared[w].session = latest[w]

\* A worker that keeps beating, and registers again when it is refused, comes back after
\* any restart, late answer, expiry or Redis error: its own session is routable again.
WorkerReturns ==
    \A w \in Workers :
        []<>(shared[w].session = worker[w].session /\ shared[w].status = "ready")

\* "Scoped to worker and fenced session": a session cools down for its own failures.
CooldownScopedToSession == \A slot \in cooling : failed[slot] >= FailureCount

\* "Worker heartbeats repopulate expired sessions": a heartbeat of the session that was
\* registered last is not refused.
HeartbeatsRepopulate == \A w \in Workers : <<w, latest[w]>> \notin refused
=============================================================================
