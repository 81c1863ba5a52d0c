------------------------------ MODULE InFlight ------------------------------
(***************************************************************************)
(* The in-flight registry of several Controls (inflight.go) and the Redis  *)
(* ownership records it keeps (runtime_state.go).                          *)
(*                                                                         *)
(* A request id is a clock reading and a per-process counter, so two       *)
(* Controls may come by the same one; Runs lists the pairs that occur.     *)
(* Every Redis call may find Redis out of reach, or be applied and lose    *)
(* its reply; a call under a cancelled context fails before it is sent.    *)
(* The instance key that RunInstanceLease writes is read by nobody: what   *)
(* is modelled of a touch is what it does to readiness.                    *)
(***************************************************************************)
EXTENDS Upsets

CONSTANTS
    Requests,   \* request ids
    Runs,       \* <<c, r>>: a request with id r arrives at Control c
    Nobody      \* no ownership record

ASSUME RunsAssumption == Runs \subseteq Controls \X Requests
ASSUME NobodyAssumption == Nobody \notin Controls

VARIABLES
    phase,      \* where the dispatch of each run stands
    entries,    \* InFlightRegistry.entries of each Control
    live,       \* runs whose context is not cancelled
    renewing,   \* runs with a renewInFlight goroutine
    owner,      \* Redis request keys
    fresh,      \* request keys renewed less than a TTL ago
    cancels,    \* remote cancellations published and not yet delivered
    redis,      \* "up" | "down"
    available,  \* RedisRuntimeState.available of each Control
    process     \* "serving" | "draining" | "stopped"

vars == <<phase, entries, live, renewing, owner, fresh, cancels, redis, available,
          process, upsets>>

RunsOf(c) == {run \in Runs : run[1] = c}
Phases == {"arriving", "inserted", "working", "releasing", "returning", "done"}

Init ==
    /\ phase = [run \in Runs |-> "arriving"]
    /\ entries = [c \in Controls |-> {}]
    /\ live = {}
    /\ renewing = {}
    /\ owner = [r \in Requests |-> Nobody]
    /\ fresh = {}
    /\ cancels = {}
    /\ redis = "up"
    /\ available = [c \in Controls |-> TRUE]
    /\ process = [c \in Controls |-> "serving"]
    /\ upsets = 0

\* A Redis call of Control c: not sent, applied with its reply lost, or applied.
\* The availability flag is the outcome of the latest call, whatever it was for.
Call(c, alive, reply) ==
    /\ IF redis = "down" \/ ~alive THEN reply = "failed" ELSE reply \in {"lost", "done"}
    /\ IF reply = "lost" THEN Upset ELSE UNCHANGED upsets
    /\ available' = [available EXCEPT ![c] = reply = "done"]

Replies == {"failed", "lost", "done"}

\* cancelLocal: the context of the entry with this id, if there is one.
cancelLocal(c, r) == live' = IF r \in entries[c] THEN live \ {<<c, r>>} ELSE live

-----------------------------------------------------------------------------
\* Mutant: the entry is not stored before the claim.
InsertUnstored(c, r) ==
    /\ phase[<<c, r>>] = "arriving" /\ process[c] = "serving"
    /\ phase' = [phase EXCEPT ![<<c, r>>] = "inserted"]
    /\ live' = live \cup {<<c, r>>}
    /\ UNCHANGED <<entries, renewing, owner, fresh, cancels, redis, available, process, upsets>>

\* Register stores the entry before it claims the id.
Insert(c, r) ==
    /\ phase[<<c, r>>] = "arriving" /\ process[c] = "serving"
    /\ phase' = [phase EXCEPT ![<<c, r>>] = "inserted"]
    /\ entries' = [entries EXCEPT ![c] = @ \cup {r}]
    /\ live' = live \cup {<<c, r>>}
    /\ UNCHANGED <<renewing, owner, fresh, cancels, redis, available, process, upsets>>

\* SET NX PX: anything but a confirmed claim cancels the request, which still runs
\* to its end under the cancelled context.
Claim(c, r) ==
    /\ phase[<<c, r>>] = "inserted"
    /\ phase' = [phase EXCEPT ![<<c, r>>] = "working"]
    /\ \E reply \in Replies :
        LET free == owner[r] = Nobody IN
        /\ Call(c, <<c, r>> \in live, reply)
        /\ IF free /\ reply # "failed"
           THEN owner' = [owner EXCEPT ![r] = c] /\ fresh' = fresh \cup {r}
           ELSE UNCHANGED <<owner, fresh>>
        /\ IF free /\ reply = "done"
           THEN renewing' = renewing \cup {<<c, r>>} /\ UNCHANGED live
           ELSE cancelLocal(c, r) /\ UNCHANGED renewing
    /\ UNCHANGED <<entries, cancels, redis, process>>

\* Mutant: a record that names another instance only ends the renewal.
RenewForgiving(c, r) ==
    /\ <<c, r>> \in renewing
    /\ \E reply \in Replies :
        LET held == owner[r] = c IN
        /\ Call(c, <<c, r>> \in live, reply)
        /\ fresh' = IF held /\ reply # "failed" THEN fresh \cup {r} ELSE fresh
        /\ renewing' = IF held /\ reply = "done" THEN renewing ELSE renewing \ {<<c, r>>}
    /\ UNCHANGED <<phase, entries, live, owner, cancels, redis, process>>

\* renewInFlight, a tick: PEXPIRE if the record still names this instance.
Renew(c, r) ==
    /\ <<c, r>> \in renewing
    /\ \E reply \in Replies :
        LET held == owner[r] = c IN
        /\ Call(c, <<c, r>> \in live, reply)
        /\ fresh' = IF held /\ reply # "failed" THEN fresh \cup {r} ELSE fresh
        /\ IF held /\ reply = "done"
           THEN UNCHANGED <<live, renewing>>
           ELSE cancelLocal(c, r) /\ renewing' = renewing \ {<<c, r>>}
    /\ UNCHANGED <<phase, entries, owner, cancels, redis, process>>

\* renewInFlight, ctx.Done.
StopRenewing(c, r) ==
    /\ <<c, r>> \in renewing \ live
    /\ renewing' = renewing \ {<<c, r>>}
    /\ UNCHANGED <<phase, entries, live, owner, fresh, cancels, redis, available, process, upsets>>

\* The request ends, on its own account or because its context is cancelled;
\* Deregister deletes the entry...
Finish(c, r) ==
    /\ phase[<<c, r>>] = "working"
    /\ phase' = [phase EXCEPT ![<<c, r>>] = "releasing"]
    /\ entries' = [entries EXCEPT ![c] = @ \ {r}]
    /\ UNCHANGED <<live, renewing, owner, fresh, cancels, redis, available, process, upsets>>

\* Mutant: the record is deleted whomever it names.
ReleaseAny(c, r) ==
    /\ phase[<<c, r>>] = "releasing"
    /\ phase' = [phase EXCEPT ![<<c, r>>] = "returning"]
    /\ \E reply \in Replies :
        /\ Call(c, <<c, r>> \in live, reply)
        /\ IF reply # "failed"
           THEN owner' = [owner EXCEPT ![r] = Nobody] /\ fresh' = fresh \ {r}
           ELSE UNCHANGED <<owner, fresh>>
    /\ UNCHANGED <<entries, live, renewing, cancels, redis, process>>

\* ...and releases the record if it names this instance, under the request's own
\* context: a cancelled request cannot release and leaves its record to the TTL.
Release(c, r) ==
    /\ phase[<<c, r>>] = "releasing"
    /\ phase' = [phase EXCEPT ![<<c, r>>] = "returning"]
    /\ \E reply \in Replies :
        /\ Call(c, <<c, r>> \in live, reply)
        /\ IF owner[r] = c /\ reply # "failed"
           THEN owner' = [owner EXCEPT ![r] = Nobody] /\ fresh' = fresh \ {r}
           ELSE UNCHANGED <<owner, fresh>>
    /\ UNCHANGED <<entries, live, renewing, cancels, redis, process>>

\* Mutant: the context is not cancelled on return.
ReturnUncancelled(c, r) ==
    /\ phase[<<c, r>>] = "returning"
    /\ phase' = [phase EXCEPT ![<<c, r>>] = "done"]
    /\ UNCHANGED <<entries, live, renewing, owner, fresh, cancels, redis, available, process, upsets>>

\* The deferred cancel runs after the deferred Deregister.
Return(c, r) ==
    /\ phase[<<c, r>>] = "returning"
    /\ phase' = [phase EXCEPT ![<<c, r>>] = "done"]
    /\ live' = live \ {<<c, r>>}
    /\ UNCHANGED <<entries, renewing, owner, fresh, cancels, redis, available, process, upsets>>

-----------------------------------------------------------------------------
\* The client goes away: its request context is cancelled.
Disconnect(c, r) ==
    /\ <<c, r>> \in live
    /\ live' = live \ {<<c, r>>}
    /\ UNCHANGED <<phase, entries, renewing, owner, fresh, cancels, redis, available, process, upsets>>

\* Cancel for an entry of this Control; otherwise its owner is read from Redis and
\* told over NATS.
Cancel(c, r) ==
    /\ process[c] # "stopped"
    /\ IF r \in entries[c]
       THEN cancelLocal(c, r) /\ UNCHANGED <<cancels, available, upsets>>
       ELSE \E reply \in Replies :
              /\ Call(c, TRUE, reply)
              /\ cancels' = IF reply = "done" /\ owner[r] # Nobody
                            THEN cancels \cup {<<owner[r], r>>} ELSE cancels
              /\ UNCHANGED live
    /\ UNCHANGED <<phase, entries, renewing, owner, fresh, redis, process>>

\* The subscription of SetupRemoteCancellation; a stopped process hears nothing.
Deliver(c, r) ==
    /\ <<c, r>> \in cancels
    /\ cancels' = cancels \ {<<c, r>>}
    /\ cancelLocal(c, r)
    /\ UNCHANGED <<phase, entries, renewing, owner, fresh, redis, available, process, upsets>>

-----------------------------------------------------------------------------
\* A TTL runs out in two steps; a renewal in between starts it anew.
Age(r) ==
    /\ r \in fresh
    /\ fresh' = fresh \ {r}
    /\ UNCHANGED <<phase, entries, live, renewing, owner, cancels, redis, available, process, upsets>>

Expire(r) ==
    /\ owner[r] # Nobody /\ r \notin fresh
    /\ owner' = [owner EXCEPT ![r] = Nobody]
    /\ UNCHANGED <<phase, entries, live, renewing, fresh, cancels, redis, available, process, upsets>>

Outage ==
    /\ redis = "up" /\ Upset
    /\ redis' = "down"
    /\ UNCHANGED <<phase, entries, live, renewing, owner, fresh, cancels, available, process>>

\* Redis returns, with its keys or without them.
Recovery ==
    /\ redis = "down" /\ redis' = "up"
    /\ \/ UNCHANGED <<owner, fresh>>
       \/ owner' = [r \in Requests |-> Nobody] /\ fresh' = {}
    /\ UNCHANGED <<phase, entries, live, renewing, cancels, available, process, upsets>>

-----------------------------------------------------------------------------
\* RunInstanceLease: every third of the TTL, under the context SIGTERM cancels.
Touch(c) ==
    /\ process[c] = "serving"
    /\ \E reply \in Replies : Call(c, TRUE, reply)
    /\ UNCHANGED <<phase, entries, live, renewing, owner, fresh, cancels, redis, process>>

\* SIGTERM: the listeners close, the lease is touched once more and then left.  The
\* process waits for its active requests; without any it does nothing more.
Drain(c) ==
    /\ process[c] = "serving"
    /\ process' = [process EXCEPT ![c] = "draining"]
    /\ \E reply \in Replies : Call(c, TRUE, reply)
    /\ UNCHANGED <<phase, entries, live, renewing, owner, fresh, cancels, redis>>

Crash(c) ==
    /\ process[c] # "stopped" /\ Upset
    /\ process' = [process EXCEPT ![c] = "stopped"]
    /\ phase' = [run \in Runs |-> IF run[1] = c THEN "done" ELSE phase[run]]
    /\ entries' = [entries EXCEPT ![c] = {}]
    /\ live' = live \ RunsOf(c)
    /\ renewing' = renewing \ RunsOf(c)
    /\ UNCHANGED <<owner, fresh, cancels, redis, available>>

Request(c, r) ==
    \/ Insert(c, r) \/ Claim(c, r) \/ Finish(c, r) \/ Release(c, r) \/ Return(c, r)
    \/ Renew(c, r) \/ StopRenewing(c, r) \/ Disconnect(c, r)

Next ==
    \/ \E run \in Runs : Request(run[1], run[2])
    \/ \E c \in Controls, r \in Requests : Cancel(c, r) \/ Deliver(c, r)
    \/ \E r \in Requests : Age(r) \/ Expire(r)
    \/ Outage \/ Recovery
    \/ \E c \in Controls : Touch(c) \/ Drain(c) \/ Crash(c)

Spec == Init /\ [][Next]_vars

\* A request is expected to end only once its context is cancelled: before that it
\* may last as long as it likes.
Handler(c, r) ==
    \/ Claim(c, r) \/ Release(c, r) \/ Return(c, r)
    \/ <<c, r>> \notin live /\ Finish(c, r)

\* The goroutines run, tickers tick and TTLs run out.
Fairness ==
    /\ \A run \in Runs : LET c == run[1] r == run[2] IN
        WF_vars(Handler(c, r)) /\ WF_vars(Renew(c, r) \/ StopRenewing(c, r))
    /\ \A r \in Requests : WF_vars(Age(r) \/ Expire(r))
    /\ \A c \in Controls : WF_vars(Touch(c))

FairSpec == Spec /\ Fairness

-----------------------------------------------------------------------------
TypeOK ==
    /\ phase \in [Runs -> Phases]
    /\ entries \in [Controls -> SUBSET Requests]
    /\ live \subseteq Runs /\ renewing \subseteq Runs
    /\ owner \in [Requests -> Controls \cup {Nobody}]
    /\ fresh \subseteq Requests
    /\ cancels \subseteq Controls \X Requests
    /\ redis \in {"up", "down"} /\ available \in [Controls -> BOOLEAN]
    /\ process \in [Controls -> {"serving", "draining", "stopped"}]
    /\ upsets \in 0..MaxUpsets

\* A cancellation on its way to the owner of a record finds the entry it is for,
\* unless that request is already over: Register stores the entry before the record
\* that leads a canceller to it exists (inflight.go:75-80).
CancelFindsEntry ==
    \A run \in cancels \cap Runs :
        \/ run[2] \in entries[run[1]]
        \/ phase[run] \in {"releasing", "returning", "done"}

\* A record goes away by its TTL, with Redis, or by the hand of the instance it names:
\* no late release or renewal of another Control takes a request id that has since
\* changed hands (runtime_state.go:232-244).
OthersRecordsAreKept ==
    [][\A c \in Controls, r \in Requests :
        owner[r] = c /\ owner'[r] # c =>
            /\ owner'[r] = Nobody
            /\ \A run \in Runs : run # <<c, r>> => phase'[run] = phase[run]]_vars

\* A request that no longer owns its id is cancelled: it does not go on beside
\* another one, or out of reach of an administrator (inflight.go:154-176).
LostOwnershipEndsRequest ==
    \A run \in Runs :
        (phase[run] = "working" /\ owner[run[2]] # run[1]) ~>
            (run \notin live \/ owner[run[2]] = run[1])

\* The record of a request that is over goes away, even when the release failed or
\* was never sent: nothing renews it any longer (inflight.go:140-176).
OrphansExpire ==
    \A run \in Runs :
        (phase[run] = "done" /\ owner[run[2]] = run[1]) ~> owner[run[2]] # run[1]

=============================================================================
