--------------------------- MODULE RuntimeConfig ---------------------------
(***************************************************************************)
(* Runtime configuration: the admin service of every Control               *)
(* (internal/control/admin.go) over one durable record in a JetStream KV   *)
(* bucket (config_store.go).                                               *)
(*                                                                         *)
(* Three goroutines of a Control activate snapshots: an admin mutation     *)
(* (serialised by AdminService.mu), the NATS callback of the invalidation  *)
(* subject, and the republisher's ticker.  Only the first holds the mutex, *)
(* and activate is three steps: replace the cache, replace the worker      *)
(* registry's settings, publish what the cache then holds.                 *)
(*                                                                         *)
(* A snapshot is its version and its worker settings, abstracted to the    *)
(* set of workers an operator has stopped (drained or disabled).           *)
(***************************************************************************)
EXTENDS Naturals, Sequences

CONSTANTS
    Controls,      \* the Control instances
    Mutations,     \* the mutations operators submit
    Workers,       \* the workers a snapshot may stop
    HistoryLimit,  \* records the bucket retains
    MaxCrashes     \* bound: crashes of Controls

ASSUME HistoryAssumption == HistoryLimit \in Nat \ {0}
ASSUME CrashesAssumption == MaxCrashes \in Nat

VARIABLES
    store,         \* every record ever current; its index is its KV revision
    up,            \* the running Controls
    cache,         \* ConfigCache.snapshot
    registry,      \* the snapshot behind WorkerRegistry.settings and pools
    task,          \* what each of the three goroutines is activating
    op,            \* where each mutation is
    crashes

vars == <<store, up, cache, registry, task, op, crashes>>

Threads == {"update", "inval", "repub"}
Idle == [pc |-> "idle"]
Unsent == [pc |-> "unsent"]

Current == store[Len(store)]
Stored == {store[n] : n \in 1..Len(store)}
History == {store[n] : n \in {m \in 1..Len(store) : m + HistoryLimit > Len(store)}}

Initial == [version |-> 1, stopped |-> {}]

\* NewNATSConfigStore has created the record and every Control has loaded it.
Init ==
    /\ store = <<Initial>>
    /\ up = Controls
    /\ cache = [c \in Controls |-> Initial]
    /\ registry = [c \in Controls |-> Initial]
    /\ task = [c \in Controls |-> [t \in Threads |-> Idle]]
    /\ op = [o \in Mutations |-> Unsent]
    /\ crashes = 0

-----------------------------------------------------------------------------
(* An operator's mutation *)

\* GET /api/v1/admin/config: the operator learns the current revision.
getConfig(o) ==
    /\ op[o].pc = "unsent"
    /\ op' = [op EXCEPT ![o] = [pc |-> "read", expected |-> Len(store)]]
    /\ UNCHANGED <<store, up, cache, registry, task, crashes>>

\* The handler has its request: the snapshot to activate and how it was made.
Queue(o, c, stopped, edit) ==
    /\ op[o].pc = "read"
    /\ c \in up
    /\ op' = [op EXCEPT ![o] = [pc |-> "queued", expected |-> op[o].expected, at |-> c,
                                stopped |-> stopped, edit |-> edit]]
    /\ UNCHANGED <<store, up, cache, registry, task, crashes>>

\* PUT of a whole snapshot.
putConfig(o, c) == \E stopped \in SUBSET Workers : Queue(o, c, stopped, <<"whole">>)

\* Rollback finds the target in the retained history, before it takes the mutex.
Rollback(o, c) == \E record \in History : Queue(o, c, record.stopped, <<"whole">>)

\* SetWorker edits a copy of the current settings, before it takes the mutex.
SetWorker(o, c) ==
    \E w \in Workers :
        \/ Queue(o, c, Current.stopped \union {w}, <<"stop", w>>)
        \/ Queue(o, c, Current.stopped \ {w}, <<"resume", w>>)

\* The operator is answered; what the answer says decides nothing below.
Answer(o) == op' = [op EXCEPT ![o] = [pc |-> "answered"]]

\* AdminService.mu of a Control is held.
Locked(c) == \E o \in Mutations : op[o].pc \in {"saving", "activating"} /\ op[o].at = c

\* The record Update writes: the version it read plus one.
NewRecord(o) ==
    [version |-> store[op[o].expected].version + 1, stopped |-> op[o].stopped]

\* Mutant of Update: the snapshot is put into the cache before it is durable.
UpdateActivatesFirst(o) ==
    /\ op[o].pc = "queued"
    /\ ~Locked(op[o].at)
    /\ op[o].expected = Len(store)
    /\ op' = [op EXCEPT ![o].pc = "saving"]
    /\ cache' = [cache EXCEPT ![op[o].at] = NewRecord(o)]
    /\ UNCHANGED <<store, up, registry, task, crashes>>

\* Update up to prepareRuntimeSnapshot: take the mutex, read, compare, validate.
Update(o) ==
    /\ op[o].pc = "queued"
    /\ ~Locked(op[o].at)
    /\ \/ op[o].expected # Len(store) /\ Answer(o)
       \/ Answer(o)
       \/ /\ op[o].expected = Len(store)
          /\ op' = [op EXCEPT ![o].pc = "saving"]
    /\ UNCHANGED <<store, up, cache, registry, task, crashes>>

\* Mutant of Save: the bucket is written whatever its revision.
SaveUnconditionally(o) ==
    /\ op[o].pc = "saving"
    /\ store' = Append(store, NewRecord(o))
    /\ task' = [task EXCEPT ![op[o].at]["update"] =
                    [pc |-> "replace", snap |-> NewRecord(o)]]
    /\ op' = [op EXCEPT ![o] = [pc |-> "activating", at |-> op[o].at]]
    /\ UNCHANGED <<up, cache, registry, crashes>>

\* Save: a compare-and-swap on the revision.  Every error of the bucket is answered
\* as a conflict, that of a write that did take effect included.
Save(o) ==
    /\ op[o].pc = "saving"
    /\ \/ /\ op[o].expected = Len(store)
          /\ store' = Append(store, NewRecord(o))
          /\ \/ /\ task' = [task EXCEPT ![op[o].at]["update"] =
                                [pc |-> "replace", snap |-> NewRecord(o)]]
                /\ op' = [op EXCEPT ![o] = [pc |-> "activating", at |-> op[o].at]]
             \/ Answer(o) /\ UNCHANGED task
       \/ Answer(o) /\ UNCHANGED <<store, task>>
    /\ UNCHANGED <<up, cache, registry, crashes>>

-----------------------------------------------------------------------------
(* activate, by whichever goroutine *)

Replace(c, t) ==
    /\ task[c][t].pc = "replace"
    /\ cache' = [cache EXCEPT ![c] = task[c][t].snap]
    /\ task' = [task EXCEPT ![c][t].pc = "apply"]
    /\ UNCHANGED <<store, up, registry, op, crashes>>

\* NATS delivers a snapshot to some of the running Controls.  The callback of the
\* invalidation subject activates a newer one only; what arrives while it is busy
\* counts as lost.  Tasks: what the goroutines do otherwise.
Notify(snapshot, tasks) ==
    \E reached \in SUBSET {c \in up : /\ tasks[c]["inval"].pc = "idle"
                                      /\ snapshot.version > cache[c].version} :
        task' = [c \in Controls |->
                    IF c \notin reached THEN tasks[c]
                    ELSE [tasks[c] EXCEPT !["inval"] = [pc |-> "replace", snap |-> snapshot]]]

\* ApplySnapshot, then publishCurrent, which sends what the cache holds now; an
\* admin mutation then releases the mutex and is answered.
ApplySnapshot(c, t) ==
    /\ task[c][t].pc = "apply"
    /\ registry' = [registry EXCEPT ![c] = task[c][t].snap]
    /\ Notify(cache[c], [task EXCEPT ![c][t] = Idle])
    /\ op' = [o \in Mutations |->
                IF t = "update" /\ op[o].pc = "activating" /\ op[o].at = c
                  THEN [pc |-> "answered"] ELSE op[o]]
    /\ UNCHANGED <<store, up, cache, crashes>>

\* Mutant of RepublisherActivates: the poll expects to be one version behind at most.
RepublisherNextOnly(c) ==
    /\ c \in up
    /\ task[c]["repub"].pc = "idle"
    /\ Current.version = cache[c].version + 1
    /\ task' = [task EXCEPT ![c]["repub"] = [pc |-> "replace", snap |-> Current]]
    /\ UNCHANGED <<store, up, cache, registry, op, crashes>>

\* RunRepublisher's tick reads the durable record and activates it if it is newer
\* than the cache.
RepublisherActivates(c) ==
    /\ c \in up
    /\ task[c]["repub"].pc = "idle"
    /\ Current.version > cache[c].version
    /\ task' = [task EXCEPT ![c]["repub"] = [pc |-> "replace", snap |-> Current]]
    /\ UNCHANGED <<store, up, cache, registry, op, crashes>>

\* Otherwise, or if the record cannot be read, the tick publishes the cache.
Republishes(c) ==
    /\ c \in up
    /\ task[c]["repub"].pc = "idle"
    /\ Notify(cache[c], task)
    /\ UNCHANGED <<store, up, cache, registry, op, crashes>>

-----------------------------------------------------------------------------
(* Crash and restart *)

\* The process dies: its mutations get no answer, its mutex is gone, and its memory
\* means nothing until it is back.
Crash(c) ==
    /\ c \in up
    /\ crashes < MaxCrashes
    /\ crashes' = crashes + 1
    /\ up' = up \ {c}
    /\ task' = [task EXCEPT ![c] = [t \in Threads |-> Idle]]
    /\ op' = [o \in Mutations |->
                IF op[o].pc \in {"queued", "saving", "activating"} /\ op[o].at = c
                  THEN [pc |-> "answered"] ELSE op[o]]
    /\ cache' = [cache EXCEPT ![c] = Initial]
    /\ registry' = [registry EXCEPT ![c] = Initial]
    /\ UNCHANGED store

\* NewAdminService loads the durable record and activates it before serving.
NewAdminService(c) ==
    /\ c \notin up
    /\ up' = up \union {c}
    /\ cache' = [cache EXCEPT ![c] = Current]
    /\ registry' = [registry EXCEPT ![c] = Current]
    /\ Notify(Current, task)
    /\ UNCHANGED <<store, op, crashes>>

-----------------------------------------------------------------------------

Activate(c, t) == Replace(c, t) \/ ApplySnapshot(c, t)

Next ==
    \/ \E o \in Mutations :
        \/ getConfig(o) \/ Update(o) \/ Save(o)
        \/ \E c \in Controls : putConfig(o, c) \/ Rollback(o, c) \/ SetWorker(o, c)
    \/ \E c \in Controls :
        \/ \E t \in Threads : Activate(c, t)
        \/ RepublisherActivates(c) \/ Republishes(c)
        \/ Crash(c) \/ NewAdminService(c)

Spec == Init /\ [][Next]_vars

\* Goroutines run and the ticker ticks; the bucket answers a poll again and again;
\* a crashed Control is restarted.  No notification need ever arrive.
Fairness ==
    /\ \A c \in Controls :
        /\ SF_vars(RepublisherActivates(c))
        /\ WF_vars(NewAdminService(c))
        /\ \A t \in Threads : WF_vars(Activate(c, t))
    /\ \A o \in Mutations : WF_vars(Update(o)) /\ WF_vars(Save(o))

FairSpec == Spec /\ Fairness

-----------------------------------------------------------------------------
(* Properties *)

Snapshots == [version : Nat, stopped : SUBSET Workers]

\* What the bucket, the caches and the notifications hold are snapshots, and a Control's
\* mutex admits one mutation to activation at a time (AdminService.mu).
TypeOK ==
    /\ store \in Seq(Snapshots)
    /\ up \subseteq Controls
    /\ cache \in [Controls -> Snapshots]
    /\ registry \in [Controls -> Snapshots]
    /\ \A c \in Controls, t \in Threads :
        task[c][t].pc \in {"idle", "replace", "apply"}
    /\ \A o \in Mutations :
        op[o].pc \in {"unsent", "read", "queued", "saving", "activating", "answered"}
    /\ \A c \in Controls :
        LET active == {o \in Mutations : op[o].pc = "activating" /\ op[o].at = c} IN
        (task[c]["update"] = Idle <=> active = {}) /\ \A o, p \in active : o = p
    /\ crashes \in 0..MaxCrashes

\* No operator silently overwrites another: every record was made by an operator
\* who had seen its predecessor, takes the next version, and an edit of one
\* worker's lifecycle changes that worker in the predecessor and nothing else,
\* although SetWorker reads the settings outside the mutex and on any Control.
NoSilentOverwrite ==
    [][store' # store =>
        LET record == store'[Len(store')] IN
        /\ store' = Append(store, record)
        /\ record.version = Current.version + 1
        /\ \E o \in Mutations :
            /\ op[o].pc = "saving" /\ op[o].expected = Len(store)
            /\ \A w \in Workers :
                /\ op[o].edit = <<"stop", w>> => record.stopped = Current.stopped \union {w}
                /\ op[o].edit = <<"resume", w>> => record.stopped = Current.stopped \ {w}]_vars

\* Nothing is routed by, published or received that is not durable: what a cache, a
\* registry or a notification holds is a record of the bucket, so two Controls
\* that report the same version apply the same configuration.
ActiveIsDurable ==
    \A c \in Controls :
        /\ {cache[c], registry[c]} \subseteq Stored
        /\ \A t \in Threads : task[c][t] # Idle => task[c][t].snap \in Stored

\* Every running Control comes to route by the newest durable configuration even
\* if every notification is lost, Controls crash, and the answer of a write is lost.
CachesConverge ==
    <>[](\A c \in Controls : cache[c] = Current)

\* The worker lifecycle settings that a Control enforces converge as its
\* configuration does ("Drain and disable stop new assignments"; "A missed
\* notification therefore converges").
RegistriesConverge ==
    <>[](\A c \in Controls : registry[c] = Current)
=============================================================================
