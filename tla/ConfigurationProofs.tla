------------------------ MODULE ConfigurationProofs ------------------------
(***************************************************************************)
(* Proofs about the runtime configuration: that it is stored and activated *)
(* without a mutation lost (RuntimeConfig, for any number of Controls,     *)
(* mutations, workers and crashes), and that its destination rules are     *)
(* enforced as documented (Admission, for any snapshots, requests,         *)
(* addresses, networks, names and DNS answers).                            *)
(*                                                                         *)
(* NoSilentOverwrite speaks of the step that writes a record, but what     *)
(* makes it true was read earlier, outside the mutex and perhaps on        *)
(* another Control: SetWorker's copy of the settings is the one its        *)
(* expected revision names only as long as the bucket still has that       *)
(* revision (EditsAreCurrent).  ActiveIsDurable is carried by the tasks    *)
(* between their steps.  VersionIsRevision says what makes a version mean  *)
(* one configuration on every Control.                                     *)
(*                                                                         *)
(* PolicyIsEnforced compares the documented table with three enforcers     *)
(* that see different forms of the rules.  They agree because a stored     *)
(* rule is in normal form (IsStored): a name is all there is to a host     *)
(* rule, so equal names are equal rules, and a metadata_ip rule is about   *)
(* an address that is denied anyway.  AdmissionInv carries what Control    *)
(* has checked to the steps of Egress.                                     *)
(***************************************************************************)
EXTENDS RuntimeConfig, Admission, TLAPS

Tasks == {Idle} \union [pc : {"replace", "apply"}, snap : Snapshots]

Edits == {<<"whole">>} \union ({"stop", "resume"} \X Workers)
Submissions == [pc : {"queued", "saving"}, expected : Nat, at : Controls,
             stopped : SUBSET Workers, edit : Edits]
Ops == [pc : {"unsent", "answered"}] \union [pc : {"read"}, expected : Nat]
       \union Submissions \union [pc : {"activating"}, at : Controls]

Types ==
    /\ store \in Seq(Snapshots) /\ Len(store) > 0
    /\ up \subseteq Controls
    /\ cache \in [Controls -> Snapshots]
    /\ registry \in [Controls -> Snapshots]
    /\ task \in [Controls -> [Threads -> Tasks]]
    /\ op \in [Mutations -> Ops]
    /\ crashes \in 0..MaxCrashes

\* A record's version is its revision.
VersionIsRevision == \A n \in 1..Len(store) : store[n].version = n

\* The bucket began with the record NewNATSConfigStore creates.
BeginsInitial == store[1] = Initial

\* Operators have seen a revision that exists.
RevisionsExist ==
    \A o \in Mutations :
        op[o].pc \in {"read", "queued", "saving"} => op[o].expected \in 1..Len(store)

\* An edit of one worker is an edit of the settings its expected revision names, if that
\* revision is still current.
EditOf(submitted, stopped) ==
    \A w \in Workers :
        /\ submitted.edit = <<"stop", w>> => submitted.stopped = stopped \union {w}
        /\ submitted.edit = <<"resume", w>> => submitted.stopped = stopped \ {w}

EditsAreCurrent ==
    \A o \in Mutations :
        (op[o].pc \in {"queued", "saving"} /\ op[o].expected = Len(store)) =>
            EditOf(op[o], Current.stopped)

\* AdminService.mu is held by at most one mutation, and the goroutine of an admin mutation
\* activates something exactly while its mutation is at that point.
MutexExcludes ==
    /\ \A o, p \in Mutations :
        (/\ op[o].pc \in {"saving", "activating"} /\ op[p].pc \in {"saving", "activating"}
         /\ op[o].at = op[p].at) => o = p
    /\ \A c \in Controls :
        task[c]["update"] # Idle <=> \E o \in Mutations : op[o].pc = "activating" /\ op[o].at = c

IInv ==
    /\ Types
    /\ VersionIsRevision
    /\ BeginsInitial
    /\ RevisionsExist
    /\ EditsAreCurrent
    /\ MutexExcludes
    /\ ActiveIsDurable

-----------------------------------------------------------------------------
(* The records and tasks the model is built from.                          *)

LEMMA OpShapes ==
    ASSUME Types, NEW o \in Mutations
    PROVE  /\ op[o] \in Ops
           /\ op[o].pc \in {"unsent", "read", "queued", "saving", "activating", "answered"}
           /\ op[o].pc = "read" => op[o] \in [pc : {"read"}, expected : Nat]
           /\ op[o].pc \in {"queued", "saving"} => op[o] \in Submissions
           /\ op[o].pc = "activating" => op[o] \in [pc : {"activating"}, at : Controls]
<1>1. op[o] \in Ops
  BY Zenon DEF Types
<1> QED BY Zenon, <1>1 DEF Ops, Submissions

LEMMA TaskShapes ==
    ASSUME Types, NEW c \in Controls, NEW t \in Threads
    PROVE  /\ task[c][t] \in Tasks
           /\ task[c][t].pc \in {"idle", "replace", "apply"}
           /\ task[c][t].pc = "idle" <=> task[c][t] = Idle
           /\ task[c][t] # Idle => task[c][t] \in [pc : {"replace", "apply"}, snap : Snapshots]
<1>1. task[c][t] \in Tasks
  BY Zenon DEF Types
<1> QED BY <1>1 DEF Tasks, Idle

LEMMA InitialIsSnapshot == Initial \in Snapshots
BY Zenon DEF Initial, Snapshots

\* The durable record, and every one before it.
LEMMA StoredTyped ==
    ASSUME Types
    PROVE  /\ Current \in Stored /\ Stored \subseteq Snapshots
           /\ Len(store) \in Nat /\ Len(store) \in 1..Len(store)
<1>1. Len(store) \in Nat /\ Len(store) \in 1..Len(store)
  BY DEF Types
<1>2. \A n \in 1..Len(store) : store[n] \in Snapshots
  BY DEF Types
<1> QED BY Zenon, <1>1, <1>2 DEF Current, Stored

\* A write keeps every record and makes the new one current.
LEMMA WriteKeeps ==
    ASSUME Types, NEW record \in Snapshots, store' = Append(store, record)
    PROVE  /\ store' \in Seq(Snapshots) /\ Len(store') = Len(store) + 1
           /\ store'[Len(store) + 1] = record
           /\ \A n \in 1..Len(store) : store'[n] = store[n]
           /\ Stored \subseteq Stored' /\ record \in Stored'
<1>1. /\ store' \in Seq(Snapshots) /\ Len(store') = Len(store) + 1 /\ Len(store) \in Nat
      /\ store'[Len(store) + 1] = record
      /\ \A n \in 1..Len(store) : store'[n] = store[n]
  BY DEF Types
<1>2. 1..Len(store) \subseteq 1..Len(store') /\ Len(store) + 1 \in 1..Len(store')
  BY <1>1
<1> QED BY Zenon, <1>1, <1>2 DEF Stored

\* A notification gives some callbacks the snapshot it carries and leaves the other
\* goroutines to what they do otherwise.
LEMMA NotifyShape ==
    ASSUME NEW notified \in Snapshots, NEW tasks \in [Controls -> [Threads -> Tasks]],
           Notify(notified, tasks)
    PROVE  /\ task' \in [Controls -> [Threads -> Tasks]]
           /\ \A c \in Controls, t \in Threads :
                \/ task'[c][t] = tasks[c][t]
                \/ t = "inval" /\ task'[c][t] = [pc |-> "replace", snap |-> notified]
<1> DEFINE new == [pc |-> "replace", snap |-> notified]
<1>1. new \in Tasks
  BY Zenon DEF Tasks
<1> HIDE DEF new
<1>2. PICK reached : task' = [c \in Controls |->
                        IF c \notin reached THEN tasks[c] ELSE [tasks[c] EXCEPT !["inval"] = new]]
  BY Zenon DEF Notify, new
<1>3. \A c \in Controls : /\ tasks[c] \in [Threads -> Tasks]
                          /\ [tasks[c] EXCEPT !["inval"] = new] \in [Threads -> Tasks]
  BY Zenon, <1>1
<1>4. task' \in [Controls -> [Threads -> Tasks]]
  BY Zenon, <1>2, <1>3
<1>5. \A c \in Controls, t \in Threads :
        task'[c][t] = tasks[c][t] \/ (t = "inval" /\ task'[c][t] = new)
  BY Zenon, <1>2, <1>3
<1> QED BY Zenon, <1>4, <1>5 DEF new

-----------------------------------------------------------------------------
(* The invariant is inductive.                                             *)

LEMMA InitIInv == Init => IInv
<1> SUFFICES ASSUME Init PROVE IInv
  BY Zenon
<1>1. store = <<Initial>> /\ Len(store) = 1 /\ store[1] = Initial /\ store \in Seq(Snapshots)
  BY InitialIsSnapshot DEF Init
<1>2. Types
  <2>1. task \in [Controls -> [Threads -> Tasks]] /\ op \in [Mutations -> Ops]
    BY Zenon DEF Init, Tasks, Ops, Unsent
  <2> QED BY <1>1, <2>1, InitialIsSnapshot, CrashesAssumption DEF Init, Types
<1>3. VersionIsRevision /\ BeginsInitial
  BY <1>1 DEF VersionIsRevision, BeginsInitial, Initial
<1>4. RevisionsExist /\ EditsAreCurrent
  BY Zenon DEF Init, Unsent, RevisionsExist, EditsAreCurrent
<1>5. MutexExcludes
  BY Zenon DEF Init, Unsent, MutexExcludes, Threads
<1>6. ActiveIsDurable
  <2>1. Initial \in Stored
    BY <1>1 DEF Stored
  <2> QED BY Zenon, <2>1 DEF Init, ActiveIsDurable
<1> QED BY Zenon, <1>2, <1>3, <1>4, <1>5, <1>6 DEF IInv

\* A step of a mutation that neither writes the bucket nor begins or ends an activation.
LEMMA RequestStep ==
    ASSUME IInv, NEW o \in Mutations, NEW new \in Ops,
           op' = [op EXCEPT ![o] = new],
           UNCHANGED <<store, up, cache, registry, task, crashes>>,
           op[o].pc # "activating", new.pc # "activating",
           new.pc \in {"read", "queued", "saving"} => new.expected \in 1..Len(store),
           (new.pc \in {"queued", "saving"} /\ new.expected = Len(store))
               => EditOf(new, Current.stopped),
           new.pc = "saving" => ~Locked(new.at)
    PROVE  IInv'
<1> USE DEF IInv
<1>1. Types' /\ VersionIsRevision' /\ BeginsInitial' /\ ActiveIsDurable'
  BY DEF Types, VersionIsRevision, BeginsInitial, ActiveIsDurable, Stored
<1>2. op'[o] = new /\ \A p \in Mutations : p # o => op'[p] = op[p]
  BY Zenon DEF Types
<1>3. RevisionsExist'
  BY Zenon, <1>2 DEF RevisionsExist
<1>4. EditsAreCurrent'
  BY <1>2 DEF EditsAreCurrent, EditOf, Current
<1>5. MutexExcludes'
  <2>1. ASSUME NEW p \in Mutations, NEW q \in Mutations,
               op'[p].pc \in {"saving", "activating"}, op'[q].pc \in {"saving", "activating"},
               op'[p].at = op'[q].at
        PROVE  p = q
    BY <1>2, <2>1 DEF MutexExcludes, Locked
  <2>2. \A c \in Controls : task'[c]["update"] # Idle
          <=> \E p \in Mutations : op'[p].pc = "activating" /\ op'[p].at = c
    BY <1>2 DEF MutexExcludes
  <2> QED BY Zenon, <2>1, <2>2 DEF MutexExcludes
<1> QED BY Zenon, <1>1, <1>3, <1>4, <1>5

LEMMA QueueKeeps ==
    ASSUME IInv, NEW o \in Mutations, NEW c, NEW stopped \in SUBSET Workers,
           NEW edit \in Edits, Queue(o, c, stopped, edit),
           \A w \in Workers : /\ edit = <<"stop", w>> => stopped = Current.stopped \union {w}
                              /\ edit = <<"resume", w>> => stopped = Current.stopped \ {w}
    PROVE  IInv'
<1> DEFINE new == [pc |-> "queued", expected |-> op[o].expected, at |-> c,
                   stopped |-> stopped, edit |-> edit]
<1>1. /\ op[o].pc = "read" /\ op' = [op EXCEPT ![o] = new]
      /\ UNCHANGED <<store, up, cache, registry, task, crashes>>
  BY Zenon DEF Queue
<1>2. op[o].expected \in 1..Len(store) /\ op[o].expected \in Nat /\ c \in Controls
  BY Zenon, <1>1, OpShapes DEF IInv, RevisionsExist, Types, Queue
<1>3. new \in Ops /\ new.pc = "queued" /\ new.expected \in 1..Len(store)
  BY Zenon, <1>2 DEF Ops, Submissions
<1>4. EditOf(new, Current.stopped)
  BY Zenon DEF EditOf
<1> HIDE DEF new
<1> QED BY Zenon, <1>1, <1>3, <1>4, RequestStep

\* What reading and queueing a mutation, and Update's comparison, do to the invariant.
LEMMA MutationKeeps ==
    ASSUME IInv, NEW o \in Mutations, NEW c,
           getConfig(o) \/ putConfig(o, c) \/ Rollback(o, c) \/ SetWorker(o, c) \/ Update(o)
    PROVE  IInv'
<1>0. Types
  BY Zenon DEF IInv
<1>1. CASE getConfig(o)
  <2> DEFINE new == [pc |-> "read", expected |-> Len(store)]
  <2>1. /\ op[o].pc = "unsent" /\ op' = [op EXCEPT ![o] = new]
        /\ UNCHANGED <<store, up, cache, registry, task, crashes>>
    BY Zenon, <1>1 DEF getConfig
  <2>2. new \in Ops /\ new.pc = "read" /\ new.expected \in 1..Len(store)
    BY Zenon, <1>0, StoredTyped DEF Ops
  <2> HIDE DEF new
  <2> QED BY Zenon, <2>1, <2>2, RequestStep
<1>2. CASE putConfig(o, c)
  <2>1. PICK stopped \in SUBSET Workers : Queue(o, c, stopped, <<"whole">>)
    BY Zenon, <1>2 DEF putConfig
  <2>2. <<"whole">> \in Edits
        /\ \A w \in Workers : <<"whole">> # <<"stop", w>> /\ <<"whole">> # <<"resume", w>>
    BY Zenon DEF Edits
  <2> QED BY Zenon, <2>1, <2>2, QueueKeeps
<1>3. CASE Rollback(o, c)
  <2>1. PICK record \in History : Queue(o, c, record.stopped, <<"whole">>)
    BY Zenon, <1>3 DEF Rollback
  <2>2. record \in Snapshots
    BY Zenon, <1>0, <2>1, StoredTyped DEF History, Stored
  <2>3. record.stopped \in SUBSET Workers
    BY Zenon, <2>2 DEF Snapshots
  <2>4. <<"whole">> \in Edits
        /\ \A w \in Workers : <<"whole">> # <<"stop", w>> /\ <<"whole">> # <<"resume", w>>
    BY Zenon DEF Edits
  <2> QED BY Zenon, <2>1, <2>3, <2>4, QueueKeeps
<1>4. CASE SetWorker(o, c)
  <2>1. Current.stopped \in SUBSET Workers
    BY Zenon, <1>0, StoredTyped DEF Snapshots
  <2>2. PICK w \in Workers :
          \/ Queue(o, c, Current.stopped \union {w}, <<"stop", w>>)
          \/ Queue(o, c, Current.stopped \ {w}, <<"resume", w>>)
    BY Zenon, <1>4 DEF SetWorker
  <2>3. CASE Queue(o, c, Current.stopped \union {w}, <<"stop", w>>)
    <3>1. /\ <<"stop", w>> \in Edits /\ Current.stopped \union {w} \in SUBSET Workers
          /\ \A v \in Workers : /\ <<"stop", w>> = <<"stop", v>> => w = v
                                /\ <<"stop", w>> # <<"resume", v>>
      BY Zenon, <2>1 DEF Edits
    <3> QED BY Zenon, <2>3, <3>1, QueueKeeps
  <2>4. CASE Queue(o, c, Current.stopped \ {w}, <<"resume", w>>)
    <3>1. /\ <<"resume", w>> \in Edits /\ Current.stopped \ {w} \in SUBSET Workers
          /\ \A v \in Workers : /\ <<"resume", w>> = <<"resume", v>> => w = v
                                /\ <<"resume", w>> # <<"stop", v>>
      BY Zenon, <2>1 DEF Edits
    <3> QED BY Zenon, <2>4, <3>1, QueueKeeps
  <2> QED BY Zenon, <2>2, <2>3, <2>4
<1>5. CASE Update(o)
  <2>1. /\ op[o].pc = "queued" /\ ~Locked(op[o].at) /\ op[o] \in Submissions
        /\ UNCHANGED <<store, up, cache, registry, task, crashes>>
    BY Zenon, <1>0, <1>5, OpShapes DEF Update
  <2>2. CASE Answer(o)
    <3>1. [pc |-> "answered"] \in Ops
      BY Zenon DEF Ops
    <3> QED BY Zenon, <2>1, <2>2, <3>1, RequestStep DEF Answer
  <2>3. CASE op' = [op EXCEPT ![o].pc = "saving"]
    <3> DEFINE new == [op[o] EXCEPT !.pc = "saving"]
    <3>1. op' = [op EXCEPT ![o] = new]
      BY Zenon, <1>0, <2>3 DEF Types
    <3>2. /\ new \in Ops /\ new.pc = "saving" /\ new.expected = op[o].expected
          /\ new.at = op[o].at /\ new.edit = op[o].edit /\ new.stopped = op[o].stopped
      BY Zenon, <2>1 DEF Ops, Submissions
    <3> HIDE DEF new
    <3>3. new.expected \in 1..Len(store)
      BY Zenon, <2>1, <3>2 DEF IInv, RevisionsExist
    <3>4. new.expected = Len(store) => EditOf(new, Current.stopped)
      BY ZenonT(40), <2>1, <3>2 DEF IInv, EditsAreCurrent, EditOf
    <3> QED BY Zenon, <2>1, <3>1, <3>2, <3>3, <3>4, RequestStep
  <2> QED BY Zenon, <1>5, <2>2, <2>3 DEF Update
<1> QED BY Zenon, <1>1, <1>2, <1>3, <1>4, <1>5

\* The compare-and-swap: everything an operator prepared against the revision before is
\* outdated by it, and everything already active stays durable.
LEMMA SaveKeeps ==
    ASSUME IInv, NEW o \in Mutations, Save(o)
    PROVE  IInv'
<1> DEFINE record == NewRecord(o)
<1>0. Types /\ op[o].pc = "saving" /\ UNCHANGED <<up, cache, registry, crashes>>
  BY Zenon DEF IInv, Save
<1>1. op[o] \in Submissions /\ op[o].expected \in 1..Len(store) /\ op[o].at \in Controls
  BY Zenon, <1>0, OpShapes DEF IInv, RevisionsExist, Submissions
<1>2. [pc |-> "answered"] \in Ops
  BY Zenon DEF Ops
<1>3. CASE Answer(o) /\ UNCHANGED <<store, task>>
  BY Zenon, <1>0, <1>2, <1>3, RequestStep DEF Answer
<1>4. CASE op[o].expected = Len(store) /\ store' = Append(store, record)
  <2>1. record \in Snapshots /\ record.version = Len(store) + 1
    <3>1. store[op[o].expected] \in Snapshots /\ store[op[o].expected].version = op[o].expected
      BY <1>0, <1>1 DEF IInv, Types, VersionIsRevision
    <3> QED BY <1>1, <1>4, <3>1 DEF NewRecord, Snapshots, Submissions
  <2> HIDE DEF record
  <2>2. /\ store' \in Seq(Snapshots) /\ Len(store') = Len(store) + 1 /\ Len(store) \in Nat
        /\ store'[Len(store) + 1] = record /\ \A n \in 1..Len(store) : store'[n] = store[n]
        /\ Stored \subseteq Stored' /\ record \in Stored'
    BY Zenon, <1>0, <1>4, <2>1, WriteKeeps, StoredTyped
  <2>3. VersionIsRevision' /\ BeginsInitial'
    <3>1. 1..Len(store') = 1..Len(store) \union {Len(store) + 1} /\ 1 \in 1..Len(store)
      BY <1>0, <2>2 DEF Types
    <3>2. VersionIsRevision'
      BY Zenon, <2>1, <2>2, <3>1 DEF IInv, VersionIsRevision
    <3>3. BeginsInitial'
      BY Zenon, <2>2, <3>1 DEF IInv, BeginsInitial
    <3> QED BY Zenon, <3>2, <3>3
  <2>4. PICK new \in Ops : /\ op' = [op EXCEPT ![o] = new]
                           /\ \/ new = [pc |-> "answered"] /\ UNCHANGED task
                              \/ /\ new = [pc |-> "activating", at |-> op[o].at]
                                 /\ task' = [task EXCEPT ![op[o].at]["update"] =
                                                [pc |-> "replace", snap |-> record]]
    <3>1. [pc |-> "activating", at |-> op[o].at] \in Ops
      BY Zenon, <1>1 DEF Ops
    <3>2. \/ Answer(o) /\ UNCHANGED task
          \/ /\ op' = [op EXCEPT ![o] = [pc |-> "activating", at |-> op[o].at]]
             /\ task' = [task EXCEPT ![op[o].at]["update"] = [pc |-> "replace", snap |-> record]]
      BY Zenon, <1>3, <1>4, <2>2 DEF Save, record
    <3> QED BY Zenon, <1>2, <3>1, <3>2 DEF Answer
  <2>5. /\ op'[o] = new /\ \A p \in Mutations : p # o => op'[p] = op[p]
        /\ new.pc \in {"answered", "activating"}
        /\ op' \in [Mutations -> Ops]
    BY <1>0, <2>4 DEF Types
  <2>6. RevisionsExist'
    <3>1. 1..Len(store) \subseteq 1..Len(store')
      BY <2>2
    <3> QED BY Zenon, <2>5, <3>1 DEF IInv, RevisionsExist
  <2>7. EditsAreCurrent'
    <3>1. \A p \in Mutations : op'[p].pc \in {"queued", "saving"}
             => op'[p].expected \in 1..Len(store)
      BY Zenon, <2>5 DEF IInv, RevisionsExist
    <3>2. \A p \in Mutations : op'[p].pc \in {"queued", "saving"}
             => op'[p].expected # Len(store')
      BY <2>2, <3>1
    <3> QED BY Zenon, <3>2 DEF EditsAreCurrent
  <2>8. /\ task' \in [Controls -> [Threads -> Tasks]]
        /\ \A c \in Controls, t \in Threads :
             task'[c][t] = task[c][t] \/ task'[c][t] = [pc |-> "replace", snap |-> record]
        /\ \A c \in Controls : task'[c]["update"] # Idle
             <=> (task[c]["update"] # Idle \/ (new.pc = "activating" /\ c = op[o].at))
    <3> DEFINE fresh == [pc |-> "replace", snap |-> record]
    <3>1. fresh \in Tasks /\ fresh # Idle /\ "update" \in Threads
      BY Zenon, <2>1 DEF Tasks, Idle, Threads
    <3> HIDE DEF fresh
    <3>2. CASE UNCHANGED task /\ new = [pc |-> "answered"]
      BY Zenon, <1>0, <3>2 DEF Types
    <3>3. CASE /\ task' = [task EXCEPT ![op[o].at]["update"] = fresh]
               /\ new = [pc |-> "activating", at |-> op[o].at]
      <4>1. task' \in [Controls -> [Threads -> Tasks]]
        BY Zenon, <1>0, <1>1, <3>1, <3>3 DEF Types
      <4>2. \A c \in Controls, t \in Threads :
              task'[c][t] = IF c = op[o].at /\ t = "update" THEN fresh ELSE task[c][t]
        BY Zenon, <1>0, <1>1, <3>3 DEF Types
      <4> QED BY Zenon, <3>1, <3>3, <4>1, <4>2 DEF fresh
    <3> QED BY Zenon, <2>4, <3>2, <3>3 DEF fresh
  <2>9. MutexExcludes'
    <3>1. new.pc = "activating" => new.at = op[o].at
      BY <2>4
    <3>2. ASSUME NEW p \in Mutations, NEW q \in Mutations,
                 op'[p].pc \in {"saving", "activating"}, op'[q].pc \in {"saving", "activating"},
                 op'[p].at = op'[q].at
          PROVE  p = q
      BY <1>0, <2>5, <3>1, <3>2 DEF IInv, MutexExcludes
    <3>3. \A c \in Controls : task'[c]["update"] # Idle
            <=> \E p \in Mutations : op'[p].pc = "activating" /\ op'[p].at = c
      <4> TAKE c \in Controls
      <4>1. task[c]["update"] # Idle
              <=> \E p \in Mutations : op[p].pc = "activating" /\ op[p].at = c
        BY Zenon DEF IInv, MutexExcludes
      <4>2. (\E p \in Mutations : op[p].pc = "activating" /\ op[p].at = c)
              => \E p \in Mutations : op'[p].pc = "activating" /\ op'[p].at = c
        BY Zenon, <1>0, <2>5
      <4>3. (new.pc = "activating" /\ c = op[o].at)
              => \E p \in Mutations : op'[p].pc = "activating" /\ op'[p].at = c
        BY Zenon, <2>5, <3>1
      <4>4. ASSUME NEW p \in Mutations, op'[p].pc = "activating", op'[p].at = c
            PROVE  task'[c]["update"] # Idle
        BY Zenon, <2>5, <2>8, <3>1, <4>1, <4>4
      <4> QED BY Zenon, <2>8, <4>1, <4>2, <4>3, <4>4
    <3> QED BY Zenon, <3>2, <3>3 DEF MutexExcludes
  <2>10. ActiveIsDurable'
    BY <1>0, <2>2, <2>8 DEF IInv, ActiveIsDurable
  <2>11. Types'
    BY <1>0, <2>2, <2>5, <2>8 DEF Types
  <2> QED BY Zenon, <2>3, <2>6, <2>7, <2>9, <2>10, <2>11 DEF IInv
<1> QED BY Zenon, <1>3, <1>4 DEF Save

\* A step that leaves the bucket alone and activates, publishes or receives only what is in
\* it, and that may answer mutations.
LEMMA ActivationStep ==
    ASSUME IInv, UNCHANGED store, up' \subseteq Controls, crashes' \in 0..MaxCrashes,
           cache' \in [Controls -> Snapshots], registry' \in [Controls -> Snapshots],
           task' \in [Controls -> [Threads -> Tasks]], op' \in [Mutations -> Ops],
           \A c \in Controls : cache'[c] \in Stored /\ registry'[c] \in Stored,
           \A c \in Controls, t \in Threads : task'[c][t] # Idle => task'[c][t].snap \in Stored,
           \A o \in Mutations : op'[o] = op[o] \/ op'[o] = [pc |-> "answered"],
           \A c \in Controls : task'[c]["update"] # Idle
               <=> \E o \in Mutations : op'[o].pc = "activating" /\ op'[o].at = c
    PROVE  IInv'
<1> USE DEF IInv
<1>1. Types' /\ VersionIsRevision' /\ BeginsInitial'
  BY Zenon DEF Types, VersionIsRevision, BeginsInitial
<1>2. Stored' = Stored
  BY DEF Stored
<1>3. ActiveIsDurable'
  BY Zenon, <1>2 DEF ActiveIsDurable
<1>4. \A o \in Mutations : op'[o].pc \in {"read", "queued", "saving", "activating"}
                           => op'[o] = op[o]
  OBVIOUS
<1>5. RevisionsExist'
  BY Zenon, <1>4 DEF RevisionsExist
<1>6. EditsAreCurrent'
  <2>1. EditsAreCurrent /\ Current' = Current /\ Len(store') = Len(store)
    BY Zenon DEF Current
  <2>2. SUFFICES ASSUME NEW o \in Mutations, op'[o].pc \in {"queued", "saving"},
                        op'[o].expected = Len(store')
                 PROVE  EditOf(op'[o], Current.stopped)
    BY Zenon, <2>1 DEF EditsAreCurrent, EditOf
  <2>3. op'[o] = op[o]
    BY Zenon, <1>4, <2>2
  <2> QED BY Zenon, <2>1, <2>2, <2>3 DEF EditsAreCurrent
<1>7. MutexExcludes'
  BY <1>4 DEF MutexExcludes
<1> QED BY Zenon, <1>1, <1>3, <1>5, <1>6, <1>7

LEMMA ReplaceKeeps ==
    ASSUME IInv, NEW c \in Controls, NEW t \in Threads, Replace(c, t)
    PROVE  IInv'
<1> DEFINE new == [task[c][t] EXCEPT !.pc = "apply"]
<1>0. Types /\ ActiveIsDurable
  BY Zenon DEF IInv
<1>1. task[c][t] # Idle /\ task[c][t] \in [pc : {"replace", "apply"}, snap : Snapshots]
  BY Zenon, <1>0, TaskShapes DEF Replace, Idle
<1>2. new \in Tasks /\ new # Idle /\ new.snap = task[c][t].snap
  BY Zenon, <1>1 DEF Tasks, Idle
<1>3. task' = [task EXCEPT ![c] = [task[c] EXCEPT ![t] = new]]
  BY Zenon, <1>0 DEF Replace, Types
<1> HIDE DEF new
<1>4. /\ task' \in [Controls -> [Threads -> Tasks]]
      /\ \A d \in Controls, u \in Threads :
           task'[d][u] = IF d = c /\ u = t THEN new ELSE task[d][u]
  BY Zenon, <1>0, <1>2, <1>3 DEF Types
<1>5. /\ UNCHANGED <<store, up, registry, op, crashes>>
      /\ cache' = [cache EXCEPT ![c] = task[c][t].snap]
  BY Zenon DEF Replace
<1>6. task[c][t].snap \in Stored /\ task[c][t].snap \in Snapshots
  BY Zenon, <1>0, <1>1 DEF ActiveIsDurable
<1>7. cache' \in [Controls -> Snapshots] /\ \A d \in Controls : cache'[d] \in Stored
  BY Zenon, <1>0, <1>5, <1>6 DEF Types, ActiveIsDurable
<1>8. \A d \in Controls, u \in Threads : task'[d][u] # Idle => task'[d][u].snap \in Stored
  BY Zenon, <1>0, <1>2, <1>4, <1>6 DEF ActiveIsDurable
<1>9. \A d \in Controls : task'[d]["update"] # Idle
        <=> \E o \in Mutations : op'[o].pc = "activating" /\ op'[o].at = d
  <2>1. \A d \in Controls : task'[d]["update"] # Idle <=> task[d]["update"] # Idle
    BY Zenon, <1>1, <1>2, <1>4 DEF Threads
  <2> QED BY Zenon, <1>5, <2>1 DEF IInv, MutexExcludes
<1>10. /\ registry' \in [Controls -> Snapshots] /\ \A d \in Controls : registry'[d] \in Stored
       /\ up' \subseteq Controls /\ crashes' \in 0..MaxCrashes /\ op' \in [Mutations -> Ops]
  BY Zenon, <1>0, <1>5 DEF Types, ActiveIsDurable
<1> QED BY Zenon, <1>4, <1>5, <1>7, <1>8, <1>9, <1>10, ActivationStep

LEMMA ApplyKeeps ==
    ASSUME IInv, NEW c \in Controls, NEW t \in Threads, ApplySnapshot(c, t)
    PROVE  IInv'
<1> DEFINE tasks == [task EXCEPT ![c][t] = Idle]
<1>0. Types /\ ActiveIsDurable
  BY Zenon DEF IInv
<1>1. task[c][t] # Idle /\ task[c][t] \in [pc : {"replace", "apply"}, snap : Snapshots]
  BY Zenon, <1>0, TaskShapes DEF ApplySnapshot, Idle
<1>2. /\ tasks \in [Controls -> [Threads -> Tasks]]
      /\ \A d \in Controls, u \in Threads :
           tasks[d][u] = IF d = c /\ u = t THEN Idle ELSE task[d][u]
  <2>1. Idle \in Tasks
    BY Zenon DEF Tasks
  <2> QED BY Zenon, <1>0, <2>1 DEF Types
<1> HIDE DEF tasks
<1>3. /\ Notify(cache[c], tasks) /\ UNCHANGED <<store, up, cache, crashes>>
      /\ registry' = [registry EXCEPT ![c] = task[c][t].snap]
  BY Zenon DEF ApplySnapshot, tasks
<1>4. cache[c] \in Snapshots /\ cache[c] \in Stored
      /\ task[c][t].snap \in Snapshots /\ task[c][t].snap \in Stored
  BY Zenon, <1>0, <1>1 DEF Types, ActiveIsDurable
<1>5. /\ task' \in [Controls -> [Threads -> Tasks]]
      /\ \A d \in Controls, u \in Threads :
           \/ task'[d][u] = tasks[d][u]
           \/ u = "inval" /\ task'[d][u] = [pc |-> "replace", snap |-> cache[c]]
  BY Zenon, <1>2, <1>3, <1>4, NotifyShape
<1>6. registry' \in [Controls -> Snapshots] /\ \A d \in Controls : registry'[d] \in Stored
  BY Zenon, <1>0, <1>3, <1>4 DEF Types, ActiveIsDurable
<1>7. \A d \in Controls, u \in Threads : task'[d][u] # Idle => task'[d][u].snap \in Stored
  BY <1>0, <1>2, <1>4, <1>5 DEF ActiveIsDurable
<1>8. /\ op' \in [Mutations -> Ops]
      /\ \A o \in Mutations :
           op'[o] = IF t = "update" /\ op[o].pc = "activating" /\ op[o].at = c
                    THEN [pc |-> "answered"] ELSE op[o]
  <2>1. [pc |-> "answered"] \in Ops
    BY Zenon DEF Ops
  <2> QED BY Zenon, <1>0, <2>1 DEF ApplySnapshot, Types
<1>9. ASSUME NEW d \in Controls
      PROVE  task'[d]["update"] # Idle
               <=> \E o \in Mutations : op'[o].pc = "activating" /\ op'[o].at = d
  <2>1. task[d]["update"] # Idle
          <=> \E o \in Mutations : op[o].pc = "activating" /\ op[o].at = d
    BY Zenon DEF IInv, MutexExcludes
  <2>2. task'[d]["update"] = IF d = c /\ t = "update" THEN Idle ELSE task[d]["update"]
    BY Zenon, <1>2, <1>5 DEF Threads
  <2>3. CASE d = c /\ t = "update"
    <3>1. \A o \in Mutations : ~(op'[o].pc = "activating" /\ op'[o].at = d)
      BY <1>8, <2>3
    <3> QED BY Zenon, <2>2, <2>3, <3>1
  <2>4. CASE ~(d = c /\ t = "update")
    <3>1. \A o \in Mutations : (op'[o].pc = "activating" /\ op'[o].at = d)
                               <=> (op[o].pc = "activating" /\ op[o].at = d)
      BY <1>8, <2>4
    <3> QED BY Zenon, <2>1, <2>2, <2>4, <3>1
  <2> QED BY Zenon, <2>3, <2>4
<1>10. /\ cache' \in [Controls -> Snapshots] /\ \A d \in Controls : cache'[d] \in Stored
       /\ up' \subseteq Controls /\ crashes' \in 0..MaxCrashes
  BY Zenon, <1>0, <1>3 DEF Types, ActiveIsDurable
<1> QED BY Zenon, <1>3, <1>5, <1>6, <1>7, <1>8, <1>9, <1>10, ActivationStep

\* Both outcomes of the republisher's tick.
LEMMA TickKeeps ==
    ASSUME IInv, NEW c \in Controls, RepublisherActivates(c) \/ Republishes(c)
    PROVE  IInv'
<1>0. Types /\ ActiveIsDurable /\ Current \in Stored /\ Current \in Snapshots
  BY Zenon, StoredTyped DEF IInv
<1>1. UNCHANGED <<store, up, cache, registry, op, crashes>>
  BY Zenon DEF RepublisherActivates, Republishes
<1>2. PICK notified \in Stored :
        /\ task' \in [Controls -> [Threads -> Tasks]]
        /\ \A d \in Controls, u \in Threads :
             \/ task'[d][u] = task[d][u]
             \/ u # "update" /\ task'[d][u] = [pc |-> "replace", snap |-> notified]
  <2>1. CASE RepublisherActivates(c)
    <3> DEFINE new == [pc |-> "replace", snap |-> Current]
    <3>1. new \in Tasks
      BY Zenon, <1>0 DEF Tasks
    <3>2. task' = [task EXCEPT ![c]["repub"] = new]
      BY Zenon, <2>1 DEF RepublisherActivates
    <3> HIDE DEF new
    <3>3. /\ task' \in [Controls -> [Threads -> Tasks]]
          /\ \A d \in Controls, u \in Threads :
               task'[d][u] = task[d][u] \/ (u # "update" /\ task'[d][u] = new)
      BY Zenon, <1>0, <3>1, <3>2 DEF Types
    <3> QED BY Zenon, <1>0, <3>3 DEF new
  <2>2. CASE Republishes(c)
    <3>1. cache[c] \in Snapshots /\ cache[c] \in Stored
          /\ task \in [Controls -> [Threads -> Tasks]]
      BY Zenon, <1>0 DEF Types, ActiveIsDurable
    <3>2. Notify(cache[c], task)
      BY Zenon, <2>2 DEF Republishes
    <3> QED BY SMTT(40), <3>1, <3>2, NotifyShape
  <2> QED BY Zenon, <2>1, <2>2
<1>3. \A d \in Controls, u \in Threads : task'[d][u] # Idle => task'[d][u].snap \in Stored
  BY <1>0, <1>2 DEF ActiveIsDurable
<1>4. \A d \in Controls : task'[d]["update"] # Idle
        <=> \E o \in Mutations : op'[o].pc = "activating" /\ op'[o].at = d
  <2>1. \A d \in Controls : task'[d]["update"] = task[d]["update"]
    BY Zenon, <1>2 DEF Threads
  <2> QED BY Zenon, <1>1, <2>1 DEF IInv, MutexExcludes
<1>5. /\ cache' \in [Controls -> Snapshots] /\ registry' \in [Controls -> Snapshots]
      /\ \A d \in Controls : cache'[d] \in Stored /\ registry'[d] \in Stored
      /\ up' \subseteq Controls /\ crashes' \in 0..MaxCrashes /\ op' \in [Mutations -> Ops]
  BY Zenon, <1>0, <1>1 DEF Types, ActiveIsDurable
<1> QED BY Zenon, <1>1, <1>2, <1>3, <1>4, <1>5, ActivationStep

\* A crash ends the mutations of the Control together with its goroutines.
LEMMA CrashKeeps ==
    ASSUME IInv, NEW c \in Controls, Crash(c)
    PROVE  IInv'
<1>0. Types /\ ActiveIsDurable
  BY Zenon DEF IInv
<1>1. Initial \in Stored /\ Initial \in Snapshots
  BY <1>0, StoredTyped, InitialIsSnapshot DEF IInv, BeginsInitial, Stored
<1>2. /\ UNCHANGED store /\ up' = up \ {c} /\ crashes < MaxCrashes /\ crashes' = crashes + 1
      /\ cache' = [cache EXCEPT ![c] = Initial]
      /\ registry' = [registry EXCEPT ![c] = Initial]
      /\ task' = [task EXCEPT ![c] = [t \in Threads |-> Idle]]
  BY Zenon DEF Crash
<1>3. /\ cache' \in [Controls -> Snapshots] /\ registry' \in [Controls -> Snapshots]
      /\ \A d \in Controls : cache'[d] \in Stored /\ registry'[d] \in Stored
  BY Zenon, <1>0, <1>1, <1>2 DEF Types, ActiveIsDurable
<1>4. up' \subseteq Controls /\ crashes' \in 0..MaxCrashes
  BY <1>0, <1>2, CrashesAssumption DEF Types
<1>5. /\ task' \in [Controls -> [Threads -> Tasks]]
      /\ \A d \in Controls, u \in Threads :
           task'[d][u] = IF d = c THEN Idle ELSE task[d][u]
  <2>1. [t \in Threads |-> Idle] \in [Threads -> Tasks]
    BY Zenon DEF Tasks
  <2> QED BY Zenon, <1>0, <1>2, <2>1 DEF Types
<1>6. \A d \in Controls, u \in Threads : task'[d][u] # Idle => task'[d][u].snap \in Stored
  BY Zenon, <1>0, <1>5 DEF ActiveIsDurable
<1>7. /\ op' \in [Mutations -> Ops]
      /\ \A o \in Mutations :
           op'[o] = IF op[o].pc \in {"queued", "saving", "activating"} /\ op[o].at = c
                    THEN [pc |-> "answered"] ELSE op[o]
  <2>1. [pc |-> "answered"] \in Ops
    BY Zenon DEF Ops
  <2> QED BY Zenon, <1>0, <2>1 DEF Crash, Types
<1>8. ASSUME NEW d \in Controls
      PROVE  task'[d]["update"] # Idle
               <=> \E o \in Mutations : op'[o].pc = "activating" /\ op'[o].at = d
  <2>1. task[d]["update"] # Idle
          <=> \E o \in Mutations : op[o].pc = "activating" /\ op[o].at = d
    BY Zenon DEF IInv, MutexExcludes
  <2>2. task'[d]["update"] = IF d = c THEN Idle ELSE task[d]["update"]
    BY Zenon, <1>5 DEF Threads
  <2>3. \A o \in Mutations : (op'[o].pc = "activating" /\ op'[o].at = d)
                             <=> (op[o].pc = "activating" /\ op[o].at = d /\ d # c)
    BY <1>7
  <2> QED BY Zenon, <2>1, <2>2, <2>3
<1> QED BY Zenon, <1>2, <1>3, <1>4, <1>5, <1>6, <1>7, <1>8, ActivationStep

LEMMA RestartKeeps ==
    ASSUME IInv, NEW c \in Controls, NewAdminService(c)
    PROVE  IInv'
<1>0. Types /\ ActiveIsDurable /\ Current \in Stored /\ Current \in Snapshots
  BY Zenon, StoredTyped DEF IInv
<1>1. /\ UNCHANGED <<store, op, crashes>> /\ up' = up \union {c}
      /\ cache' = [cache EXCEPT ![c] = Current]
      /\ registry' = [registry EXCEPT ![c] = Current]
      /\ Notify(Current, task)
  BY Zenon DEF NewAdminService
<1>2. /\ cache' \in [Controls -> Snapshots] /\ registry' \in [Controls -> Snapshots]
      /\ \A d \in Controls : cache'[d] \in Stored /\ registry'[d] \in Stored
  BY Zenon, <1>0, <1>1 DEF Types, ActiveIsDurable
<1>3. /\ task' \in [Controls -> [Threads -> Tasks]]
      /\ \A d \in Controls, u \in Threads :
           \/ task'[d][u] = task[d][u]
           \/ u = "inval" /\ task'[d][u] = [pc |-> "replace", snap |-> Current]
  <2>1. task \in [Controls -> [Threads -> Tasks]]
    BY Zenon, <1>0 DEF Types
  <2> QED BY Zenon, <1>0, <1>1, <2>1, NotifyShape
<1>4. \A d \in Controls, u \in Threads : task'[d][u] # Idle => task'[d][u].snap \in Stored
  BY <1>0, <1>3 DEF ActiveIsDurable
<1>5. \A d \in Controls : task'[d]["update"] # Idle
        <=> \E o \in Mutations : op'[o].pc = "activating" /\ op'[o].at = d
  <2>1. \A d \in Controls : task'[d]["update"] = task[d]["update"]
    BY Zenon, <1>3 DEF Threads
  <2> QED BY Zenon, <1>1, <2>1 DEF IInv, MutexExcludes
<1>6. up' \subseteq Controls /\ crashes' \in 0..MaxCrashes /\ op' \in [Mutations -> Ops]
  BY Zenon, <1>0, <1>1 DEF Types
<1> QED BY Zenon, <1>1, <1>2, <1>3, <1>4, <1>5, <1>6, ActivationStep

LEMMA NextIInv == IInv /\ [Next]_vars => IInv'
<1> SUFFICES ASSUME IInv, [Next]_vars PROVE IInv'
  BY Zenon
<1>1. CASE UNCHANGED vars
  BY SMTT(40), <1>1 DEF IInv, Types, VersionIsRevision, BeginsInitial, RevisionsExist, EditsAreCurrent,
     EditOf, MutexExcludes, ActiveIsDurable, Stored, Current, vars
<1>2. ASSUME NEW o \in Mutations, NEW c \in Controls,
             putConfig(o, c) \/ Rollback(o, c) \/ SetWorker(o, c)
      PROVE  IInv'
  BY Zenon, <1>2, MutationKeeps
<1>3. ASSUME NEW o \in Mutations, getConfig(o) \/ Update(o)
      PROVE  IInv'
  BY Zenon, <1>3, MutationKeeps
<1>4. ASSUME NEW o \in Mutations, Save(o)
      PROVE  IInv'
  BY Zenon, <1>4, SaveKeeps
<1>5. ASSUME NEW c \in Controls, NEW t \in Threads, Activate(c, t)
      PROVE  IInv'
  BY Zenon, <1>5, ReplaceKeeps, ApplyKeeps DEF Activate
<1>6. ASSUME NEW c \in Controls, RepublisherActivates(c) \/ Republishes(c)
      PROVE  IInv'
  BY Zenon, <1>6, TickKeeps
<1>7. ASSUME NEW c \in Controls, Crash(c)
      PROVE  IInv'
  BY Zenon, <1>7, CrashKeeps
<1>8. ASSUME NEW c \in Controls, NewAdminService(c)
      PROVE  IInv'
  BY Zenon, <1>8, RestartKeeps
<1> QED BY Zenon, <1>1, <1>2, <1>3, <1>4, <1>5, <1>6, <1>7, <1>8 DEF Next

LEMMA Invariant == Spec => []IInv
BY InitIInv, NextIInv, PTL DEF Spec

-----------------------------------------------------------------------------
(* The theorems.                                                           *)

\* What a Control routes by, publishes or is told is a record of the bucket: Update writes
\* before it activates, and every other activation starts from the bucket or from a cache.
THEOREM Durable == Spec => []ActiveIsDurable
BY Invariant, PTL DEF IInv

\* A version names one configuration: Controls that report the same version apply the same
\* settings, whatever was lost, crashed or raced in between.
SameVersionSameSettings ==
    \A c, d \in Controls :
        /\ cache[c].version = cache[d].version => cache[c] = cache[d]
        /\ registry[c].version = cache[d].version => registry[c] = cache[d]

\* Update's compare-and-set binds a version to one configuration, and every activation applies
\* a record of the bucket as it was stored.
THEOREM VersionsAgree == Spec => []SameVersionSameSettings
<1>1. IInv => SameVersionSameSettings
  <2> SUFFICES ASSUME IInv, NEW r \in Stored, NEW s \in Stored, r.version = s.version
               PROVE  r = s
    BY Zenon DEF IInv, ActiveIsDurable, SameVersionSameSettings
  <2>1. PICK m \in 1..Len(store) : r = store[m]
    BY Zenon DEF Stored
  <2>2. PICK n \in 1..Len(store) : s = store[n]
    BY Zenon DEF Stored
  <2> QED BY Zenon, <2>1, <2>2 DEF IInv, VersionIsRevision
<1> QED BY <1>1, Invariant, PTL

\* No admin mutation silently overwrites another: the compare-and-swap of Save covers what
\* putConfig, Rollback and SetWorker read before they held the mutex.
THEOREM OverwriteSeen == Spec => NoSilentOverwrite
<1> DEFINE Write ==
        store' # store =>
            LET record == store'[Len(store')] IN
            /\ store' = Append(store, record)
            /\ record.version = Current.version + 1
            /\ \E o \in Mutations :
                /\ op[o].pc = "saving" /\ op[o].expected = Len(store)
                /\ \A w \in Workers :
                    /\ op[o].edit = <<"stop", w>> => record.stopped = Current.stopped \union {w}
                    /\ op[o].edit = <<"resume", w>> => record.stopped = Current.stopped \ {w}
<1>1. IInv /\ [Next]_vars => [Write]_vars
  <2> SUFFICES ASSUME IInv, Next, store' # store PROVE Write
    BY Zenon
  <2>1. PICK o \in Mutations : Save(o)
    BY ZenonT(40) DEF Next, getConfig, putConfig, Rollback, SetWorker, Queue, Update, Activate, Replace,
       ApplySnapshot, RepublisherActivates, Republishes, Crash, NewAdminService
  <2>2. /\ op[o].pc = "saving" /\ op[o].expected = Len(store)
        /\ store' = Append(store, NewRecord(o))
    BY Zenon, <2>1 DEF Save
  <2>3. op[o] \in Submissions /\ op[o].expected \in 1..Len(store) /\ Types
    BY Zenon, <2>2, OpShapes DEF IInv, RevisionsExist
  <2>4. /\ NewRecord(o).version = Current.version + 1
        /\ NewRecord(o).stopped = op[o].stopped
    BY Zenon, <2>2 DEF NewRecord, Current
  <2>5. store'[Len(store')] = NewRecord(o)
    BY <2>2, <2>3 DEF Types
  <2>6. EditOf(op[o], Current.stopped)
    BY Zenon, <2>2 DEF IInv, EditsAreCurrent
  <2> QED BY Zenon, <2>2, <2>4, <2>5, <2>6 DEF EditOf
<1> QED BY <1>1, Invariant, PTL DEF Spec, NoSilentOverwrite

\* AdminService.mu admits one mutation of a Control to activation at a time, and the types.
THEOREM TypeCorrect == Spec => []TypeOK
<1>1. IInv => TypeOK
  <2> SUFFICES ASSUME IInv PROVE TypeOK
    BY Zenon
  <2>1. Types
    BY Zenon DEF IInv
  <2>2. \A c \in Controls, t \in Threads : task[c][t].pc \in {"idle", "replace", "apply"}
    BY Zenon, <2>1, TaskShapes
  <2>3. \A o \in Mutations :
          op[o].pc \in {"unsent", "read", "queued", "saving", "activating", "answered"}
    BY Zenon, <2>1, OpShapes
  <2>4. ASSUME NEW c \in Controls
        PROVE  LET active == {o \in Mutations : op[o].pc = "activating" /\ op[o].at = c} IN
               (task[c]["update"] = Idle <=> active = {}) /\ \A o, p \in active : o = p
    <3>1. task[c]["update"] = Idle <=> {o \in Mutations : op[o].pc = "activating" /\ op[o].at = c} = {}
      BY Zenon DEF IInv, MutexExcludes
    <3>2. \A o, p \in {o \in Mutations : op[o].pc = "activating" /\ op[o].at = c} : o = p
      BY Zenon DEF IInv, MutexExcludes
    <3> QED BY Zenon, <3>1, <3>2
  <2> QED BY Zenon, <2>1, <2>2, <2>3, <2>4 DEF TypeOK, Types
<1> QED BY <1>1, Invariant, PTL

-----------------------------------------------------------------------------
(* Admission.  The documented table and the three enforcers: rules. *)

\* What PrepareSnapshot leaves of a rule: the field of its type is set, and a name is all
\* there is to a host or a suffix.
IsStored(rule) ==
    /\ rule.type \in RuleTypes
    /\ rule.normal.field = FieldOf(rule.type)
    /\ rule.type \in HostTypes \cup {"cname_suffix"} =>
           rule.normal = [field |-> FieldOf(rule.type), pattern |-> Named("name", rule.normal.pattern.name)]
    /\ rule.type = "metadata_ip" => "metadata" \in kindsOf[rule.normal.pattern.address]

StoredRules(rules) == \A i \in DOMAIN rules : IsStored(rules[i])
StoredPools(pools) == \A i \in DOMAIN pools : pools[i].proxy = NoProxy \/ pools[i].proxy.trusted

\* The field that each type of rule fills.
LEMMA Fields ==
    /\ \A t \in HostTypes : FieldOf(t) = "host"
    /\ FieldOf("cname_suffix") = "name"
    /\ FieldOf("cidr") = "cidr" /\ FieldOf("private_range") = "cidr"
    /\ FieldOf("ip") = "ip" /\ FieldOf("metadata_ip") = "ip"
BY DEF FieldOf, HostTypes

\* The field that the compiler reads for each type.
LEMMA ValueFields ==
    /\ ValueField("cidr") = "cidr" /\ ValueField("private_range") = "cidr"
    /\ ValueField("ip") = "ip" /\ ValueField("metadata_ip") = "cidr"
BY DEF ValueField, CIDRTypes

\* A rule that is an address or a network compiles to the addresses it is about, but for
\* metadata_ip, which compiles to nothing.
LEMMA CompiledRule ==
  ASSUME NEW r, IsStored(r), r.type \in CIDRTypes, NEW a
  PROVE  (\E p \in compileCIDRDenyRule(r) : a \in p.covers) <=> r.type # "metadata_ip" /\ a \in Addresses(r)
<1>1. CASE r.type = "ip"
  <2>1. denyRuleValue(r) = {r.normal.pattern}
    BY Zenon, <1>1, Fields, ValueFields DEF denyRuleValue, IsStored
  <2>2. compileCIDRDenyRule(r) = {[base |-> r.normal.pattern.address, covers |-> {r.normal.pattern.address}]}
    BY Zenon, <1>1, <2>1 DEF compileCIDRDenyRule
  <2>3. Addresses(r) = {r.normal.pattern.address}
    BY Zenon, <1>1, Fields DEF Addresses, IsStored
  <2> QED BY <1>1, <2>2, <2>3
<1>2. CASE r.type \in {"cidr", "private_range"}
  <2>1. denyRuleValue(r) = {r.normal.pattern}
    BY Zenon, <1>2, Fields, ValueFields DEF denyRuleValue, IsStored
  <2>2. compileCIDRDenyRule(r) = {r.normal.pattern.prefix}
    BY Zenon, <1>2, <2>1 DEF compileCIDRDenyRule
  <2>3. Addresses(r) = r.normal.pattern.prefix.covers
    BY Zenon, <1>2, Fields DEF Addresses, IsStored
  <2> QED BY Zenon, <1>2, <2>2, <2>3
<1>3. CASE r.type = "metadata_ip"
  <2>1. denyRuleValue(r) = {}
    BY Zenon, <1>3, Fields, ValueFields DEF denyRuleValue, IsStored
  <2> QED BY Zenon, <1>3, <2>1 DEF compileCIDRDenyRule
<1> QED BY Zenon, <1>1, <1>2, <1>3 DEF CIDRTypes

LEMMA EnabledStored ==
  ASSUME NEW rules, StoredRules(rules), NEW r \in Enabled(rules)
  PROVE  IsStored(r)
BY Zenon DEF StoredRules, Enabled

\* Some enabled rule of an action is about an address.
About(rules, action, a) ==
    \E r \in Enabled(rules) : r.type \in CIDRTypes /\ r.action = action /\ a \in Addresses(r)

\* No override that compiles to nothing is about an address.
NoMetadata(rules, a) == \A r \in OverridesOf(rules) : r.type = "metadata_ip" => a \notin Addresses(r)

LEMMA CompiledAllows ==
  ASSUME NEW rules, StoredRules(rules), NEW a
  PROVE  /\ Covered(compileDenyRules(rules).allowed, a) => About(rules, "allow_override", a)
         /\ About(rules, "allow_override", a) /\ NoMetadata(rules, a) =>
                Covered(compileDenyRules(rules).allowed, a)
<1>1. compileDenyRules(rules).allowed =
          UNION {compileCIDRDenyRule(r) : r \in {r \in Enabled(rules) : r.type \in CIDRTypes /\ r.action = "allow_override"}}
  BY Zenon DEF compileDenyRules
<1>2. Covered(compileDenyRules(rules).allowed, a) <=>
          \E r \in Enabled(rules) : /\ r.type \in CIDRTypes /\ r.action = "allow_override"
                                    /\ \E p \in compileCIDRDenyRule(r) : a \in p.covers
  BY Zenon, <1>1 DEF Covered
<1> QED BY Zenon, <1>2, CompiledRule, EnabledStored DEF About, NoMetadata, OverridesOf

LEMMA CompiledDenies ==
  ASSUME NEW rules, StoredRules(rules), NEW a
  PROVE  /\ Covered(compileDenyRules(rules).denied, a) => About(rules, "deny", a)
         /\ About(rules, "deny", a) => Covered(compileDenyRules(rules).denied, a) \/ kindsOf[a] # {}
<1>1. compileDenyRules(rules).denied =
          UNION {compileCIDRDenyRule(r) : r \in {r \in Enabled(rules) : r.type \in CIDRTypes /\ r.action = "deny"}}
  BY Zenon DEF compileDenyRules
<1>2. Covered(compileDenyRules(rules).denied, a) <=>
          \E r \in Enabled(rules) : /\ r.type \in CIDRTypes /\ r.action = "deny"
                                    /\ \E p \in compileCIDRDenyRule(r) : a \in p.covers
  BY Zenon, <1>1 DEF Covered
<1>3. ASSUME NEW r \in Enabled(rules), r.type = "metadata_ip", a \in Addresses(r)
      PROVE  kindsOf[a] # {}
  BY Zenon, <1>3, EnabledStored, Fields DEF IsStored, Addresses
<1> QED BY Zenon, <1>2, <1>3, CompiledRule, EnabledStored DEF About

-----------------------------------------------------------------------------
(* Addresses *)

\* Control denies every literal that it should, and no other but for a metadata_ip override.
LEMMA LiteralAgrees ==
  ASSUME NEW rules, StoredRules(rules), NEW a
  PROVE  LET denied == evaluateLiteralIPDeny(a, compileDenyRules(rules).denied, compileDenyRules(rules).allowed)
         IN /\ DocumentedAddressDeny(a, rules) => denied
            /\ denied /\ NoMetadata(rules, a) => DocumentedAddressDeny(a, rules)
BY Zenon, CompiledAllows, CompiledDenies DEF evaluateLiteralIPDeny, DocumentedAddressDeny, About

\* The policy in a request start is what the rules compile to.
LEMMA PolicyFields ==
  ASSUME NEW s, NEW mode
  PROVE  /\ Policy(s, mode).denied = compileDenyRules(s.rules).denied
         /\ Policy(s, mode).allowed = compileDenyRules(s.rules).allowed
         /\ Policy(s, mode).suffixes = compileDenyRules(s.rules).suffixes
         /\ Policy(s, mode).cnames = compileDenyRules(s.rules).cnames
         /\ Policy(s, mode).opened = OpenedKinds(compileDenyRules(s.rules).allowed)
         /\ Policy(s, mode).mode = mode
BY DEF Policy

\* A hop other than the host is under a suffix that the rules compile to.
HopDenied(rules, host, hops) ==
    \E hop \in hops \ {host} : matchesAnySuffix(hop, compileDenyRules(rules).cnames)

\* The checks of Egress, under the policy that it is sent.
LEMMA PolicyChecks ==
  ASSUME NEW s, NEW mode
  PROVE  LET compiled == compileDenyRules(s.rules)
         IN /\ \A a : validateResolvedIP(Policy(s, mode), a) <=>
                   \/ "mapped" \in kindsOf[a]
                   \/ /\ ~Covered(compiled.allowed, a)
                      /\ Covered(compiled.denied, a) \/ kindsOf[a] \ OpenedKinds(compiled.allowed) # {}
            /\ \A n : validateHostSuffixPolicy(n, Policy(s, mode)) <=> matchesAnySuffix(n, compiled.suffixes)
            /\ \A n, hops : validateCNAMESuffixPolicy(n, hops, Policy(s, mode)) <=> HopDenied(s.rules, n, hops)
<1> DEFINE policy == Policy(s, mode)
           compiled == compileDenyRules(s.rules)
<1>1. /\ policy.denied = compiled.denied /\ policy.allowed = compiled.allowed
      /\ policy.suffixes = compiled.suffixes /\ policy.cnames = compiled.cnames
      /\ policy.opened = OpenedKinds(compiled.allowed)
  BY Zenon, PolicyFields
<1> HIDE DEF policy, compiled
<1>2. \A a : validateResolvedIP(policy, a) <=>
                   \/ "mapped" \in kindsOf[a]
                   \/ /\ ~Covered(compiled.allowed, a)
                      /\ Covered(compiled.denied, a) \/ kindsOf[a] \ OpenedKinds(compiled.allowed) # {}
  BY Zenon, <1>1 DEF validateResolvedIP, deniedByDefault
<1>3. \A n : validateHostSuffixPolicy(n, policy) <=> matchesAnySuffix(n, compiled.suffixes)
  BY Zenon, <1>1 DEF validateHostSuffixPolicy
<1>4. \A n, hops : validateCNAMESuffixPolicy(n, hops, policy) <=> HopDenied(s.rules, n, hops)
  BY Zenon, <1>1 DEF validateCNAMESuffixPolicy, HopDenied, compiled
<1> QED BY Zenon, <1>2, <1>3, <1>4 DEF policy, compiled

\* Egress denies no literal that Control lets through.
LEMMA LiteralResolved ==
  ASSUME NEW s, NEW mode, NEW a,
         ~evaluateLiteralIPDeny(a, compileDenyRules(s.rules).denied, compileDenyRules(s.rules).allowed)
  PROVE  ~validateResolvedIP(Policy(s, mode), a)
BY Zenon, PolicyChecks DEF evaluateLiteralIPDeny

\* Egress denies no resolved address but by the documented table...
LEMMA ResolvedDenied ==
  ASSUME NEW s, NEW mode, StoredRules(s.rules), NEW a, NoMetadata(s.rules, a),
         validateResolvedIP(Policy(s, mode), a)
  PROVE  DocumentedAddressDeny(a, s.rules)
<1>1. \/ "mapped" \in kindsOf[a]
      \/ /\ ~Covered(compileDenyRules(s.rules).allowed, a)
         /\ Covered(compileDenyRules(s.rules).denied, a) \/ kindsOf[a] # {}
  BY Zenon, PolicyChecks
<1> QED BY Zenon, <1>1, CompiledAllows, CompiledDenies DEF DocumentedAddressDeny, About

\* ...and what it lets through is of kinds that overrides open, or not denied either.
LEMMA ResolvedAllowed ==
  ASSUME NEW s, NEW mode, StoredRules(s.rules), NEW a,
         ~validateResolvedIP(Policy(s, mode), a), DocumentedAddressDeny(a, s.rules)
  PROVE  /\ kindsOf[a] # {}
         /\ kindsOf[a] \subseteq UNION {kindsOf[p.base] : p \in compileDenyRules(s.rules).allowed}
<1>1. /\ ~Covered(compileDenyRules(s.rules).allowed, a)
      /\ About(s.rules, "deny", a) \/ kindsOf[a] # {}
      /\ "mapped" \notin kindsOf[a]
  BY Zenon, CompiledAllows DEF validateResolvedIP, DocumentedAddressDeny, About
<1>2. /\ ~Covered(compileDenyRules(s.rules).denied, a)
      /\ kindsOf[a] \ OpenedKinds(compileDenyRules(s.rules).allowed) = {}
  BY Zenon, <1>1, PolicyChecks
<1>3. kindsOf[a] # {}
  BY Zenon, <1>1, <1>2, CompiledDenies
<1>4. OpenedKinds(compileDenyRules(s.rules).allowed)
          \subseteq UNION {kindsOf[p.base] : p \in compileDenyRules(s.rules).allowed}
  BY Zenon DEF OpenedKinds
<1> QED BY Zenon, <1>2, <1>3, <1>4

-----------------------------------------------------------------------------
(* Names *)

\* Enabled rules of some types give a name to an action.
Names(rules, types, action, n) ==
    \E r \in Enabled(rules) : r.type \in types /\ r.action = action /\ r.normal.pattern.name = n

\* The names that Egress is sent are those of the denials, without those of the overrides.
LEMMA CompiledNames ==
  ASSUME NEW rules, NEW n
  PROVE  /\ n \in compileDenyRules(rules).suffixes <=>
                Names(rules, HostTypes, "deny", n) /\ ~Names(rules, HostTypes, "allow_override", n)
         /\ n \in compileDenyRules(rules).cnames <=>
                Names(rules, {"cname_suffix"}, "deny", n) /\ ~Names(rules, {"cname_suffix"}, "allow_override", n)
<1> DEFINE names(types, action) ==
             {r.normal.pattern.name : r \in {r \in Enabled(rules) : r.type \in types /\ r.action = action}}
<1>1. /\ compileDenyRules(rules).suffixes = names(HostTypes, "deny") \ names(HostTypes, "allow_override")
      /\ compileDenyRules(rules).cnames = names({"cname_suffix"}, "deny") \ names({"cname_suffix"}, "allow_override")
  BY Zenon DEF compileDenyRules, subtractOverrides
<1>2. \A types, action : n \in names(types, action) <=> Names(rules, types, action, n)
  BY Zenon DEF Names
<1> HIDE DEF names
<1> QED BY Zenon, <1>1, <1>2

\* Two stored rules of the same types have the same normal form if they have the same name.
LEMMA SameName ==
  ASSUME NEW r, NEW o, IsStored(r), IsStored(o), r.normal.pattern.name = o.normal.pattern.name,
         (r.type \in HostTypes /\ o.type \in HostTypes) \/ (r.type = "cname_suffix" /\ o.type = "cname_suffix")
  PROVE  r.normal = o.normal
BY Zenon, Fields DEF IsStored

\* Control denies a name as documented...
LEMMA ControlDenies ==
  ASSUME NEW rules, NEW host, evaluateHostDeny(host, rules)
  PROVE  DocumentedHostDeny(host, rules)
<1>1. PICK r \in Enabled(rules) : r.type \in HostTypes /\ r.action = "deny" /\ hostMatchesDenyRule(host, r)
  BY Zenon DEF evaluateHostDeny
<1>2. ASSUME NEW o \in Enabled(rules), o.action = "allow_override", o.type = r.type, o.normal = r.normal
      PROVE  FALSE
  <2>1. hostMatchesDenyRule(host, o)
    BY Zenon, <1>1, <1>2 DEF hostMatchesDenyRule
  <2> QED BY Zenon, <1>1, <1>2, <2>1 DEF evaluateHostDeny
<1> QED BY Zenon, <1>1, <1>2 DEF DocumentedHostDeny, Withdrawn

\* A host rule is a suffix at Egress.
HostAsSuffix(rules, host) ==
    \E r \in Enabled(rules) : /\ r.action = "deny" /\ r.type = "host"
                              /\ r.normal.pattern.name \in suffixesOf[host] \ {host}

\* ...and Egress denies no other, but for a host rule taken as a suffix.
LEMMA EgressDenies ==
  ASSUME NEW rules, NEW host, StoredRules(rules), ~HostAsSuffix(rules, host),
         matchesAnySuffix(host, compileDenyRules(rules).suffixes)
  PROVE  DocumentedHostDeny(host, rules)
<1>1. PICK n \in suffixesOf[host] : n \in compileDenyRules(rules).suffixes
  BY Zenon DEF matchesAnySuffix
<1>n. Names(rules, HostTypes, "deny", n) /\ ~Names(rules, HostTypes, "allow_override", n)
  BY Zenon, <1>1, CompiledNames
<1>2. PICK r \in Enabled(rules) : r.type \in HostTypes /\ r.action = "deny" /\ r.normal.pattern.name = n
  BY Zenon, <1>n DEF Names
<1>3. ~Withdrawn(r, rules)
  <2> SUFFICES ASSUME NEW o \in Enabled(rules), o.action = "allow_override", o.type = r.type, o.normal = r.normal
               PROVE  FALSE
    BY Zenon DEF Withdrawn
  <2> QED BY Zenon, <1>n, <1>2 DEF Names
<1>4. hostMatchesDenyRule(host, r)
  <2>1. CASE r.type = "host_suffix"
    BY Zenon, <1>1, <1>2, <2>1 DEF hostMatchesDenyRule
  <2>2. CASE r.type = "host"
    BY Zenon, <1>1, <1>2, <2>2 DEF hostMatchesDenyRule, HostAsSuffix
  <2> QED BY Zenon, <1>2, <2>1, <2>2 DEF HostTypes
<1> QED BY Zenon, <1>2, <1>3, <1>4 DEF DocumentedHostDeny

\* An override of the other host type with the same value.
OtherOverrides(rules, host) ==
    \E r \in Enabled(rules), o \in OverridesOf(rules) :
        /\ r.action = "deny" /\ r.type \in HostTypes /\ r.normal = o.normal /\ r.type # o.type
        /\ r.normal.pattern.name \in suffixesOf[host]

\* What Egress lets through is not denied, unless an override of the other type withdraws it.
LEMMA EgressAllows ==
  ASSUME NEW rules, NEW host \in Name \cup Address, StoredRules(rules), ~OtherOverrides(rules, host),
         ~matchesAnySuffix(host, compileDenyRules(rules).suffixes)
  PROVE  ~DocumentedHostDeny(host, rules)
<1> SUFFICES ASSUME NEW r \in Enabled(rules), r.type \in HostTypes, r.action = "deny",
                    hostMatchesDenyRule(host, r), ~Withdrawn(r, rules)
             PROVE  FALSE
  BY Zenon DEF DocumentedHostDeny
<1>1. r.normal.pattern.name \in suffixesOf[host]
  BY Zenon, NameAssumption DEF hostMatchesDenyRule
<1>2. r.normal.pattern.name \notin compileDenyRules(rules).suffixes
  BY Zenon, <1>1 DEF matchesAnySuffix
<1>3. PICK o \in Enabled(rules) : /\ o.type \in HostTypes /\ o.action = "allow_override"
                                  /\ o.normal.pattern.name = r.normal.pattern.name
  <2>1. Names(rules, HostTypes, "deny", r.normal.pattern.name)
    BY Zenon DEF Names
  <2>2. Names(rules, HostTypes, "allow_override", r.normal.pattern.name)
    BY Zenon, <1>2, <2>1, CompiledNames
  <2> QED BY Zenon, <2>2 DEF Names
<1>4. r.normal = o.normal
  BY Zenon, <1>3, SameName, EnabledStored
<1> QED BY Zenon, <1>1, <1>3, <1>4 DEF Withdrawn, OtherOverrides, OverridesOf

\* The hops of a name are denied as documented.
LEMMA CNAMEAgrees ==
  ASSUME NEW rules, NEW host, NEW hops, StoredRules(rules)
  PROVE  HopDenied(rules, host, hops) <=> DocumentedCNAMEDeny(host, hops, rules)
<1>1. ASSUME NEW hop \in hops \ {host}, matchesAnySuffix(hop, compileDenyRules(rules).cnames)
      PROVE  DocumentedCNAMEDeny(host, hops, rules)
  <2>1. PICK n \in suffixesOf[hop] : n \in compileDenyRules(rules).cnames
    BY Zenon, <1>1 DEF matchesAnySuffix
  <2>n. Names(rules, {"cname_suffix"}, "deny", n) /\ ~Names(rules, {"cname_suffix"}, "allow_override", n)
    BY Zenon, <2>1, CompiledNames
  <2>2. PICK r \in Enabled(rules) : r.type = "cname_suffix" /\ r.action = "deny" /\ r.normal.pattern.name = n
    BY Zenon, <2>n DEF Names
  <2>3. ~Withdrawn(r, rules)
    <3> SUFFICES ASSUME NEW o \in Enabled(rules), o.action = "allow_override", o.type = r.type, o.normal = r.normal
                 PROVE  FALSE
      BY Zenon DEF Withdrawn
    <3> QED BY Zenon, <2>n, <2>2 DEF Names
  <2> QED BY Zenon, <2>1, <2>2, <2>3 DEF DocumentedCNAMEDeny
<1>2. ASSUME NEW r \in Enabled(rules), r.type = "cname_suffix", r.action = "deny", ~Withdrawn(r, rules),
             NEW hop \in hops \ {host}, r.normal.pattern.name \in suffixesOf[hop],
             ~matchesAnySuffix(hop, compileDenyRules(rules).cnames)
      PROVE  FALSE
  <2>1. r.normal.pattern.name \notin compileDenyRules(rules).cnames
    BY Zenon, <1>2 DEF matchesAnySuffix
  <2>2. PICK o \in Enabled(rules) : /\ o.type = "cname_suffix" /\ o.action = "allow_override"
                                    /\ o.normal.pattern.name = r.normal.pattern.name
    <3>1. Names(rules, {"cname_suffix"}, "deny", r.normal.pattern.name)
      BY Zenon, <1>2 DEF Names
    <3>2. Names(rules, {"cname_suffix"}, "allow_override", r.normal.pattern.name)
      BY Zenon, <2>1, <3>1, CompiledNames
    <3> QED BY Zenon, <3>2 DEF Names
  <2>3. r.normal = o.normal
    BY Zenon, <1>2, <2>2, SameName, EnabledStored
  <2> QED BY Zenon, <1>2, <2>2, <2>3 DEF Withdrawn
<1> QED BY Zenon, <1>1, <1>2 DEF DocumentedCNAMEDeny, HopDenied

-----------------------------------------------------------------------------
(* The codes of the checks *)

\* The parts that a request is validated by deny no destination.
LEMMA PartCodes ==
  /\ \A m : validateMethod(m) # "destination_denied"
  /\ \A r : validateURL(r) # "destination_denied" /\ (validateURL(r) = "ok" => validHost(r.host))
  /\ \A h, o : validateHeaders(h, o) # "destination_denied"
  /\ \A b : validateBody(b) # "destination_denied"
  /\ \A t, m : validateTimeout(t, m) # "destination_denied"
  /\ \A h : validateRoutingHints(h) # "destination_denied"
  /\ \A j : validateFingerprintProfileJSON(j) # "destination_denied"
  /\ \A p : validateFingerprintProfileValue(p) # "destination_denied"
<1>1. \A m : validateMethod(m) # "destination_denied"
  BY Zenon DEF validateMethod, Unless, ??
<1>2. \A r : validateURL(r) # "destination_denied" /\ (validateURL(r) = "ok" => validHost(r.host))
  BY Zenon DEF validateURL, Unless
<1>3. \A h, o : validateHeaders(h, o) # "destination_denied"
  BY Zenon DEF validateHeaders, Unless
<1>4. \A b : validateBody(b) # "destination_denied"
  BY Zenon DEF validateBody, Unless, ??
<1>5. \A t, m : validateTimeout(t, m) # "destination_denied"
  BY Zenon DEF validateTimeout, Unless
<1>6. \A h : validateRoutingHints(h) # "destination_denied"
  BY Zenon DEF validateRoutingHints, Unless
<1>7. \A j : validateFingerprintProfileJSON(j) # "destination_denied"
  BY Zenon DEF validateFingerprintProfileJSON, Unless, ??
<1>8. \A p : validateFingerprintProfileValue(p) # "destination_denied"
  BY Zenon DEF validateFingerprintProfileValue, Unless
<1> QED BY Zenon, <1>1, <1>2, <1>3, <1>4, <1>5, <1>6, <1>7, <1>8

\* An ingress denies no destination, and lets only a name or an address through.
LEMMA IngressCodes ==
  ASSUME NEW r, NEW s, NEW receipts
  PROVE  /\ validate(r, s, receipts) # "destination_denied"
         /\ validate(r, s, receipts) = "ok" => validHost(r.host)
<1>1. /\ validateRequestComponents(r, s) # "destination_denied"
      /\ validateRequestComponents(r, s) = "ok" => validateURL(r) = "ok"
  BY Zenon, PartCodes DEF validateRequestComponents, Unless, ??
<1>2. /\ ValidateRequest(r, s) # "destination_denied"
      /\ ValidateRequest(r, s) = "ok" => validHost(r.host)
  BY Zenon, <1>1, PartCodes DEF ValidateRequest, Unless, ??
<1>3. proxyRequestHeadersAndRouting(r) # "destination_denied"
  BY Zenon, PartCodes DEF proxyRequestHeadersAndRouting, proxyRoutingHints, Unless, ??
<1>4. /\ validateHTTPProxyRequest(r) # "destination_denied"
      /\ validateHTTPProxyRequest(r) = "ok" => validHost(r.host)
  BY Zenon, <1>3, PartCodes DEF validateHTTPProxyRequest, readBoundedProxyBody, Unless, ??
<1>5. /\ validateConnectRequest(r) # "destination_denied"
      /\ validateConnectRequest(r) = "ok" => validHost(r.host)
  BY Zenon, <1>3 DEF validateConnectRequest, Unless, ??
<1>6. prepareReceipt(r, receipts) # "destination_denied"
  BY Zenon DEF prepareReceipt, Unless
<1> QED BY <1>2, <1>4, <1>5, <1>6 DEF validate, ??

\* Control denies a destination for its name, for its address, or for a proxy it does not
\* trust, and for nothing else.
LEMMA ControlCodes ==
  ASSUME NEW r, NEW s, NEW p
  PROVE  LET e == ResolveDestinationPolicy(r, s, p)
             hosts == normalizeTargetHost(r)
             name == \E h \in hosts : evaluateHostDeny(h.value, s.rules)
             address == \E h \in hosts :
                            /\ h.kind = "address"
                            /\ evaluateLiteralIPDeny(h.value, compileDenyRules(s.rules).denied,
                                                     compileDenyRules(s.rules).allowed)
             mode == resolveDestinationMode(p) = "refused"
         IN /\ e = "destination_denied" => name \/ address \/ mode
            /\ e = "ok" => ~name /\ ~address
<1>1. resolveInjectionOperations(s.injections) # "destination_denied"
  BY Zenon DEF resolveInjectionOperations, Unless, ??
<1> QED BY Zenon, <1>1 DEF ResolveDestinationPolicy, Unless, ??

\* Egress denies a start that it can parse for its host, or for its address if a proxy
\* resolves names.
LEMMA EgressCodes ==
  ASSUME NEW st, NEW bound, NEW executable
  PROVE  LET e == validateExecutionStart(st, bound, executable)
             name == validateHostSuffixPolicy(st.host.value, st.policy)
             address == st.host.kind = "address" /\ validateResolvedIP(st.policy, st.host.value)
         IN /\ e \in {"destination_denied", "ok"} => ~st.bare
            /\ e = "destination_denied" => name \/ address
            /\ e = "ok" => ~name
<1>0. parseTarget(st) # "destination_denied" /\ (parseTarget(st) = "ok" => ~st.bare)
  BY Zenon DEF parseTarget, Unless, ??
<1>1. /\ validateUpstreamProxyBinding(st, bound) # "destination_denied"
      /\ resolveFingerprintInstruction(st.profile, executable) # "destination_denied"
      /\ validateStart(st) # "destination_denied"
  BY Zenon DEF validateUpstreamProxyBinding, resolveFingerprintInstruction, validateStart, Unless
<1>2. validateTunnelStart(st) # "destination_denied"
  BY Zenon DEF validateTunnelStart, Unless, ??
<1> QED BY Zenon, <1>0, <1>1, <1>2 DEF validateExecutionStart, validateRemoteLiteralTarget, Unless, ??

\* What Egress resolves itself, it denies for an address or a hop.
LEMMA ResolutionCodes ==
  ASSUME NEW st, NEW answer, NEW hops
  PROVE  LET e == validatedIPs(st, answer, hops)
             address == \E a \in answer : validateResolvedIP(st.policy, a)
             hop == validateCNAMESuffixPolicy(st.host.value, hops, st.policy)
         IN /\ e = "destination_denied" => address \/ hop
            /\ e = "ok" => ~address /\ ~hop
BY Zenon DEF validatedIPs, Unless, ??

\* Building a request denies no destination.
LEMMA BuildCodes == \A st : buildHTTPRequest(st) # "destination_denied"
BY Zenon DEF buildHTTPRequest, Unless, ??

-----------------------------------------------------------------------------
(* The stored configuration *)

\* The normal form of a host is a name and nothing else.
LEMMA HostNamed ==
  ASSUME NEW raw, NEW p \in normalizeRawHost(raw)
  PROVE  p = Named("name", p.name)
<1>1. p \in normalizeHostPattern(raw) /\ p.kind = "name"
  BY Zenon DEF normalizeRawHost
<1>2. CASE raw.kind \in {"name", "capitals"}
  <2>1. p = Named("name", raw.name)
    BY <1>1, <1>2 DEF normalizeHostPattern
  <2> QED BY <2>1 DEF Named
<1>3. CASE raw.kind = "address"
  <2>1. p = At(unmapped[raw.address])
    BY <1>1, <1>3 DEF normalizeHostPattern
  <2> QED BY <1>1, <2>1 DEF At
<1>4. CASE raw.kind \notin {"name", "capitals", "address"}
  BY <1>1, <1>4 DEF normalizeHostPattern
<1> QED BY Zenon, <1>2, <1>3, <1>4

\* The normal form of a rule about names is its field and a name.
LEMMA NormalNamed ==
  ASSUME NEW type, NEW raw, NEW n \in NormalForms(type, raw)
  PROVE  type \in HostTypes \cup {"cname_suffix"} =>
             n = [field |-> FieldOf(type), pattern |-> Named("name", n.pattern.name)]
<1> SUFFICES ASSUME type \in HostTypes \cup {"cname_suffix"}
             PROVE  n = [field |-> FieldOf(type), pattern |-> Named("name", n.pattern.name)]
  BY Zenon
<1> DEFINE named(p) == \E x : p \in normalizeRawHost(x)
<1>1. PICK p : n = [field |-> FieldOf(type), pattern |-> p] /\ named(p)
  <2>1. CASE type = "host"
    BY <2>1 DEF NormalForms
  <2>2. CASE type \in {"host_suffix", "cname_suffix"}
    BY <2>2 DEF NormalForms, normalizeRawSuffix
  <2> QED BY Zenon, <2>1, <2>2 DEF HostTypes
<1>2. p = Named("name", p.name)
  BY Zenon, <1>1, HostNamed
<1>3. n.pattern = p
  BY <1>1
<1> QED BY Zenon, <1>1, <1>2, <1>3

\* What prepareRuntimeSnapshot stores.
LEMMA Prepared ==
  ASSUME NEW s \in Offers, NEW t \in prepareRuntimeSnapshot(s)
  PROVE  StoredRules(t.rules) /\ StoredPools(t.pools)
<1> DEFINE forms(rule) == normalizeDestinationRule(rule)
           normal == [i \in DOMAIN s.rules |->
                         [s.rules[i] EXCEPT !.normal = CHOOSE n \in forms(s.rules[i]) : TRUE]]
<1>1. /\ \A i \in DOMAIN s.rules : forms(s.rules[i]) # {}
      /\ t = [s EXCEPT !.rules = normal]
      /\ validateSnapshot(t)
  BY Zenon DEF prepareRuntimeSnapshot, PrepareSnapshot
<1>2. validateDestinationRules(t.rules) /\ validatePools(t.pools)
  BY Zenon, <1>1 DEF validateSnapshot
<1>3. t.rules = normal
  BY Zenon, <1>1, OffersAssumption
<1>4. ASSUME NEW i \in DOMAIN t.rules
      PROVE  IsStored(t.rules[i])
  <2> DEFINE old == s.rules[i]
             new == t.rules[i]
  <2>1. i \in DOMAIN s.rules /\ new = [old EXCEPT !.normal = CHOOSE n \in forms(old) : TRUE]
    BY Zenon, <1>3, <1>4
  <2>2. new.type = old.type /\ new.normal = CHOOSE n \in forms(old) : TRUE
    BY <2>1, OffersAssumption
  <2>3. new.normal \in forms(old)
    BY Zenon, <1>1, <2>1, <2>2
  <2>4. \E raw : new.normal \in NormalForms(old.type, raw)
    BY Zenon, <2>3 DEF normalizeDestinationRule, canonicalizeLegacyDestination
  <2>5. validateNormalizedDestination(new)
    BY <1>2 DEF validateDestinationRules, Every
  <2>6. new.type \in RuleTypes /\ new.normal.field = FieldOf(new.type)
        /\ (new.type = "metadata_ip" => "metadata" \in kindsOf[new.normal.pattern.address])
    BY <2>5 DEF validateNormalizedDestination, RuleTypes, HostTypes, CIDRTypes
  <2>7. new.type \in HostTypes \cup {"cname_suffix"} =>
            new.normal = [field |-> FieldOf(new.type), pattern |-> Named("name", new.normal.pattern.name)]
    BY Zenon, <2>2, <2>4, NormalNamed
  <2> QED BY Zenon, <2>6, <2>7 DEF IsStored
<1>5. ASSUME NEW i \in DOMAIN t.pools
      PROVE  t.pools[i].proxy = NoProxy \/ t.pools[i].proxy.trusted
  BY Zenon, <1>2, <1>5 DEF validatePools, Every, validatePoolUpstreamProxy
<1> QED BY Zenon, <1>4, <1>5 DEF StoredRules, StoredPools

-----------------------------------------------------------------------------
(* The invariant *)

\* What is stored is in normal form; what has been started passed Control's checks of
\* the destination under the proxy of its pool; what Egress has accepted has its brackets and
\* passed the check of its host, and a literal is resolved to itself.
AdmissionInv ==
    /\ phase \in Phases
    /\ code = "ok" <=> phase \notin {"answered", "failed", "refused"}
    /\ phase = "offered" => snapshot \in Offers
    /\ phase \notin {"offered", "refused"} => StoredRules(snapshot.rules) /\ StoredPools(snapshot.pools)
    /\ phase \in {"validated", "started", "accepted"} => validHost(request.host)
    /\ phase \in {"started", "accepted", "failed", "sent"} =>
           /\ proxy = NoProxy \/ proxy.trusted
           /\ start = RequestStart(request, snapshot, proxy)
           /\ ResolveDestinationPolicy(request, snapshot, proxy) = "ok"
    /\ phase = "accepted" =>
           /\ ~request.bare /\ ~validateHostSuffixPolicy(request.host.value, start.policy)
           /\ request.host.kind = "address" => world.answer = {unmapped[request.host.value]} /\ world.hops = {}
    /\ PolicyIsEnforced

LEMMA AdmissionInitHolds == AdmissionInit => AdmissionInv
BY Zenon DEF AdmissionInit, AdmissionInv, Phases, PolicyIsEnforced, AtEgress

LEMMA PutSnapshotKeeps == AdmissionInv /\ PutSnapshot => AdmissionInv'
<1> SUFFICES ASSUME AdmissionInv, PutSnapshot PROVE AdmissionInv'
  BY Zenon
<1>1. \/ phase' = "refused" /\ code' = "invalid_snapshot"
      \/ phase' = "stored" /\ snapshot' \in prepareRuntimeSnapshot(snapshot) /\ code' = code
  BY Zenon DEF PutSnapshot
<1>2. phase = "offered" /\ snapshot \in Offers /\ code = "ok"
  BY Zenon DEF PutSnapshot, AdmissionInv
<1>3. phase' = "stored" => StoredRules(snapshot'.rules) /\ StoredPools(snapshot'.pools)
  BY Zenon, <1>1, <1>2, Prepared
<1>4. PolicyIsEnforced'
  BY Zenon, <1>1, <1>2 DEF PolicyIsEnforced, AtEgress
<1> QED BY Zenon, <1>1, <1>2, <1>3, <1>4 DEF AdmissionInv, Phases

LEMMA ReceiveKeeps == AdmissionInv /\ Receive => AdmissionInv'
<1> SUFFICES ASSUME AdmissionInv, Receive PROVE AdmissionInv'
  BY Zenon
<1>1. PICK r \in Requests(snapshot) :
          /\ code' = validate(r, snapshot, r.receipts)
          /\ phase' = IF code' = "ok" THEN "validated" ELSE "answered"
          /\ request' = IF code' = "ok" THEN Validated(r) ELSE r
  BY Zenon DEF Receive, Outcome
<1>2. code' # "destination_denied" /\ (code' = "ok" => validHost(r.host))
  BY Zenon, <1>1, IngressCodes
<1>3. Validated(r).host = r.host
  BY DEF Validated
<1>4. phase = "stored" /\ UNCHANGED <<snapshot, proxy, start, world>>
  BY Zenon DEF Receive
<1>5. phase' = "validated" => validHost(request'.host)
  BY Zenon, <1>1, <1>2, <1>3
<1>6. PolicyIsEnforced'
  BY Zenon, <1>1, <1>2 DEF PolicyIsEnforced, AtEgress
<1> QED BY Zenon, <1>1, <1>4, <1>5, <1>6 DEF AdmissionInv, Phases

\* After a step that leaves the code no stricter than the documented table...
LEMMA NotStricter ==
  ASSUME ~Stricter'
  PROVE  /\ \A a \in Checked' : NoMetadata(snapshot'.rules, a)
         /\ ~HostAsSuffix(snapshot'.rules, request'.host.value)
         /\ normalizeTargetHost(request') = {request'.host}
<1>1. \A r \in OverridesOf(snapshot'.rules) : r.type = "metadata_ip" => Addresses(r) \cap Checked' = {}
  BY Zenon DEF Stricter
<1>2. \A r \in HostDenials(snapshot'.rules) :
          ~(r.type = "host" /\ r.normal.pattern.name \in suffixesOf[request'.host.value] \ {request'.host.value})
  BY Zenon DEF Stricter
<1>3. normalizeTargetHost(request') = {request'.host}
  BY Zenon DEF Stricter
<1>4. "host" \in HostTypes
  BY Zenon DEF HostTypes
<1>5. \A a \in Checked' : NoMetadata(snapshot'.rules, a)
  BY Zenon, <1>1 DEF NoMetadata
<1>6. ~HostAsSuffix(snapshot'.rules, request'.host.value)
  BY Zenon, <1>2, <1>4 DEF HostAsSuffix, HostDenials
<1> QED BY Zenon, <1>3, <1>5, <1>6

\* ...or no laxer.
LEMMA NotLaxer ==
  ASSUME ~Laxer'
  PROVE  /\ ~OtherOverrides(snapshot'.rules, request'.host.value)
         /\ \A a \in Checked' :
                ~(/\ kindsOf[a] # {}
                  /\ kindsOf[a] \subseteq UNION {kindsOf[p.base] : p \in compileDenyRules(snapshot'.rules).allowed})
<1>1. \A r \in HostDenials(snapshot'.rules), o \in OverridesOf(snapshot'.rules) :
          ~(/\ r.normal = o.normal /\ r.type # o.type
            /\ r.normal.pattern.name \in suffixesOf[request'.host.value])
  BY Zenon DEF Laxer
<1>2. ~OtherOverrides(snapshot'.rules, request'.host.value)
  BY Zenon, <1>1 DEF OtherOverrides, HostDenials
<1>3. \A a \in Checked' :
                ~(/\ kindsOf[a] # {}
                  /\ kindsOf[a] \subseteq UNION {kindsOf[p.base] : p \in compileDenyRules(snapshot'.rules).allowed})
  BY Zenon DEF Laxer
<1> QED BY Zenon, <1>2, <1>3

\* The addresses that are looked at after a step.
LEMMA CheckedThen ==
  /\ request'.host.kind = "address" => Checked' = {request'.host.value}
  /\ request'.host.kind # "address" /\ proxy' = NoProxy /\ AtEgress' => Checked' = world'.answer
  /\ request'.host.kind # "address" /\ ~(proxy' = NoProxy /\ AtEgress') => Checked' = {}
BY Zenon DEF Checked, Direct

\* What is documented of a request after a step, taken apart.
LEMMA Documented ==
  DocumentedDeny' <=>
      \/ \E a \in Checked' : DocumentedAddressDeny(a, snapshot'.rules)
      \/ DocumentedHostDeny(request'.host.value, snapshot'.rules)
      \/ proxy' = NoProxy /\ AtEgress' /\ DocumentedCNAMEDeny(request'.host.value, world'.hops, snapshot'.rules)
BY Zenon DEF DocumentedDeny, Direct

LEMMA StartKeeps == AdmissionInv /\ Start => AdmissionInv'
<1> SUFFICES ASSUME AdmissionInv, Start PROVE AdmissionInv'
  BY Zenon
<1>1. /\ phase = "validated" /\ UNCHANGED <<snapshot, request, world>>
      /\ StoredRules(snapshot.rules) /\ StoredPools(snapshot.pools) /\ validHost(request.host)
  BY Zenon DEF Start, AdmissionInv
<1>2. PICK j \in DOMAIN snapshot.pools :
          /\ proxy' = snapshot.pools[j].proxy
          /\ code' = ResolveDestinationPolicy(request, snapshot, proxy')
          /\ phase' = IF code' = "ok" THEN "started" ELSE "answered"
          /\ start' = IF code' = "ok" THEN RequestStart(request, snapshot, proxy') ELSE None
  BY Zenon DEF Start, Outcome
<1>3. proxy' = NoProxy \/ proxy'.trusted
  BY Zenon, <1>1, <1>2 DEF StoredPools
<1>4. resolveDestinationMode(proxy') # "refused"
  BY Zenon, <1>3 DEF resolveDestinationMode
<1>5. ~AtEgress' /\ phase' # "sent"
  BY Zenon, <1>2 DEF AtEgress
<1>6. ASSUME code' = "destination_denied", ~Stricter'
      PROVE  DocumentedDeny'
  <2>1. /\ \A a \in Checked' : NoMetadata(snapshot.rules, a)
        /\ normalizeTargetHost(request) = {request.host}
    BY Zenon, <1>1, <1>6, NotStricter
  <2>2. \/ evaluateHostDeny(request.host.value, snapshot.rules)
        \/ /\ request.host.kind = "address"
           /\ evaluateLiteralIPDeny(request.host.value, compileDenyRules(snapshot.rules).denied,
                                    compileDenyRules(snapshot.rules).allowed)
    BY Zenon, <1>2, <1>4, <1>6, <2>1, ControlCodes
  <2>3. CASE evaluateHostDeny(request.host.value, snapshot.rules)
    BY Zenon, <1>1, <2>3, ControlDenies, Documented
  <2>4. CASE /\ request.host.kind = "address"
             /\ evaluateLiteralIPDeny(request.host.value, compileDenyRules(snapshot.rules).denied,
                                      compileDenyRules(snapshot.rules).allowed)
    <3>1. request.host.value \in Checked'
      BY Zenon, <1>1, <2>4, CheckedThen
    <3>2. DocumentedAddressDeny(request.host.value, snapshot.rules)
      BY Zenon, <1>1, <2>1, <2>4, <3>1, LiteralAgrees
    <3> QED BY Zenon, <1>1, <3>1, <3>2, Documented
  <2> QED BY Zenon, <2>2, <2>3, <2>4
<1>7. PolicyIsEnforced'
  BY Zenon, <1>5, <1>6 DEF PolicyIsEnforced
<1> QED BY Zenon, <1>1, <1>2, <1>3, <1>7 DEF AdmissionInv, Phases

\* The parts of a request start that the policy is about.
LEMMA StartFields ==
  ASSUME NEW r, NEW s, NEW p
  PROVE  /\ RequestStart(r, s, p).host = r.host /\ RequestStart(r, s, p).bare = r.bare
         /\ RequestStart(r, s, p).policy = Policy(s, resolveDestinationMode(p))
BY DEF RequestStart

LEMMA AcceptKeeps == AdmissionInv /\ Accept => AdmissionInv'
<1> SUFFICES ASSUME AdmissionInv, Accept PROVE AdmissionInv'
  BY Zenon
<1>1. /\ phase = "started" /\ UNCHANGED <<snapshot, request, proxy, start>>
      /\ StoredRules(snapshot.rules) /\ StoredPools(snapshot.pools) /\ validHost(request.host)
      /\ proxy = NoProxy \/ proxy.trusted
      /\ start = RequestStart(request, snapshot, proxy)
      /\ ResolveDestinationPolicy(request, snapshot, proxy) = "ok"
  BY Zenon DEF Accept, AdmissionInv
<1>2. PICK w \in Worlds(start, proxy) :
          /\ world' = [answer |-> LookupIPAddr(start.host, w.answer),
                       hops |-> LookupCNAME(start.host, w.hops)]
          /\ code' = validateExecutionStart(start, w.bound, w.executable)
          /\ phase' = IF code' = "ok" THEN "accepted" ELSE "failed"
  BY Zenon DEF Accept, Outcome
<1> DEFINE host == request.host
           policy == Policy(snapshot, resolveDestinationMode(proxy))
<1>3. start.host = host /\ start.policy = policy /\ start.bare = request.bare
  BY Zenon, <1>1, StartFields
<1>4. ~request.bare /\ host.kind = "address" => ~validateResolvedIP(policy, host.value)
  <2> SUFFICES ASSUME ~request.bare, host.kind = "address" PROVE ~validateResolvedIP(policy, host.value)
    BY Zenon
  <2>1. host \in normalizeTargetHost(request)
    BY Zenon DEF normalizeTargetHost
  <2> QED BY Zenon, <1>1, <2>1, ControlCodes, LiteralResolved
<1>5. /\ code' = "destination_denied" => validateHostSuffixPolicy(host.value, policy)
      /\ code' = "ok" => ~request.bare /\ ~validateHostSuffixPolicy(host.value, policy)
  BY Zenon, <1>2, <1>3, <1>4, EgressCodes
<1>6. host.kind = "address" => world'.answer = {unmapped[host.value]} /\ world'.hops = {}
  BY <1>2, <1>3 DEF LookupIPAddr, LookupCNAME
<1>7. phase' # "sent"
  BY Zenon, <1>2
<1>8. ASSUME code' = "destination_denied", ~Stricter'
      PROVE  DocumentedDeny'
  <2>1. matchesAnySuffix(host.value, compileDenyRules(snapshot.rules).suffixes)
    BY Zenon, <1>5, <1>8, PolicyChecks
  <2>2. ~HostAsSuffix(snapshot.rules, host.value)
    BY Zenon, <1>1, <1>8, NotStricter
  <2>3. DocumentedHostDeny(host.value, snapshot.rules)
    BY Zenon, <1>1, <2>1, <2>2, EgressDenies
  <2> QED BY Zenon, <1>1, <2>3, Documented
<1>9. code' = "destination_denied" => validateHostSuffixPolicy(start'.host.value, start'.policy)
  BY Zenon, <1>1, <1>3, <1>5
<1>10. PolicyIsEnforced'
  BY Zenon, <1>7, <1>8, <1>9 DEF PolicyIsEnforced
<1> QED BY Zenon, <1>1, <1>2, <1>3, <1>5, <1>6, <1>10 DEF AdmissionInv, Phases

LEMMA ConnectKeeps == AdmissionInv /\ Connect => AdmissionInv'
<1> SUFFICES ASSUME AdmissionInv, Connect PROVE AdmissionInv'
  BY Zenon
<1> DEFINE host == request.host
           mode == resolveDestinationMode(proxy)
           policy == Policy(snapshot, mode)
           addresses == IF start.policy.mode = "remote" THEN "ok" ELSE validatedIPs(start, world.answer, world.hops)
<1>1. /\ phase = "accepted" /\ UNCHANGED <<snapshot, request, proxy, start, world>>
      /\ StoredRules(snapshot.rules) /\ StoredPools(snapshot.pools) /\ validHost(host)
      /\ proxy = NoProxy \/ proxy.trusted
      /\ start = RequestStart(request, snapshot, proxy)
      /\ ResolveDestinationPolicy(request, snapshot, proxy) = "ok"
      /\ ~request.bare /\ ~validateHostSuffixPolicy(host.value, start.policy)
      /\ host.kind = "address" => world.answer = {unmapped[host.value]} /\ world.hops = {}
  BY Zenon DEF Connect, AdmissionInv
<1>2. start.host = host /\ start.policy = policy /\ policy.mode = mode
  <2>1. policy.mode = mode
    BY Zenon, PolicyFields
  <2>2. start = RequestStart(request, snapshot, proxy)
    BY Zenon, <1>1
  <2>3. start.host = host /\ start.policy = policy
    BY Zenon, <2>2, StartFields
  <2> QED BY Zenon, <2>1, <2>3
<1>3. /\ code' = "destination_denied" => addresses = "destination_denied"
      /\ code' = "ok" => addresses = "ok"
      /\ phase' = IF code' = "ok" THEN "sent" ELSE "failed"
  <2>1. \/ code' = addresses ?? buildProfiledRequest(start)
        \/ code' = (IF start.mode = "raw_tunnel" THEN "ok" ELSE buildHTTPRequest(start)) ?? addresses
    BY Zenon DEF Connect, Outcome
  <2>2. phase' = IF code' = "ok" THEN "sent" ELSE "failed"
    BY Zenon DEF Connect, Outcome
  <2> QED BY Zenon, <2>1, <2>2, BuildCodes DEF ??, buildProfiledRequest
<1>4. IF proxy = NoProxy THEN mode = "direct" ELSE mode = "remote"
  BY Zenon, <1>1 DEF resolveDestinationMode
<1>5. ASSUME host.kind = "address"
      PROVE  /\ ~evaluateLiteralIPDeny(host.value, compileDenyRules(snapshot.rules).denied, compileDenyRules(snapshot.rules).allowed)
             /\ ~validateResolvedIP(policy, host.value)
             /\ world.answer = {host.value} /\ world.hops = {}
  <2>0. host \in normalizeTargetHost(request)
    BY Zenon, <1>1 DEF normalizeTargetHost
  <2>1. ~evaluateLiteralIPDeny(host.value, compileDenyRules(snapshot.rules).denied, compileDenyRules(snapshot.rules).allowed)
    BY Zenon, <1>1, <1>5, <2>0, ControlCodes
  <2>2. unmapped[host.value] = host.value
    BY Zenon, <1>1, <1>5, <2>1, AddressAssumption DEF evaluateLiteralIPDeny, validHost
  <2> QED BY Zenon, <1>1, <1>5, <2>1, <2>2, LiteralResolved
<1>6. addresses = "destination_denied" =>
          /\ mode # "remote"
          /\ \/ \E a \in world.answer : validateResolvedIP(policy, a)
             \/ validateCNAMESuffixPolicy(host.value, world.hops, policy)
  BY Zenon, <1>2, ResolutionCodes
<1>7. addresses = "ok" /\ mode # "remote" =>
          /\ \A a \in world.answer : ~validateResolvedIP(policy, a)
          /\ ~validateCNAMESuffixPolicy(host.value, world.hops, policy)
  BY Zenon, <1>2, ResolutionCodes
<1>8. code' = "destination_denied" => host.kind = "name"
  BY Zenon, <1>1, <1>3, <1>5, <1>6 DEF validHost, validateCNAMESuffixPolicy
<1>9. AtEgress'
  BY Zenon, <1>3 DEF AtEgress
<1>c. host.kind = "name" /\ proxy = NoProxy => Checked' = world.answer
  BY Zenon, <1>1, <1>9, CheckedThen
<1> HIDE DEF addresses, policy, mode
<1>10. ASSUME ~Stricter', code' = "destination_denied"
       PROVE  DocumentedDeny'
  <2>1. proxy = NoProxy /\ Checked' = world.answer /\ \A a \in Checked' : NoMetadata(snapshot.rules, a)
    BY Zenon, <1>1, <1>3, <1>4, <1>6, <1>8, <1>10, <1>c, NotStricter
  <2>2. CASE \E a \in world.answer : validateResolvedIP(policy, a)
    <3>1. PICK a \in world.answer : DocumentedAddressDeny(a, snapshot.rules)
      BY Zenon, <1>1, <2>1, <2>2, ResolvedDenied DEF policy
    <3> QED BY Zenon, <1>1, <2>1, <3>1, Documented
  <2>3. CASE validateCNAMESuffixPolicy(host.value, world.hops, policy)
    <3>1. DocumentedCNAMEDeny(host.value, world.hops, snapshot.rules)
      <4>1. HopDenied(snapshot.rules, host.value, world.hops)
        BY Zenon, <2>3, PolicyChecks DEF policy
      <4> QED BY Zenon, <1>1, <4>1, CNAMEAgrees
    <3> QED BY Zenon, <1>1, <1>9, <2>1, <3>1, Documented
  <2> QED BY Zenon, <1>3, <1>6, <1>10, <2>2, <2>3
<1>11. ASSUME ~Laxer', code' = "ok"
       PROVE  ~DocumentedDeny'
  <2>1. ~DocumentedHostDeny(host.value, snapshot.rules)
    <3>1. host.value \in Name \cup Address /\ ~OtherOverrides(snapshot.rules, host.value)
      BY Zenon, <1>1, <1>11, NotLaxer DEF validHost
    <3>2. ~matchesAnySuffix(host.value, compileDenyRules(snapshot.rules).suffixes)
      <4>1. ~validateHostSuffixPolicy(host.value, Policy(snapshot, mode))
        BY Zenon, <1>1, <1>2 DEF policy
      <4> QED BY Zenon, <4>1, PolicyChecks
    <3> QED BY Zenon, <1>1, <3>1, <3>2, EgressAllows
  <2>2. ASSUME NEW a \in Checked', DocumentedAddressDeny(a, snapshot.rules)
        PROVE  FALSE
    <3>1. CASE host.kind = "address"
      <4>1. a = host.value
        BY Zenon, <1>1, <2>2, <3>1, CheckedThen
      <4> QED BY Zenon, <1>1, <1>5, <2>2, <3>1, <4>1, LiteralAgrees
    <3>2. CASE host.kind = "name"
      <4>1. proxy = NoProxy /\ a \in world.answer
        BY Zenon, <1>1, <1>9, <1>c, <2>2, <3>2, CheckedThen
      <4>2. ~validateResolvedIP(policy, a)
        BY Zenon, <1>3, <1>4, <1>7, <1>11, <4>1
      <4>3. /\ kindsOf[a] # {}
            /\ kindsOf[a] \subseteq UNION {kindsOf[p.base] : p \in compileDenyRules(snapshot.rules).allowed}
        BY Zenon, <1>1, <2>2, <4>2, ResolvedAllowed DEF policy
      <4> QED BY Zenon, <1>1, <1>11, <2>2, <4>3, NotLaxer
    <3> QED BY Zenon, <1>1, <3>1, <3>2 DEF validHost
  <2>3. ASSUME proxy = NoProxy PROVE ~DocumentedCNAMEDeny(host.value, world.hops, snapshot.rules)
    <3>1. ~validateCNAMESuffixPolicy(host.value, world.hops, policy)
      BY Zenon, <1>3, <1>4, <1>7, <1>11, <2>3
    <3>2. ~HopDenied(snapshot.rules, host.value, world.hops)
      BY Zenon, <3>1, PolicyChecks DEF policy
    <3> QED BY Zenon, <1>1, <3>2, CNAMEAgrees
  <2> QED BY Zenon, <1>1, <2>1, <2>2, <2>3, Documented
<1>12. PolicyIsEnforced'
  <2>1. start'.host.kind = "address" => code' # "destination_denied"
    BY Zenon, <1>1, <1>2, <1>8
  <2>2. phase' = "sent" <=> code' = "ok"
    BY Zenon, <1>3
  <2> QED BY Zenon, <1>10, <1>11, <2>1, <2>2 DEF PolicyIsEnforced
<1> QED BY Zenon, <1>1, <1>3, <1>12 DEF AdmissionInv, Phases

LEMMA AdmissionInductive == AdmissionInv /\ [AdmissionNext]_admissionVars => AdmissionInv'
<1> SUFFICES ASSUME AdmissionInv, [AdmissionNext]_admissionVars PROVE AdmissionInv'
  BY Zenon
<1>1. CASE UNCHANGED admissionVars
  <2>1. UNCHANGED <<phase, snapshot, request, proxy, start, world, code>>
    BY Zenon, <1>1 DEF admissionVars
  <2>2. (AtEgress' <=> AtEgress) /\ (Direct' <=> Direct) /\ Checked' = Checked
    BY Zenon, <2>1 DEF AtEgress, Direct, Checked
  <2>3. (Stricter' <=> Stricter) /\ (Laxer' <=> Laxer)
    BY Zenon, <2>1, <2>2 DEF Stricter, Laxer
  <2>4. DocumentedDeny' <=> DocumentedDeny
    BY Zenon, <2>1, <2>2 DEF DocumentedDeny
  <2>5. PolicyIsEnforced'
    BY Zenon, <2>1, <2>2, <2>3, <2>4 DEF AdmissionInv, PolicyIsEnforced
  <2> QED BY Zenon, <2>1, <2>5 DEF AdmissionInv
<1> QED BY Zenon, <1>1, PutSnapshotKeeps, ReceiveKeeps, StartKeeps, AcceptKeeps, ConnectKeeps DEF AdmissionNext, Done

\* Whatever the snapshot, the request and the DNS answers: a destination that the documented
\* table allows is denied only in the three cases of Stricter, one that it denies is sent to
\* only in the two cases of Laxer, and Egress (validateResolvedIP, the suffix checks) denies an
\* address literal that Control (evaluateLiteralIPDeny) lets through for a host rule only.
THEOREM PolicyEnforced == AdmissionSpec => []PolicyIsEnforced
<1>1. AdmissionInv => PolicyIsEnforced
  BY Zenon DEF AdmissionInv
<1> QED BY <1>1, AdmissionInitHolds, AdmissionInductive, PTL DEF AdmissionSpec
=============================================================================
