--------------------------- MODULE ReceiptProofs ---------------------------
(***************************************************************************)
(* Proofs about Receipt, for any number of receipts, parts, requests,      *)
(* store failures and crashes.  What a receipt's operations promise holds  *)
(* for one Control on an object store; with two, whose mutexes exclude     *)
(* nothing of each other's, it does not (README), so the theorems about    *)
(* the promises assume OneControl.                                         *)
(*                                                                         *)
(* An operation works on a copy of the record that it loaded several store *)
(* calls ago.  The inductive invariant says, for every store call an       *)
(* operation may be about to make, what the store still holds of what the  *)
(* operation has seen (Expected); a crash merely forgets the operation.    *)
(***************************************************************************)
EXTENDS Receipt, TLAPS

OneControl == \E c : Controls = {c}

\* TypeOK by parts: a claim names its request, in the copy of the record too, and a request
\* under way has a place and a receipt.
Claimant(rec) == rec.state = "assigned" => rec.by \in Requests

RecordTypes == record \in [Receipts -> Record] /\ \A i \in Receipts : Claimant(record[i])

TaskTypes ==
    /\ task \in [Controls -> Task]
    /\ \A c \in Controls :
        (task[c].step # "idle" => task[c].id \in Receipts) /\ Claimant(task[c].rec)

RequestTypes ==
    /\ request \in [Requests -> [phase : {"new", "preparing", "running", "over"},
                                 at : Controls \union {None}, id : Receipts \union {None}]]
    /\ \A r \in Requests :
        IF request[r].phase = "new" THEN request[r].at = None
        ELSE request[r].at \in Controls /\ request[r].id \in Receipts

\* A claim is made for a request that has been given its receipt.
Prepared ==
    \A c \in Controls : task[c].step = "saveAssigned" =>
        task[c].rec.state = "assigned" /\ request[task[c].rec.by].phase # "new"

ObjectTypes ==
    /\ part \in [Receipts -> Parts]
    /\ body \in [Receipts -> {None, "good", "bad"}]
    /\ index \in Receipts \union {None}
    /\ delivered \in [Requests -> {None, "good", "bad"}]
    /\ answered \subseteq Receipts

ClockTypes ==
    /\ lapsed \subseteq Requests /\ aged \subseteq Receipts
    /\ faults \in 0..MaxFaults /\ crashes \in 0..MaxCrashes

Types ==
    /\ RecordTypes /\ TaskTypes /\ RequestTypes /\ Prepared /\ ObjectTypes /\ ClockTypes
    /\ clients \in Populations

\* What the store holds of receipt t.id when operation t is about to make its next call.
Expected(t) ==
    LET now == record[t.id] IN
    /\ t.step \in {"saveNew", "saveNewKeyed"} => now.state = "absent"
    /\ t.step = "saveIndex" => now.state # "absent"
    /\ t.step \in {"storePart", "dropPart", "savePart"} =>
            now.state = "uploading" /\ t.rec.state = "uploading"
    /\ t.step = "saveVerifying" =>
            now.state \in {"uploading", "verifying"} /\ t.rec.state = "verifying"
    /\ t.step \in {"compose", "dropBody"} => now.state = "verifying"
    /\ t.step = "saveUploading" => now.state = "verifying" /\ t.rec.state = "uploading"
    /\ t.step = "saveRejected" =>
            now.state \in {"uploading", "verifying"} /\ t.rec.state = "rejected"
    /\ t.step = "dropParts" => now.state = "verifying" /\ body[t.id] = "good"
    /\ t.step = "saveVerified" =>
            now.state = "verifying" /\ t.rec.state = "verified" /\ body[t.id] = "good"
    /\ t.step \in {"dropPayload", "dropPayloadParts", "saveEnded"} =>
            \/ t.rec.state = "cancelled" /\ now.state \notin {"absent", "assigned", "consumed"}
            \/ t.rec.state = "expired" /\ now.state \notin {"absent", "expired"} /\ t.id \in aged
    /\ t.step = "saveReleased" =>
            now.state = "assigned" /\ now.by \in lapsed /\ t.rec.state = "verified"
    /\ t.step = "saveAssigned" =>
            /\ t.rec.state = "assigned"
            /\ now.state = "verified" \/ (now.state = "assigned" /\ now.by \in lapsed)
            /\ request[t.rec.by].phase = "preparing" /\ request[t.rec.by].id = t.id
    /\ t.step = "saveFinished" =>
            /\ now.state = "assigned" /\ request[now.by].phase = "over"
            /\ t.rec.state \in {"verified", "consumed"}

Copies == \A c \in Controls : Expected(task[c])

\* What was verified is what was declared, as long as it is there.
Verified ==
    \A i \in Receipts :
        record[i].state \in {"verified", "assigned", "consumed"} => body[i] \in {None, "good"}

\* A key that was answered keeps its receipt.
Keyed ==
    /\ answered \subseteq {index}
    /\ answered # {} => record[index].state # "absent"
    /\ \A c \in Controls : task[c].step \in {"saveNewKeyed", "saveIndex"} => answered = {}

Promises == Copies /\ Verified /\ Keyed /\ DeliveredIsDeclared

IInv == Types /\ Promises

-----------------------------------------------------------------------------
(* The steps of an operation.                                              *)

LEMMA IdleTask == Idle \in Task /\ Idle.step = "idle" /\ NoRecord \in Record /\ NewRecord \in Record
                  /\ NewRecord.state = "uploading" /\ NoRecord.state = "absent" /\ Idle.rec = NoRecord
                  /\ NoParts \in Parts
<1>1. NoParts \in Parts
  BY Zenon DEF NoParts, Parts
<1>2. NoRecord \in Record /\ NewRecord \in Record
      /\ NewRecord.state = "uploading" /\ NoRecord.state = "absent"
  BY Zenon, <1>1 DEF NoRecord, NewRecord, Record, States
<1>3. Idle \in Task /\ Idle.step = "idle" /\ Idle.rec = NoRecord
  BY Zenon, <1>2 DEF Idle, Task, Steps
<1> QED BY Zenon, <1>1, <1>2, <1>3

\* A Control's operation becomes t.
Becomes(c, t) == task' = [task EXCEPT ![c] = t]

LEMMA TaskMoves ==
    ASSUME TaskTypes, NEW c \in Controls, NEW t \in Task, t.step # "idle" => t.id \in Receipts,
           Claimant(t.rec), Becomes(c, t)
    PROVE  TaskTypes' /\ task'[c] = t
<1>1. task' \in [Controls -> Task] /\ task'[c] = t /\ \A d \in Controls \ {c} : task'[d] = task[d]
  BY Zenon DEF Becomes, TaskTypes
<1> QED BY Zenon, <1>1 DEF TaskTypes, Claimant

\* The forms a step takes, as one.
LEMMA TaskForms ==
    ASSUME TaskTypes, NEW c \in Controls, NEW i, NEW step, NEW state, NEW rec
    PROVE  /\ Takes(c, i, step, rec) =>
                Becomes(c, [step |-> step, id |-> i, rec |-> rec, no |-> 0, data |-> None])
           /\ Then(c, step) => Becomes(c, [task[c] EXCEPT !.step = step])
           /\ ThenWith(c, step, state) =>
                Becomes(c, [task[c] EXCEPT !.step = step, !.rec = [task[c].rec EXCEPT !.state = state]])
           /\ Returns(c) => Becomes(c, Idle)
<1>1. Takes(c, i, step, rec) =>
                Becomes(c, [step |-> step, id |-> i, rec |-> rec, no |-> 0, data |-> None])
  BY Zenon DEF Takes, Idle, Becomes
<1>2. Then(c, step) => Becomes(c, [task[c] EXCEPT !.step = step])
  BY Zenon DEF Then, Becomes, TaskTypes
<1>3. ThenWith(c, step, state) =>
          Becomes(c, [task[c] EXCEPT !.step = step, !.rec = [task[c].rec EXCEPT !.state = state]])
  <2>1. task \in [Controls -> [step : Steps, id : Receipts \union {None}, rec : Record,
                             no : PartNos \union {0}, data : Bytes \union {None}]]
    BY Zenon DEF TaskTypes, Task
  <2>2. [task EXCEPT ![c].step = step, ![c].rec.state = state]
          = [task EXCEPT ![c] = [task[c] EXCEPT !.step = step,
                                                !.rec = [task[c].rec EXCEPT !.state = state]]]
    BY Zenon, <2>1
  <2> QED BY Zenon, <2>2 DEF ThenWith, Becomes
<1>4. Returns(c) => Becomes(c, Idle)
  BY Zenon DEF Returns, Becomes
<1> QED BY Zenon, <1>1, <1>2, <1>3, <1>4

\* A save, with or without effect.
LEMMA RecordSaved ==
    ASSUME RecordTypes, ClockTypes, NEW i \in Receipts, NEW rec \in Record, Claimant(rec),
           Saves(i, rec) \/ SaveFails(i, rec)
    PROVE  /\ RecordTypes' /\ faults' \in 0..MaxFaults
           /\ record' = record \/ record' = [record EXCEPT ![i] = rec]
<1>1. faults' \in 0..MaxFaults
  BY BoundsAssumption DEF Saves, SaveFails, Unfailing, Fault, ClockTypes
<1>2. record' = record \/ record' = [record EXCEPT ![i] = rec]
  BY Zenon DEF Saves, SaveFails
<1>3. RecordTypes'
  BY Zenon, <1>2 DEF RecordTypes, Claimant
<1> QED BY Zenon, <1>1, <1>2, <1>3

\* Each of them keeps the types.
LEMMA TaskKept ==
    ASSUME TaskTypes, Prepared, NEW c \in Controls,
           \A r \in Requests : request[r].phase # "new" => request'[r].phase # "new"
    PROVE  /\ \A i \in Receipts, step \in Steps \ {"saveAssigned"}, rec \in Record :
                Claimant(rec) /\ Takes(c, i, step, rec) => TaskTypes' /\ Prepared'
           /\ \A step \in Steps \ {"saveAssigned"} : (task[c].step # "idle" /\ Then(c, step)) => TaskTypes' /\ Prepared'
           /\ \A step \in Steps \ {"saveAssigned"}, state \in States \ {"assigned"} :
                (task[c].step # "idle" /\ ThenWith(c, step, state)) => TaskTypes' /\ Prepared'
           /\ Returns(c) => TaskTypes' /\ Prepared'
<1>0. task[c] \in Task /\ task[c].rec \in Record /\ Claimant(task[c].rec)
      /\ (task[c].step # "idle" => task[c].id \in Receipts)
  BY Zenon DEF TaskTypes, Task
<1>5. ASSUME NEW t \in Task, t.step # "saveAssigned", Becomes(c, t)
      PROVE  Prepared'
  <2>1. task'[c] = t /\ \A d \in Controls \ {c} : task'[d] = task[d]
    BY Zenon, <1>5 DEF Becomes, TaskTypes
  <2> QED BY Zenon, <1>5, <2>1 DEF Prepared, TaskTypes, Claimant
<1>1. ASSUME NEW i \in Receipts, NEW step \in Steps \ {"saveAssigned"}, NEW rec \in Record, Claimant(rec),
             Takes(c, i, step, rec)
      PROVE  TaskTypes' /\ Prepared'
  <2> DEFINE t == [step |-> step, id |-> i, rec |-> rec, no |-> 0, data |-> None]
  <2>1. t \in Task /\ t.id = i /\ t.rec = rec /\ t.step = step
    BY Zenon DEF Task
  <2>2. Becomes(c, t)
    BY Zenon, <1>1, TaskForms
  <2> HIDE DEF t
  <2> QED BY Zenon, <1>1, <2>1, <2>2, TaskMoves, <1>5
<1>2. ASSUME NEW step \in Steps \ {"saveAssigned"}, task[c].step # "idle", Then(c, step)
      PROVE  TaskTypes' /\ Prepared'
  <2> DEFINE t == [task[c] EXCEPT !.step = step]
  <2>1. t \in Task /\ t.id = task[c].id /\ t.rec = task[c].rec /\ t.step = step
    BY Zenon, <1>0 DEF Task
  <2>2. Becomes(c, t)
    BY Zenon, <1>2, TaskForms
  <2> HIDE DEF t
  <2> QED BY Zenon, <1>0, <1>2, <2>1, <2>2, TaskMoves, <1>5
<1>3. ASSUME NEW step \in Steps \ {"saveAssigned"}, NEW state \in States \ {"assigned"}, task[c].step # "idle",
             ThenWith(c, step, state)
      PROVE  TaskTypes' /\ Prepared'
  <2> DEFINE r == [task[c].rec EXCEPT !.state = state]
             t == [task[c] EXCEPT !.step = step, !.rec = r]
  <2>1. r \in Record /\ r.state = state
    BY Zenon, <1>0 DEF Record
  <2>n. Becomes(c, t)
    BY Zenon, <1>3, TaskForms
  <2> HIDE DEF r
  <2>2. t \in Task /\ t.id = task[c].id /\ t.rec = r /\ t.step = step
    BY Zenon, <1>0, <2>1 DEF Task
  <2> HIDE DEF t
  <2> QED BY Zenon, <1>0, <1>3, <2>1, <2>2, <2>n, TaskMoves, <1>5 DEF Claimant
<1>4. ASSUME Returns(c)
      PROVE  TaskTypes' /\ Prepared'
  BY Zenon, <1>4, IdleTask, TaskForms, TaskMoves, <1>5 DEF Claimant
<1> QED BY Zenon, <1>1, <1>2, <1>3, <1>4

LEMMA FaultCounted ==
    ASSUME ClockTypes, Unfailing \/ Fault
    PROVE  faults' \in 0..MaxFaults
BY BoundsAssumption DEF Unfailing, Fault, ClockTypes

\* Deletions of parts or of a body.
LEMMA Dropped ==
    ASSUME ObjectTypes, ClockTypes, NEW i \in Receipts
    PROVE  /\ Drops(body, i, None) =>
                /\ body' \in [Receipts -> {None, "good", "bad"}] /\ faults' \in 0..MaxFaults
                /\ \A j \in Receipts : body'[j] \in {body[j], None}
                /\ \A j \in Receipts \ {i} : body'[j] = body[j]
           /\ \A n : Drops(part, i, [part[i] EXCEPT ![n] = None]) =>
                part' \in [Receipts -> Parts] /\ faults' \in 0..MaxFaults
           /\ \A rec : DropsListed(i, rec) =>
                part' \in [Receipts -> Parts] /\ faults' \in 0..MaxFaults
<1>1. Drops(body, i, None) =>
                /\ body' \in [Receipts -> {None, "good", "bad"}] /\ faults' \in 0..MaxFaults
                /\ \A j \in Receipts : body'[j] \in {body[j], None}
                /\ \A j \in Receipts \ {i} : body'[j] = body[j]
  BY Zenon, FaultCounted DEF Drops, ObjectTypes
<1>2. ASSUME NEW n, Drops(part, i, [part[i] EXCEPT ![n] = None])
      PROVE  part' \in [Receipts -> Parts] /\ faults' \in 0..MaxFaults
  <2>1. [part[i] EXCEPT ![n] = None] \in Parts
    BY Zenon DEF ObjectTypes, Parts
  <2> QED BY Zenon, <1>2, <2>1, FaultCounted DEF Drops, ObjectTypes
<1>3. ASSUME NEW rec, DropsListed(i, rec)
      PROVE  part' \in [Receipts -> Parts] /\ faults' \in 0..MaxFaults
  <2>1. PICK left \in SUBSET Listed(rec) :
          /\ part' = [part EXCEPT ![i] =
                        [n \in PartNos |-> IF n \in Listed(rec) \ left THEN None ELSE @[n]]]
          /\ IF left = {} THEN Unfailing ELSE Fault
    BY Zenon, <1>3 DEF DropsListed
  <2> DEFINE p == [n \in PartNos |-> IF n \in Listed(rec) \ left THEN None ELSE part[i][n]]
  <2>2. p \in Parts
    BY Zenon DEF ObjectTypes, Parts
  <2>3. part' = [part EXCEPT ![i] = p]
    BY Zenon, <2>1
  <2> HIDE DEF p
  <2> QED BY Zenon, <2>1, <2>2, <2>3, FaultCounted DEF ObjectTypes
<1> QED BY Zenon, <1>1, <1>2, <1>3

-----------------------------------------------------------------------------
(* Types.                                                                  *)

objects == <<part, body, index, delivered, answered>>

LEMMA Population ==
    ASSUME Types
    PROVE  /\ clients.receipts \subseteq Receipts /\ clients.requests \subseteq Requests
           /\ clients.uploads \subseteq Bytes
BY Zenon, PopulationsAssumption DEF Types

\* A save, and what becomes of the operation after it.
LEMMA SaveTypes ==
    ASSUME Types, NEW c \in Controls, task[c].step # "idle",
           NEW rec \in Record, Claimant(rec),
           Saves(task[c].id, rec) \/ SaveFails(task[c].id, rec),
           Returns(c) \/ (\E step \in Steps \ {"saveAssigned"} : Then(c, step)),
           UNCHANGED <<objects, lapsed, aged, crashes, clients>>, RequestTypes',
           \A r \in Requests : request[r].phase # "new" => request'[r].phase # "new"
    PROVE  Types'
<1>1. task[c].id \in Receipts
  BY Zenon DEF Types, TaskTypes
<1>2. RecordTypes' /\ faults' \in 0..MaxFaults
  BY Zenon, <1>1, RecordSaved DEF Types
<1>3. TaskTypes' /\ Prepared'
  BY Zenon, TaskKept DEF Types
<1>4. ObjectTypes' /\ ClockTypes'
  BY Zenon, <1>2 DEF Types, ObjectTypes, ClockTypes, objects
<1> QED BY Zenon, <1>2, <1>3, <1>4 DEF Types

\* The beginning of an operation.
LEMMA StartTypes ==
    ASSUME Types, NEW c \in Controls, NEW i \in Receipts, NEW rec \in Record,
           NEW step \in Steps \ {"saveAssigned"}, Claimant(rec), Takes(c, i, step, rec),
           UNCHANGED <<record, objects, lapsed, aged, faults, crashes, clients>>, RequestTypes',
           \A r \in Requests : request[r].phase # "new" => request'[r].phase # "new"
    PROVE  Types'
<1>1. TaskTypes' /\ Prepared'
  BY Zenon, TaskKept DEF Types
<1>2. RecordTypes' /\ ObjectTypes' /\ ClockTypes'
  BY Zenon DEF Types, RecordTypes, ObjectTypes, ClockTypes, objects
<1> QED BY Zenon, <1>1, <1>2 DEF Types

LEMMA SaveStepTypes ==
    ASSUME Types, NEW c \in Controls, UNCHANGED clients,
           \/ SaveNew(c) \/ SavePart(c) \/ SaveVerifying(c) \/ SaveEndOfComplete(c)
           \/ SaveVerified(c) \/ SaveEnd(c) \/ SaveAssigned(c)
    PROVE  Types'
<1> DEFINE t == task[c]
<1>0. t \in Task /\ t.rec \in Record /\ Claimant(t.rec) /\ t.no \in PartNos \union {0}
      /\ t.data \in Bytes \union {None}
  BY Zenon DEF Types, TaskTypes, Task
<1>1. UNCHANGED request =>
        /\ RequestTypes'
        /\ \A r \in Requests : request[r].phase # "new" => request'[r].phase # "new"
  BY Zenon DEF Types, RequestTypes
<1>2. UNCHANGED <<part, body, index, delivered, answered>> => UNCHANGED objects
  BY Zenon DEF objects
<1>a. CASE SaveNew(c)
  <2>1. Claimant(NewRecord)
    BY Zenon, IdleTask DEF Claimant
  <2>2. "saveIndex" \in Steps \ {"saveAssigned"} /\ t.step # "idle"
    BY Zenon, <1>a DEF Steps, SaveNew, At
  <2> QED BY Zenon, <1>1, <1>2, <1>a, <2>1, <2>2, IdleTask, SaveTypes DEF SaveNew
<1>b. CASE SavePart(c)
  <2> DEFINE rec == [t.rec EXCEPT !.parts[t.no] = t.data]
  <2>1. rec \in Record /\ Claimant(rec)
    <3>1. [t.rec.parts EXCEPT ![t.no] = t.data] \in Parts
      BY Zenon, <1>0 DEF Record, Parts
    <3>2. rec = [t.rec EXCEPT !.parts = [t.rec.parts EXCEPT ![t.no] = t.data]]
      BY Zenon, <1>0 DEF Record
    <3> HIDE DEF rec
    <3> QED BY Zenon, <1>0, <3>1, <3>2 DEF Record, Claimant
  <2>2. t.step # "idle" /\ (Saves(t.id, rec) \/ SaveFails(t.id, rec)) /\ Returns(c)
    BY Zenon, <1>b DEF SavePart, At
  <2> HIDE DEF rec
  <2> QED BY Zenon, <1>1, <1>2, <1>b, <2>1, <2>2, SaveTypes DEF SavePart
<1>c. CASE SaveVerifying(c)
  <2>1. "compose" \in Steps \ {"saveAssigned"} /\ t.step # "idle"
    BY Zenon, <1>c DEF Steps, SaveVerifying, At
  <2> QED BY Zenon, <1>0, <1>1, <1>2, <1>c, <2>1, SaveTypes DEF SaveVerifying
<1>d. CASE SaveEndOfComplete(c)
  <2>1. t.step # "idle"
    BY Zenon, <1>d DEF SaveEndOfComplete, At
  <2> QED BY Zenon, <1>0, <1>1, <1>2, <1>d, <2>1, SaveTypes DEF SaveEndOfComplete
<1>e. CASE SaveVerified(c)
  <2>1. t.step # "idle"
    BY Zenon, <1>e DEF SaveVerified, At
  <2> QED BY Zenon, <1>0, <1>1, <1>2, <1>e, <2>1, SaveTypes DEF SaveVerified
<1>f. CASE SaveEnd(c)
  <2>1. t.step # "idle"
    BY Zenon, <1>f DEF SaveEnd, At
  <2> QED BY Zenon, <1>0, <1>1, <1>2, <1>f, <2>1, SaveTypes DEF SaveEnd
<1>g. CASE SaveAssigned(c)
  <2>1. t.step # "idle"
    BY Zenon, <1>g DEF SaveAssigned, At
  <2>2. PICK p \in {"running", "over"} : request' = [request EXCEPT ![t.rec.by].phase = p]
    BY Zenon, <1>g DEF SaveAssigned
  <2>3. t.rec.by \in Requests /\ request[t.rec.by].phase # "new"
    BY Zenon, <1>0, <1>g DEF Types, Prepared, SaveAssigned, At, Claimant
  <2>4. RequestTypes'
    BY <2>2, <2>3 DEF Types, RequestTypes
  <2>5. \A r \in Requests : request[r].phase # "new" => request'[r].phase # "new"
    BY Zenon, <2>2 DEF Types, RequestTypes
  <2> QED BY Zenon, <1>0, <1>2, <1>g, <2>1, <2>4, <2>5, SaveTypes DEF SaveAssigned
<1> QED BY Zenon, <1>a, <1>b, <1>c, <1>d, <1>e, <1>f, <1>g

LEMMA OtherStepTypes ==
    ASSUME Types, NEW c \in Controls, UNCHANGED clients,
           \/ SaveIndex(c) \/ StorePart(c) \/ DropPart(c) \/ Compose(c)
           \/ DropBody(c) \/ DropParts(c) \/ DropPayload(c) \/ DropPayloadParts(c)
    PROVE  Types'
<1> DEFINE t == task[c]
<1>0. t \in Task /\ t.rec \in Record /\ t.no \in PartNos \union {0} /\ t.data \in Bytes \union {None}
      /\ t.step # "idle" /\ t.id \in Receipts
  BY Zenon DEF Types, TaskTypes, Task, At, SaveIndex, StorePart, DropPart, Compose, DropBody, DropParts,
     DropPayload, DropPayloadParts
<1>1. UNCHANGED <<record, request, lapsed, aged, crashes, clients>>
  BY Zenon DEF SaveIndex, StorePart, DropPart, Compose, DropBody, DropParts, DropPayload,
     DropPayloadParts
<1>2. RecordTypes' /\ RequestTypes'
      /\ \A r \in Requests : request[r].phase # "new" => request'[r].phase # "new"
  BY Zenon, <1>1 DEF Types, RecordTypes, RequestTypes
<1>3. ASSUME faults' \in 0..MaxFaults, ObjectTypes', TaskTypes', Prepared'
      PROVE  Types'
  BY Zenon, <1>1, <1>2, <1>3 DEF Types, ClockTypes
<1>4. /\ \A step \in Steps \ {"saveAssigned"} : Then(c, step) => TaskTypes' /\ Prepared'
      /\ \A step \in Steps \ {"saveAssigned"}, state \in States \ {"assigned"} :
            ThenWith(c, step, state) => TaskTypes' /\ Prepared'
      /\ Returns(c) => TaskTypes' /\ Prepared'
  BY Zenon, <1>0, <1>2, TaskKept DEF Types
<1>5. Unfailing \/ Fault => faults' \in 0..MaxFaults
  BY Zenon, FaultCounted DEF Types
<1>6. {"savePart", "dropPart", "dropParts", "dropBody", "saveUploading", "saveRejected",
       "dropPayloadParts", "saveEnded"} \subseteq Steps \ {"saveAssigned"}
      /\ {"uploading", "rejected"} \subseteq States \ {"assigned"}
  BY Zenon DEF Steps, States
<1>7. ObjectTypes /\ ClockTypes
  BY Zenon DEF Types
<1>a. CASE SaveIndex(c)
  <2>1. ObjectTypes'
    BY Zenon, <1>0, <1>7, <1>a DEF SaveIndex, ObjectTypes
  <2> QED BY Zenon, <1>3, <1>4, <1>5, <1>a, <2>1 DEF SaveIndex
<1>b. CASE StorePart(c)
  <2> DEFINE p == [part[t.id] EXCEPT ![t.no] = t.data]
  <2>1. p \in Parts
    BY Zenon, <1>0, <1>7 DEF ObjectTypes, Parts
  <2>2. [part EXCEPT ![t.id][t.no] = t.data] = [part EXCEPT ![t.id] = p]
    BY Zenon, <1>0, <1>7 DEF ObjectTypes
  <2> HIDE DEF p
  <2>3. part' \in {part, [part EXCEPT ![t.id] = p]}
    BY Zenon, <1>b, <2>2 DEF StorePart
  <2>4. ObjectTypes'
    BY Zenon, <1>0, <1>7, <1>b, <2>1, <2>3 DEF StorePart, ObjectTypes
  <2> QED BY Zenon, <1>3, <1>4, <1>5, <1>6, <1>b, <2>4 DEF StorePart
<1>c. CASE DropPart(c)
  <2>1. part' \in [Receipts -> Parts] /\ faults' \in 0..MaxFaults
    BY ZenonT(40), <1>0, <1>7, <1>c, Dropped DEF DropPart
  <2>2. ObjectTypes'
    BY Zenon, <1>7, <1>c, <2>1 DEF DropPart, ObjectTypes
  <2> QED BY Zenon, <1>3, <1>4, <1>c, <2>1, <2>2 DEF DropPart
<1>d. CASE Compose(c)
  <2>1. PICK b \in {"good", "bad"} : body' \in {body, [body EXCEPT ![t.id] = b]}
    <3>1. CASE PartBytes(t.id, t.rec) = {"good"}
      BY Zenon, <1>d, <3>1 DEF Compose
    <3>2. CASE PartBytes(t.id, t.rec) # {"good"}
      BY Zenon, <1>d, <3>2 DEF Compose
    <3> QED BY Zenon, <3>1, <3>2
  <2>2. ObjectTypes'
    BY Zenon, <1>0, <1>7, <1>d, <2>1 DEF Compose, ObjectTypes
  <2>3. TaskTypes' /\ Prepared'
    BY Zenon, <1>4, <1>6, <1>d DEF Compose
  <2>4. faults' \in 0..MaxFaults
    BY Zenon, <1>5, <1>d DEF Compose
  <2> QED BY Zenon, <1>3, <2>2, <2>3, <2>4
<1>e. CASE DropBody(c)
  <2>1. body' \in [Receipts -> {None, "good", "bad"}] /\ faults' \in 0..MaxFaults
    BY Zenon, <1>0, <1>7, <1>e, Dropped DEF DropBody
  <2>2. ObjectTypes'
    BY Zenon, <1>7, <1>e, <2>1 DEF DropBody, ObjectTypes
  <2> QED BY Zenon, <1>3, <1>4, <1>6, <1>e, <2>1, <2>2 DEF DropBody
<1>f. CASE DropParts(c)
  <2>1. part' \in [Receipts -> Parts] /\ faults' \in 0..MaxFaults
    BY Zenon, <1>0, <1>7, <1>f, Dropped DEF DropParts
  <2>2. ObjectTypes'
    BY Zenon, <1>7, <1>f, <2>1 DEF DropParts, ObjectTypes
  <2> DEFINE rec == [NoRecord EXCEPT !.state = "verified"]
             u == [t EXCEPT !.step = "saveVerified", !.rec = rec]
  <2>3. rec \in Record /\ Claimant(rec)
    BY Zenon, IdleTask DEF Record, States, Claimant
  <2>4. Becomes(c, u)
    <3>1. task \in [Controls -> [step : Steps, id : Receipts \union {None}, rec : Record,
                                 no : PartNos \union {0}, data : Bytes \union {None}]]
      BY Zenon DEF Types, TaskTypes, Task
    <3> QED BY Zenon, <1>f, <3>1 DEF DropParts, Becomes
  <2> HIDE DEF rec
  <2>5. u \in Task /\ u.id = t.id /\ u.rec = rec /\ u.step = "saveVerified"
    BY Zenon, <1>0, <2>3 DEF Task, Steps
  <2> HIDE DEF u
  <2>6. TaskTypes' /\ task'[c] = u
    BY Zenon, <1>0, <2>3, <2>4, <2>5, TaskMoves DEF Types
  <2>7. Prepared'
    <3>1. \A d \in Controls \ {c} : task'[d] = task[d]
      BY Zenon, <2>4 DEF Becomes, Types, TaskTypes
    <3> QED BY Zenon, <1>1, <2>5, <2>6, <3>1 DEF Types, Prepared
  <2> QED BY Zenon, <1>3, <2>1, <2>2, <2>6, <2>7
<1>g. CASE DropPayload(c)
  <2>1. body' \in [Receipts -> {None, "good", "bad"}] /\ faults' \in 0..MaxFaults
    BY Zenon, <1>0, <1>7, <1>g, Dropped DEF DropPayload
  <2>2. ObjectTypes'
    BY Zenon, <1>7, <1>g, <2>1 DEF DropPayload, ObjectTypes
  <2> QED BY Zenon, <1>3, <1>4, <1>6, <1>g, <2>1, <2>2 DEF DropPayload
<1>h. CASE DropPayloadParts(c)
  <2>1. part' \in [Receipts -> Parts] /\ faults' \in 0..MaxFaults
    BY Zenon, <1>0, <1>7, <1>h, Dropped DEF DropPayloadParts
  <2>2. ObjectTypes'
    BY Zenon, <1>7, <1>h, <2>1 DEF DropPayloadParts, ObjectTypes
  <2> QED BY Zenon, <1>3, <1>4, <1>6, <1>h, <2>1, <2>2 DEF DropPayloadParts
<1> QED BY Zenon, <1>a, <1>b, <1>c, <1>d, <1>e, <1>f, <1>g, <1>h

LEMMA StartStepTypes ==
    ASSUME Types, NEW c \in Controls, NEW i \in Receipts, UNCHANGED clients,
           \/ CreateNew(c, i) \/ Complete(c, i) \/ Cancel(c, i)
           \/ CleanupExpired(c, i) \/ CleanupLapsed(c, i)
    PROVE  Types'
<1>0. record[i] \in Record
  BY Zenon DEF Types, RecordTypes
<1>1. \A state \in States : [record[i] EXCEPT !.state = state] \in Record
      /\ [record[i] EXCEPT !.state = state].state = state
  BY Zenon, <1>0 DEF Record
<1>2. [record[i] EXCEPT !.state = "verified", !.by = None] \in Record
      /\ [record[i] EXCEPT !.state = "verified", !.by = None].state = "verified"
  BY Zenon, <1>0 DEF Record, States
<1>3. PICK rec \in Record, step \in Steps \ {"saveAssigned"} :
        rec.state # "assigned" /\ Takes(c, i, step, rec)
  <2>1. {"saveNew", "saveNewKeyed", "saveVerifying", "saveRejected", "dropPayload", "saveReleased"}
          \subseteq Steps \ {"saveAssigned"}
        /\ {"verifying", "rejected", "cancelled", "expired"} \subseteq States
    BY Zenon DEF Steps, States
  <2>2. CASE CreateNew(c, i)
    BY Zenon, <2>1, <2>2, IdleTask DEF CreateNew
  <2>3. CASE Complete(c, i)
    BY Zenon, <1>1, <2>1, <2>3 DEF Complete
  <2>4. CASE Cancel(c, i)
    BY Zenon, <1>1, <2>1, <2>4 DEF Cancel
  <2>5. CASE CleanupExpired(c, i)
    BY Zenon, <1>1, <2>1, <2>5 DEF CleanupExpired
  <2>6. CASE CleanupLapsed(c, i)
    BY Zenon, <1>2, <2>1, <2>6 DEF CleanupLapsed
  <2> QED BY Zenon, <2>2, <2>3, <2>4, <2>5, <2>6
<1>4. UNCHANGED <<record, objects, lapsed, aged, faults, crashes, request>>
  BY Zenon DEF CreateNew, Complete, Cancel, CleanupExpired, CleanupLapsed, objects
<1>5. RequestTypes' /\ \A r \in Requests : request[r].phase # "new" => request'[r].phase # "new"
  BY Zenon, <1>4 DEF Types, RequestTypes
<1> QED BY Zenon, <1>3, <1>4, <1>5, StartTypes DEF Claimant

LEMMA PutPartTypes ==
    ASSUME Types, NEW c \in Controls, NEW i \in Receipts, UNCHANGED clients,
           NEW n \in PartNos, NEW data \in Bytes, PutPart(c, i, n, data)
    PROVE  Types'
<1> DEFINE t == [step |-> "storePart", id |-> i, rec |-> record[i], no |-> n, data |-> data]
<1>1. record[i] \in Record /\ Claimant(record[i])
  BY Zenon DEF Types, RecordTypes
<1>2. t \in Task /\ t.id = i /\ t.rec = record[i] /\ t.step = "storePart"
  BY Zenon, <1>1 DEF Task, Steps
<1>3. Becomes(c, t)
  <2>1. ASSUME NEW rec
        PROVE  [Idle EXCEPT !.step = "storePart", !.id = i, !.rec = rec, !.no = n, !.data = data]
                 = [step |-> "storePart", id |-> i, rec |-> rec, no |-> n, data |-> data]
    <3> DEFINE e == [Idle EXCEPT !.step = "storePart", !.id = i, !.rec = rec, !.no = n, !.data = data]
    <3>1. e = [k \in {"step", "id", "rec", "no", "data"} |-> e[k]]
      BY Zenon DEF Idle
    <3>2. e.step = "storePart" /\ e.id = i /\ e.rec = rec /\ e.no = n /\ e.data = data
      BY Zenon DEF Idle
    <3> HIDE DEF e
    <3>3. e = [step |-> "storePart", id |-> i, rec |-> rec, no |-> n, data |-> data]
      BY Zenon, <3>1, <3>2
    <3> QED BY Zenon, <3>3 DEF e
  <2> QED BY Zenon, <2>1 DEF PutPart, Becomes
<1> HIDE DEF t
<1>4. TaskTypes' /\ task'[c] = t
  BY Zenon, <1>1, <1>2, <1>3, TaskMoves DEF Types
<1>5. \A d \in Controls \ {c} : task'[d] = task[d]
  BY Zenon, <1>3 DEF Becomes, Types, TaskTypes
<1>6. UNCHANGED <<record, objects, lapsed, aged, faults, crashes, request>>
  BY Zenon DEF PutPart, objects
<1>7. Prepared'
  BY Zenon, <1>2, <1>4, <1>5, <1>6 DEF Types, Prepared
<1>8. RecordTypes' /\ RequestTypes' /\ ObjectTypes' /\ ClockTypes'
  BY Zenon, <1>6 DEF Types, RecordTypes, RequestTypes, ObjectTypes, ClockTypes, objects
<1> QED BY Zenon, <1>4, <1>7, <1>8 DEF Types

\* What PrepareRequest does: the operation it begins and the request it makes.
LEMMA Preparing ==
    ASSUME Types, NEW c \in Controls, NEW i \in Receipts, NEW r \in Requests,
           PrepareRequest(c, i, r)
    PROVE  \E t \in Task :
             /\ t.step = "saveAssigned" /\ t.id = i
             /\ t.rec.state = "assigned" /\ t.rec.by = r
             /\ Becomes(c, t)
<1> DEFINE rec == [Released(record[i]) EXCEPT !.state = "assigned", !.by = r]
           t == [step |-> "saveAssigned", id |-> i, rec |-> rec, no |-> 0, data |-> None]
<1>1. record[i] \in Record
  BY Zenon DEF Types, RecordTypes
<1>2. Released(record[i]) \in Record
  BY Zenon, <1>1 DEF Released, Record, States
<1>3. rec \in Record /\ rec.state = "assigned" /\ rec.by = r
  BY Zenon, <1>2 DEF Record, States
<1>4. Becomes(c, t)
  BY Zenon, TaskForms DEF PrepareRequest, Types
<1> HIDE DEF rec
<1>5. t \in Task /\ t.id = i /\ t.rec = rec /\ t.step = "saveAssigned"
  BY Zenon, <1>3 DEF Task, Steps
<1> QED BY Zenon, <1>3, <1>4, <1>5

LEMMA PrepareTypes ==
    ASSUME Types, NEW c \in Controls, NEW i \in Receipts, NEW r \in Requests, UNCHANGED clients,
           PrepareRequest(c, i, r)
    PROVE  Types'
<1>1. PICK t \in Task :
             /\ t.step = "saveAssigned" /\ t.id = i
             /\ t.rec.state = "assigned" /\ t.rec.by = r
             /\ Becomes(c, t)
  BY Preparing
<1>2. TaskTypes' /\ task'[c] = t
  BY Zenon, <1>1, TaskMoves DEF Types, Claimant
<1>3. \A d \in Controls \ {c} : task'[d] = task[d]
  BY Zenon, <1>1 DEF Becomes, Types, TaskTypes
<1>4. UNCHANGED <<record, objects, lapsed, aged, faults, crashes>>
      /\ request' = [request EXCEPT ![r] = [phase |-> "preparing", at |-> c, id |-> i]]
  BY Zenon DEF PrepareRequest, objects
<1>5. RequestTypes'
  BY Zenon, <1>4 DEF Types, RequestTypes
<1>6. request'[r].phase = "preparing" /\ \A q \in Requests \ {r} : request'[q] = request[q]
  BY Zenon, <1>4 DEF Types, RequestTypes
<1>7. Prepared'
  <2>1. \A d \in Controls : task[d].step = "saveAssigned" => task[d].rec.by \in Requests
    BY Zenon DEF Types, Prepared, TaskTypes, Claimant
  <2> QED BY <1>1, <1>2, <1>3, <1>6, <2>1 DEF Types, Prepared
<1>8. RecordTypes' /\ ObjectTypes' /\ ClockTypes'
  BY Zenon, <1>4 DEF Types, RecordTypes, ObjectTypes, ClockTypes, objects
<1> QED BY Zenon, <1>2, <1>5, <1>7, <1>8 DEF Types

LEMMA FinishTypes ==
    ASSUME Types, NEW r \in Requests, UNCHANGED clients, FinishRequest(r)
    PROVE  Types'
<1> DEFINE c == request[r].at
           i == request[r].id
<1>0. c \in Controls /\ i \in Receipts
  BY Zenon DEF FinishRequest, Types, RequestTypes
<1>1. UNCHANGED <<record, objects, lapsed, aged, faults, crashes>>
      /\ request' = [request EXCEPT ![r].phase = "over"]
  BY Zenon DEF FinishRequest, objects
<1>2. RequestTypes' /\ \A q \in Requests : request[q].phase # "new" => request'[q].phase # "new"
  BY <1>1 DEF Types, RequestTypes, FinishRequest
<1>3. CASE UNCHANGED task
  BY Zenon, <1>1, <1>2, <1>3 DEF Types, RecordTypes, TaskTypes, Prepared, ObjectTypes, ClockTypes, objects, Claimant
<1>4. CASE task' # task
  <2>1. PICK state \in {"consumed", "verified"} :
          Takes(c, i, "saveFinished", [record[i] EXCEPT !.state = state, !.by = None])
    BY Zenon, <1>4 DEF FinishRequest
  <2> DEFINE rec == [record[i] EXCEPT !.state = state, !.by = None]
  <2>2. rec \in Record /\ rec.state = state
    BY Zenon, <1>0 DEF Types, RecordTypes, Record, States
  <2>3. "saveFinished" \in Steps \ {"saveAssigned"}
    BY Zenon DEF Steps
  <2> HIDE DEF rec
  <2>4. Claimant(rec)
    BY Zenon, <2>2 DEF Claimant
  <2>5. Takes(c, i, "saveFinished", rec)
    BY Zenon, <2>1 DEF rec
  <2> HIDE DEF c, i
  <2> QED BY Zenon, <1>0, <1>1, <1>2, <2>2, <2>3, <2>4, <2>5, StartTypes
<1> QED BY Zenon, <1>3, <1>4

LEMMA CrashTypes ==
    ASSUME Types, NEW c \in Controls, UNCHANGED clients, Crash(c)
    PROVE  Types'
<1>1. UNCHANGED <<record, objects, lapsed, aged, faults>> /\ crashes' \in 0..MaxCrashes
  BY BoundsAssumption DEF Crash, objects, Types, ClockTypes
<1>2. RequestTypes' /\ \A q \in Requests : request[q].phase # "new" => request'[q].phase # "new"
  BY NoneAssumption DEF Types, RequestTypes, Crash
<1>3. TaskTypes' /\ Prepared'
  BY Zenon, <1>2, TaskKept DEF Crash, Types
<1>4. RecordTypes' /\ ObjectTypes' /\ ClockTypes'
  BY Zenon, <1>1 DEF Types, RecordTypes, ObjectTypes, ClockTypes, objects
<1> QED BY Zenon, <1>2, <1>3, <1>4 DEF Types

\* The steps that leave every operation and every request as it is.
LEMMA ObservedTypes ==
    ASSUME Types, UNCHANGED clients,
           \/ \E c \in Controls : CreateFound(c) \/ \E r \in Requests : OpenAssigned(c, r)
           \/ \E r \in Requests : LeaseEnds(r)
           \/ \E i \in Receipts : RetentionEnds(i)
    PROVE  Types'
<1>1. UNCHANGED <<record, task, request, part, body, index, faults, crashes>>
  BY Zenon DEF CreateFound, OpenAssigned, LeaseEnds, RetentionEnds
<1>2. ObjectTypes'
  <2>1. CASE \E c \in Controls : CreateFound(c)
    BY Zenon, <1>1, <2>1 DEF CreateFound, Types, ObjectTypes
  <2>2. CASE \E c \in Controls, r \in Requests : OpenAssigned(c, r)
    <3>1. PICK c \in Controls, r \in Requests : OpenAssigned(c, r)
      BY Zenon, <2>2
    <3>2. request[r].id \in Receipts
      BY Zenon, <3>1 DEF OpenAssigned, Types, RequestTypes
    <3> QED BY Zenon, <1>1, <3>1, <3>2 DEF OpenAssigned, Types, ObjectTypes
  <2>3. CASE UNCHANGED <<delivered, answered>>
    BY Zenon, <1>1, <2>3 DEF Types, ObjectTypes
  <2> QED BY Zenon, <2>1, <2>2, <2>3 DEF LeaseEnds, RetentionEnds
<1>3. ClockTypes'
  BY Zenon, <1>1 DEF Types, ClockTypes, CreateFound, OpenAssigned, LeaseEnds, RetentionEnds
<1>4. RecordTypes' /\ TaskTypes' /\ RequestTypes' /\ Prepared'
  BY Zenon, <1>1 DEF Types, RecordTypes, TaskTypes, RequestTypes, Prepared, Claimant
<1> QED BY Zenon, <1>2, <1>3, <1>4 DEF Types

LEMMA InitTypes == Init => Types
<1> SUFFICES ASSUME Init PROVE Types
  BY Zenon
<1>1. RecordTypes /\ TaskTypes /\ Prepared
  BY Zenon, IdleTask DEF Init, RecordTypes, TaskTypes, Prepared, Claimant
<1>2. RequestTypes
  BY Zenon DEF Init, RequestTypes, NewRequest
<1>3. ObjectTypes /\ ClockTypes
  BY IdleTask, BoundsAssumption DEF Init, ObjectTypes, ClockTypes
<1> QED BY Zenon, <1>1, <1>2, <1>3 DEF Init, Types

LEMMA NextTypes == Types /\ [Next]_vars => Types'
<1> SUFFICES ASSUME Types, [Next]_vars PROVE Types'
  BY Zenon
<1>1. CASE UNCHANGED vars
  BY Zenon, <1>1 DEF vars, Types, RecordTypes, TaskTypes, RequestTypes, Prepared, ObjectTypes, ClockTypes,
     Claimant
<1>2. CASE Next
  <2>1. UNCHANGED clients
    BY Zenon, <1>2 DEF Next
  <2>2. ASSUME NEW c \in Controls, Step(c) PROVE Types'
    BY Zenon, <2>1, <2>2, SaveStepTypes, OtherStepTypes DEF Step
  <2>3. ASSUME NEW c \in Controls, NEW i \in clients.receipts, Client(c, i) PROVE Types'
    BY Zenon, <2>1, <2>3, Population, StartStepTypes, PutPartTypes, PrepareTypes DEF Client
  <2>4. ASSUME NEW c \in Controls, NEW i \in Receipts, CleanupExpired(c, i) \/ CleanupLapsed(c, i)
        PROVE  Types'
    BY Zenon, <2>1, <2>4, StartStepTypes
  <2> QED BY Zenon, <1>2, <2>1, <2>2, <2>3, <2>4, FinishTypes, CrashTypes, ObservedTypes DEF Next
<1> QED BY Zenon, <1>1, <1>2

\* Type correctness, of any number of Controls: no operation loses track of the receipt
\* it works on, and a record that says "assigned" always says to which request.
THEOREM TypeCorrect == Spec => []TypeOK
<1>1. Types => TypeOK
  BY Zenon DEF Types, RecordTypes, TaskTypes, RequestTypes, ObjectTypes, ClockTypes, Claimant, TypeOK
<1> QED BY <1>1, InitTypes, NextTypes, PTL DEF Spec

-----------------------------------------------------------------------------
(* The promises, of one Control.                                           *)

LEMMA Alone ==
    ASSUME OneControl, NEW c \in Controls, NEW d \in Controls
    PROVE  c = d
BY DEF OneControl

\* A Control's operation takes its next call, or begins, and no record changes.
LEMMA Works ==
    ASSUME IInv, OneControl, NEW c \in Controls, NEW t, Becomes(c, t), Expected(t)',
           UNCHANGED <<record, request, index, delivered, answered, lapsed>>, Verified',
           t.step \in {"saveNewKeyed", "saveIndex"} => answered = {}
    PROVE  Promises'
<1>1. \A d \in Controls : task'[d] = t
  BY Zenon, Alone DEF IInv, Types, TaskTypes, Becomes
<1>2. Copies'
  <2> SUFFICES ASSUME NEW d \in Controls PROVE Expected(task[d])'
    BY Zenon DEF Copies
  <2>1. task'[d] = t
    BY Zenon, <1>1
  <2> QED BY Zenon, <2>1 DEF Expected
<1>3. DeliveredIsDeclared'
  BY Zenon DEF IInv, Promises, DeliveredIsDeclared
<1>4. Keyed'
  BY Zenon, <1>1 DEF IInv, Promises, Keyed
<1> QED BY Zenon, <1>2, <1>3, <1>4 DEF Promises

\* The beginning of an operation: it has just seen what it expects.
LEMMA Begins ==
    ASSUME IInv, OneControl, NEW c \in Controls, NEW t, Becomes(c, t), Expected(t),
           UNCHANGED <<record, request, body, index, delivered, answered, lapsed, aged>>,
           t.step \in {"saveNewKeyed", "saveIndex"} => answered = {}
    PROVE  Promises'
<1>1. Expected(t)'
  BY Zenon DEF Expected
<1>2. Verified'
  BY Zenon DEF IInv, Promises, Verified
<1> QED BY Zenon, <1>1, <1>2, Works

LEMMA Starts ==
    ASSUME IInv, OneControl, NEW c \in Controls, NEW i \in Receipts,
           \/ CreateNew(c, i) \/ Complete(c, i) \/ Cancel(c, i)
           \/ CleanupExpired(c, i) \/ CleanupLapsed(c, i)
    PROVE  Promises'
<1>0. record[i] \in Record /\ TaskTypes
  BY Zenon DEF IInv, Types, RecordTypes
<1>1. \A state \in States : [record[i] EXCEPT !.state = state].state = state
  BY Zenon, <1>0 DEF Record
<1>2. [record[i] EXCEPT !.state = "verified", !.by = None].state = "verified"
  BY Zenon, <1>0 DEF Record
<1>3. UNCHANGED <<record, request, body, index, delivered, answered, lapsed, aged>>
  BY Zenon DEF CreateNew, Complete, Cancel, CleanupExpired, CleanupLapsed
<1>4. \A step, rec : Takes(c, i, step, rec) =>
        Becomes(c, [step |-> step, id |-> i, rec |-> rec, no |-> 0, data |-> None])
  BY Zenon, <1>0, TaskForms
<1>5. ASSUME NEW step, NEW rec, Takes(c, i, step, rec),
             Expected([step |-> step, id |-> i, rec |-> rec, no |-> 0, data |-> None]),
             step \in {"saveNewKeyed", "saveIndex"} => answered = {}
      PROVE  Promises'
  BY Zenon, <1>3, <1>4, <1>5, Begins
<1>a. CASE CreateNew(c, i)
  <2>1. PICK step \in {"saveNew", "saveNewKeyed"} : Takes(c, i, step, NewRecord)
          /\ (step = "saveNewKeyed" => index \notin {j \in Receipts : Exists(j)})
    BY Zenon, <1>a DEF CreateNew
  <2>2. step = "saveNewKeyed" => answered = {}
    BY Zenon, <2>1 DEF IInv, Types, ObjectTypes, Promises, Keyed, Exists
  <2>3. record[i].state = "absent"
    BY Zenon, <1>a DEF CreateNew, Exists
  <2>4. Expected([step |-> step, id |-> i, rec |-> NewRecord, no |-> 0, data |-> None])
    BY Zenon, <2>3 DEF Expected
  <2> QED BY Zenon, <1>5, <2>1, <2>2, <2>4
<1>b. CASE Complete(c, i)
  <2>1. PICK step, state : /\ <<step, state>> \in {<<"saveVerifying", "verifying">>, <<"saveRejected", "rejected">>}
                           /\ Takes(c, i, step, [record[i] EXCEPT !.state = state])
    BY <1>b DEF Complete
  <2> DEFINE rec == [record[i] EXCEPT !.state = state]
  <2>2. rec.state = state
    BY Zenon, <1>1, <2>1 DEF States
  <2>3. record[i].state \in {"uploading", "verifying"}
    BY Zenon, <1>b DEF Complete, Completable
  <2> HIDE DEF rec
  <2>4. Expected([step |-> step, id |-> i, rec |-> rec, no |-> 0, data |-> None])
    BY Zenon, <2>1, <2>2, <2>3 DEF Expected
  <2> QED BY Zenon, <1>5, <2>1, <2>4 DEF rec
<1>c. CASE Cancel(c, i) \/ CleanupExpired(c, i)
  <2>1. PICK state \in {"cancelled", "expired"} :
            /\ Takes(c, i, "dropPayload", [record[i] EXCEPT !.state = state])
            /\ state = "cancelled" => record[i].state \notin {"absent", "assigned", "consumed"}
            /\ state = "expired" => record[i].state \notin {"absent", "expired"} /\ i \in aged
    BY Zenon, <1>c DEF Cancel, CleanupExpired
  <2> DEFINE rec == [record[i] EXCEPT !.state = state]
  <2>2. rec.state = state
    BY Zenon, <1>1 DEF States
  <2> HIDE DEF rec
  <2>3. Expected([step |-> "dropPayload", id |-> i, rec |-> rec, no |-> 0, data |-> None])
    BY Zenon, <2>1, <2>2 DEF Expected
  <2> QED BY <1>5, <2>1, <2>3 DEF rec
<1>d. CASE CleanupLapsed(c, i)
  <2> DEFINE rec == [record[i] EXCEPT !.state = "verified", !.by = None]
  <2>1. Takes(c, i, "saveReleased", rec) /\ record[i].state = "assigned" /\ record[i].by \in lapsed
    BY Zenon, <1>d DEF CleanupLapsed
  <2>2. rec.state = "verified"
    BY Zenon, <1>2
  <2> HIDE DEF rec
  <2>3. Expected([step |-> "saveReleased", id |-> i, rec |-> rec, no |-> 0, data |-> None])
    BY Zenon, <2>1, <2>2 DEF Expected
  <2> QED BY Zenon, <1>5, <2>1, <2>3
<1> QED BY Zenon, <1>a, <1>b, <1>c, <1>d

LEMMA PutsPart ==
    ASSUME IInv, OneControl, NEW c \in Controls, NEW i \in Receipts,
           NEW n \in PartNos, NEW data \in Bytes, PutPart(c, i, n, data)
    PROVE  Promises'
<1> DEFINE t == [Idle EXCEPT !.step = "storePart", !.id = i,
                             !.rec = record[i], !.no = n, !.data = data]
<1>1. t.step = "storePart" /\ t.id = i /\ t.rec = record[i]
  BY Zenon DEF Idle
<1>2. Becomes(c, t)
  BY Zenon DEF PutPart, Becomes
<1> HIDE DEF t
<1>3. UNCHANGED <<record, request, body, index, delivered, answered, lapsed, aged>>
      /\ record[i].state = "uploading"
  BY Zenon DEF PutPart
<1>4. Expected(t)
  BY Zenon, <1>1, <1>3 DEF Expected
<1> QED BY Zenon, <1>1, <1>2, <1>3, <1>4, Begins

\* What an operation is after a step: the same, but for its next call and its record's state.
LEMMA Moves ==
    ASSUME TaskTypes, NEW c \in Controls, NEW step, NEW state
    PROVE  /\ Then(c, step) =>
                \E u : Becomes(c, u) /\ u.step = step /\ u.id = task[c].id /\ u.rec = task[c].rec
           /\ ThenWith(c, step, state) =>
                \E u : Becomes(c, u) /\ u.step = step /\ u.id = task[c].id /\ u.rec.state = state
<1> DEFINE t == task[c]
           r == [t.rec EXCEPT !.state = state]
           v == [t EXCEPT !.step = step, !.rec = r]
           u == [t EXCEPT !.step = step]
<1>0. t \in [step : Steps, id : Receipts \union {None}, rec : Record,
             no : PartNos \union {0}, data : Bytes \union {None}]
      /\ t.rec \in [state : States, parts : Parts, by : Requests \union {None}]
  BY Zenon DEF TaskTypes, Task, Record
<1>1. (Then(c, step) => Becomes(c, u)) /\ (ThenWith(c, step, state) => Becomes(c, v))
  BY Zenon, TaskForms
<1>2. u.step = step /\ u.id = t.id /\ u.rec = t.rec
  BY Zenon, <1>0
<1>3. r.state = state
  BY Zenon, <1>0
<1> HIDE DEF r
<1>4. v.step = step /\ v.id = t.id /\ v.rec = r
  BY Zenon, <1>0
<1> HIDE DEF u, v
<1> QED BY Zenon, <1>1, <1>2, <1>3, <1>4

LEMMA GoesOn ==
    ASSUME TaskTypes, NEW c \in Controls, NEW step, Then(c, step)
    PROVE  \E u : Becomes(c, u) /\ u.step = step /\ u.id = task[c].id /\ u.rec = task[c].rec
BY Moves

LEMMA GoesOnWith ==
    ASSUME TaskTypes, NEW c \in Controls, NEW step, NEW state, ThenWith(c, step, state)
    PROVE  \E u : Becomes(c, u) /\ u.step = step /\ u.id = task[c].id /\ u.rec.state = state
BY Moves

\* The calls that touch no record.
LEMMA Deletes ==
    ASSUME IInv, OneControl, NEW c \in Controls,
           \/ StorePart(c) \/ DropPart(c) \/ DropBody(c) \/ DropParts(c)
           \/ DropPayload(c) \/ DropPayloadParts(c)
    PROVE  Promises'
<1> DEFINE t == task[c]
           i == t.id
<1>0. t \in Task /\ t.rec \in Record /\ i \in Receipts /\ TaskTypes /\ ObjectTypes /\ ClockTypes
      /\ Expected(t) /\ Verified
  BY Zenon DEF IInv, Promises, Copies, Types, TaskTypes, Task, At, StorePart, DropPart, DropBody, DropParts,
     DropPayload, DropPayloadParts
<1>1. UNCHANGED <<record, request, index, delivered, answered, lapsed, aged>>
  BY Zenon DEF StorePart, DropPart, DropBody, DropParts, DropPayload, DropPayloadParts
<1>2. \A j \in Receipts : body'[j] \in {body[j], None}
  BY Zenon, <1>0, Dropped DEF StorePart, DropPart, DropBody, DropParts, DropPayload, DropPayloadParts,
     ObjectTypes
<1>3. Verified'
  BY Zenon, <1>0, <1>1, <1>2 DEF Verified
<1>4. ASSUME NEW u, Becomes(c, u), Expected(u)', u.step \notin {"saveNewKeyed", "saveIndex"}
      PROVE  Promises'
  BY Zenon, <1>1, <1>3, <1>4, Works
<1>5. \A step : Then(c, step) => \E u : Becomes(c, u) /\ u.step = step /\ u.id = i /\ u.rec = t.rec
  BY Zenon, <1>0, GoesOn
<1>6. \A step, state : ThenWith(c, step, state) =>
        \E u : Becomes(c, u) /\ u.step = step /\ u.id = i /\ u.rec.state = state
  BY Zenon, <1>0, GoesOnWith
<1>7. Returns(c) => Promises'
  BY Zenon, <1>0, <1>4, TaskForms, IdleTask DEF Expected
<1> HIDE DEF t, i
<1>a. CASE StorePart(c) \/ DropPart(c)
  <2>1. ASSUME NEW step \in {"savePart", "dropPart"}, Then(c, step), t.step = "storePart"
        PROVE  Promises'
    <3>1. PICK u : Becomes(c, u) /\ u.step = step /\ u.id = i /\ u.rec = t.rec
      BY Zenon, <1>5, <2>1
    <3>2. Expected(u)'
      BY Zenon, <1>0, <1>1, <2>1, <3>1 DEF Expected, i
    <3> QED BY Zenon, <1>4, <3>1, <3>2
  <2> QED BY Zenon, <1>7, <1>a, <2>1 DEF StorePart, DropPart, At, t
<1>b. CASE DropBody(c)
  <2>1. PICK u : Becomes(c, u) /\ u.step = "saveRejected" /\ u.id = i /\ u.rec.state = "rejected"
    BY <1>6, <1>b DEF DropBody
  <2>2. t.step = "dropBody"
    BY Zenon, <1>b DEF DropBody, At, t
  <2>3. Expected(u)'
    BY Zenon, <1>0, <1>1, <2>1, <2>2 DEF Expected, i
  <2> QED BY Zenon, <1>4, <2>1, <2>3
<1>c. CASE DropParts(c)
  <2>1. PICK u : Becomes(c, u) /\ u.step = "saveVerified" /\ u.id = i /\ u.rec.state = "verified"
    <3>1. task \in [Controls -> [step : Steps, id : Receipts \union {None}, rec : Record,
                                 no : PartNos \union {0}, data : Bytes \union {None}]]
      BY Zenon, <1>0 DEF TaskTypes, Task
    <3> DEFINE rec == [NoRecord EXCEPT !.state = "verified"]
    <3>2. rec.state = "verified"
      BY Zenon DEF NoRecord
    <3>3. task' = [task EXCEPT ![c].step = "saveVerified", ![c].rec = rec]
      BY Zenon, <1>c DEF DropParts
    <3> HIDE DEF rec
    <3>4. Becomes(c, [t EXCEPT !.step = "saveVerified", !.rec = rec])
      BY Zenon, <3>1, <3>3 DEF Becomes, t
    <3>5. [t EXCEPT !.step = "saveVerified", !.rec = rec].step = "saveVerified"
          /\ [t EXCEPT !.step = "saveVerified", !.rec = rec].id = i
          /\ [t EXCEPT !.step = "saveVerified", !.rec = rec].rec = rec
      BY Zenon, <1>0 DEF Task, i
    <3> QED BY Zenon, <3>2, <3>4, <3>5
  <2>2. t.step = "dropParts" /\ body' = body
    BY Zenon, <1>c DEF DropParts, At, t
  <2>3. Expected(u)'
    BY Zenon, <1>0, <1>1, <2>1, <2>2 DEF Expected, i
  <2> QED BY Zenon, <1>4, <2>1, <2>3
<1>d. CASE DropPayload(c) \/ DropPayloadParts(c)
  <2>1. PICK step \in {"dropPayloadParts", "saveEnded"} :
          Then(c, step) /\ t.step \in {"dropPayload", "dropPayloadParts"}
    BY Zenon, <1>d DEF DropPayload, DropPayloadParts, At, t
  <2>2. PICK u : Becomes(c, u) /\ u.step = step /\ u.id = i /\ u.rec = t.rec
    BY Zenon, <1>5, <2>1
  <2>3. Expected(u)'
    BY Zenon, <1>0, <1>1, <2>1, <2>2 DEF Expected, i
  <2> QED BY Zenon, <1>4, <2>2, <2>3
<1> QED BY Zenon, <1>a, <1>b, <1>c, <1>d

LEMMA Composes ==
    ASSUME IInv, OneControl, NEW c \in Controls, Compose(c)
    PROVE  Promises'
<1> DEFINE t == task[c]
           i == t.id
           good == PartBytes(i, t.rec) = {"good"}
           composed == [body EXCEPT ![i] = IF good THEN "good" ELSE "bad"]
<1>0. i \in Receipts /\ TaskTypes /\ ObjectTypes /\ Expected(t) /\ Verified /\ t.step = "compose"
  BY Zenon DEF IInv, Promises, Copies, Types, TaskTypes, At, Compose
<1>1. UNCHANGED <<record, request, index, delivered, answered, lapsed>>
  BY Zenon DEF Compose
<1>2. record[i].state = "verifying"
  BY Zenon, <1>0 DEF Expected
<1>3. composed \in [Receipts -> {None, "good", "bad"}] /\ (good => composed[i] = "good")
      /\ \A j \in Receipts \ {i} : composed[j] = body[j]
  BY Zenon, <1>0 DEF ObjectTypes
<1>4. \/ good /\ body' = composed /\ Then(c, "dropParts")
      \/ body' = composed /\ Then(c, "dropBody")
      \/ body' \in {body, composed} /\ ThenWith(c, "saveUploading", "uploading")
  BY Zenon DEF Compose
<1>m. \A step : Then(c, step) => \E u : Becomes(c, u) /\ u.step = step /\ u.id = i /\ u.rec = t.rec
  BY Zenon, <1>0, GoesOn
<1>n. \A step, state : ThenWith(c, step, state) =>
        \E u : Becomes(c, u) /\ u.step = step /\ u.id = i /\ u.rec.state = state
  BY Zenon, <1>0, GoesOnWith
<1> HIDE DEF composed, good, i, t
<1>5. Verified'
  BY Zenon, <1>0, <1>1, <1>2, <1>3, <1>4 DEF Verified
<1>6. PICK u : /\ Becomes(c, u) /\ u.id = i
               /\ \/ u.step = "dropParts" /\ body'[i] = "good"
                  \/ u.step = "dropBody"
                  \/ u.step = "saveUploading" /\ u.rec.state = "uploading"
  <2>1. CASE good /\ body' = composed /\ Then(c, "dropParts")
    <3>1. PICK u : Becomes(c, u) /\ u.step = "dropParts" /\ u.id = i /\ u.rec = t.rec
      BY Zenon, <1>m, <2>1
    <3> QED BY Zenon, <1>3, <2>1, <3>1
  <2>2. CASE body' = composed /\ Then(c, "dropBody")
    <3>1. PICK u : Becomes(c, u) /\ u.step = "dropBody" /\ u.id = i /\ u.rec = t.rec
      BY Zenon, <1>m, <2>2
    <3> QED BY Zenon, <3>1
  <2>3. CASE ThenWith(c, "saveUploading", "uploading")
    <3>1. PICK u : Becomes(c, u) /\ u.step = "saveUploading" /\ u.id = i /\ u.rec.state = "uploading"
      BY <1>n, <2>3
    <3> QED BY Zenon, <3>1
  <2> QED BY Zenon, <1>4, <2>1, <2>2, <2>3
<1>7. Expected(u)'
  BY Zenon, <1>1, <1>2, <1>6 DEF Expected
<1> QED BY Zenon, <1>1, <1>5, <1>6, <1>7, Works

\* A record is saved, or not: the promises that are not about the operation.
LEMMA RecordKeeps ==
    ASSUME IInv, NEW i \in Receipts, NEW rec,
           record' = record \/ record' = [record EXCEPT ![i] = rec],
           UNCHANGED <<body, index, delivered, answered>>,
           rec.state # "absent",
           rec.state \in {"verified", "assigned", "consumed"} => body[i] \in {None, "good"}
    PROVE  /\ Verified' /\ DeliveredIsDeclared'
           /\ answered' \subseteq {index'}
           /\ answered' # {} => record'[index'].state # "absent"
<1>0. record \in [Receipts -> Record] /\ ObjectTypes
  BY Zenon DEF IInv, Types, RecordTypes
<1>1. \A j \in Receipts : record'[j] = record[j] \/ (j = i /\ record'[j] = rec)
  BY Zenon, <1>0
<1>2. Verified'
  BY Zenon, <1>1 DEF IInv, Promises, Verified
<1>3. DeliveredIsDeclared'
  BY Zenon DEF IInv, Promises, DeliveredIsDeclared
<1>4. answered' \subseteq {index'} /\ (answered' # {} => record'[index'].state # "absent")
  BY Zenon, <1>0, <1>1 DEF IInv, Promises, Keyed, ObjectTypes
<1> QED BY Zenon, <1>2, <1>3, <1>4

\* A save by an operation, after which it makes its next call or returns.
LEMMA SaveKeeps ==
    ASSUME IInv, OneControl, NEW c \in Controls, NEW i \in Receipts, NEW rec, NEW t,
           record' = record \/ record' = [record EXCEPT ![i] = rec],
           UNCHANGED <<body, index, delivered, answered, request, lapsed>>,
           rec.state # "absent",
           rec.state \in {"verified", "assigned", "consumed"} => body[i] \in {None, "good"},
           Becomes(c, t), Expected(t)', t.step = "saveIndex" => answered = {},
           t.step # "saveNewKeyed"
    PROVE  Promises'
<1>2. /\ Verified' /\ DeliveredIsDeclared'
      /\ answered' \subseteq {index'}
      /\ answered' # {} => record'[index'].state # "absent"
  BY Zenon, RecordKeeps
<1>3. \A d \in Controls : task'[d] = t
  BY Zenon, Alone DEF IInv, Types, TaskTypes, Becomes
<1>4. Copies'
  <2> SUFFICES ASSUME NEW d \in Controls PROVE Expected(task[d])'
    BY Zenon DEF Copies
  <2>1. task'[d] = t
    BY Zenon, <1>3
  <2> QED BY Zenon, <2>1 DEF Expected
<1>5. Keyed'
  BY Zenon, <1>2, <1>3 DEF Keyed
<1> QED BY Zenon, <1>2, <1>4, <1>5 DEF Promises

LEMMA Saving ==
    ASSUME IInv, OneControl, NEW c \in Controls,
           \/ SaveNew(c) \/ SavePart(c) \/ SaveVerifying(c) \/ SaveEndOfComplete(c)
           \/ SaveVerified(c) \/ SaveEnd(c)
    PROVE  Promises'
<1> DEFINE t == task[c]
           i == t.id
<1>0. i \in Receipts /\ t \in Task /\ t.rec \in Record /\ TaskTypes /\ Expected(t) /\ Verified
      /\ record \in [Receipts -> Record]
  BY Zenon DEF IInv, Promises, Copies, Types, TaskTypes, RecordTypes, Task, At, SaveNew, SavePart,
     SaveVerifying, SaveEndOfComplete, SaveVerified, SaveEnd
<1>1. UNCHANGED <<body, index, delivered, answered, request, lapsed>>
  BY Zenon DEF SaveNew, SavePart, SaveVerifying, SaveEndOfComplete, SaveVerified, SaveEnd
<1>2. \A rec : Saves(i, rec) \/ SaveFails(i, rec) =>
        record' = record \/ record' = [record EXCEPT ![i] = rec]
  BY Zenon DEF Saves, SaveFails
<1>3. Returns(c) => Becomes(c, Idle) /\ Idle.step = "idle" /\ Expected(Idle)'
  BY Zenon, <1>0, TaskForms, IdleTask DEF Expected
<1>4. \A step : Then(c, step) => \E u : Becomes(c, u) /\ u.step = step /\ u.id = i /\ u.rec = t.rec
  BY Zenon, <1>0, GoesOn
<1> HIDE DEF t, i
<1>a. CASE SaveNew(c)
  <2>1. t.step \in {"saveNew", "saveNewKeyed"} /\ (Saves(i, NewRecord) \/ SaveFails(i, NewRecord))
    BY Zenon, <1>a DEF SaveNew, At, t, i
  <2>2. record[i].state = "absent" /\ (t.step = "saveNewKeyed" => answered = {})
    BY Zenon, <1>0, <2>1 DEF Expected, IInv, Promises, Keyed, t, i
  <2>4. CASE Returns(c)
    BY ZenonT(40), <1>0, <1>1, <1>2, <1>3, <2>1, <2>4, IdleTask, SaveKeeps
  <2>5. CASE ~Returns(c)
    <3>1. Saves(i, NewRecord) /\ Then(c, "saveIndex") /\ t.step = "saveNewKeyed"
      BY Zenon, <1>a, <2>5 DEF SaveNew, At, t, i
    <3>2. PICK u : Becomes(c, u) /\ u.step = "saveIndex" /\ u.id = i /\ u.rec = t.rec
      BY Zenon, <1>4, <3>1
    <3>3. record'[i].state = "uploading"
      BY Zenon, <1>0, <3>1, IdleTask DEF Saves
    <3>4. Expected(u)'
      BY Zenon, <3>2, <3>3 DEF Expected
    <3> QED BY Zenon, <1>0, <1>1, <1>2, <2>1, <2>2, <3>1, <3>2, <3>4, IdleTask, SaveKeeps
  <2> QED BY Zenon, <2>4, <2>5
<1>b. CASE SavePart(c)
  <2> DEFINE rec == [t.rec EXCEPT !.parts[t.no] = t.data]
  <2>1. t.step = "savePart" /\ Returns(c) /\ (Saves(i, rec) \/ SaveFails(i, rec))
    BY Zenon, <1>b DEF SavePart, At, t, i
  <2>2. record[i].state = "uploading" /\ t.rec.state = "uploading"
    BY Zenon, <1>0, <2>1 DEF Expected, i
  <2>3. rec.state = "uploading"
    BY Zenon, <1>0, <2>2 DEF Record
  <2> HIDE DEF rec
  <2> QED BY Zenon, <1>0, <1>1, <1>2, <1>3, <2>1, <2>3, SaveKeeps
<1>c. CASE SaveVerifying(c)
  <2>1. t.step = "saveVerifying" /\ (Saves(i, t.rec) \/ SaveFails(i, t.rec))
    BY Zenon, <1>c DEF SaveVerifying, At, t, i
  <2>2. record[i].state \in {"uploading", "verifying"} /\ t.rec.state = "verifying"
    BY Zenon, <1>0, <2>1 DEF Expected, i
  <2>4. CASE Returns(c)
    BY Zenon, <1>0, <1>1, <1>2, <1>3, <2>1, <2>2, <2>4, SaveKeeps
  <2>5. CASE ~Returns(c)
    <3>1. Saves(i, t.rec) /\ Then(c, "compose")
      BY Zenon, <1>c, <2>5 DEF SaveVerifying, At, t, i
    <3>2. PICK u : Becomes(c, u) /\ u.step = "compose" /\ u.id = i /\ u.rec = t.rec
      BY Zenon, <1>4, <3>1
    <3>3. record'[i].state = "verifying"
      BY Zenon, <1>0, <2>2, <3>1 DEF Saves
    <3>4. Expected(u)'
      BY Zenon, <3>2, <3>3 DEF Expected
    <3> QED BY Zenon, <1>0, <1>1, <1>2, <2>1, <2>2, <3>1, <3>2, <3>4, SaveKeeps
  <2> QED BY Zenon, <2>4, <2>5
<1>d. CASE SaveEndOfComplete(c)
  <2>1. t.step \in {"saveUploading", "saveRejected"} /\ Returns(c)
        /\ (Saves(i, t.rec) \/ SaveFails(i, t.rec))
    BY Zenon, <1>d DEF SaveEndOfComplete, At, t, i
  <2>2. record[i].state \in {"uploading", "verifying"} /\ t.rec.state \in {"uploading", "rejected"}
    BY Zenon, <1>0, <2>1 DEF Expected, i
  <2> QED BY ZenonT(40), <1>0, <1>1, <1>2, <1>3, <2>1, <2>2, SaveKeeps
<1>e. CASE SaveVerified(c)
  <2>1. t.step = "saveVerified" /\ Returns(c) /\ (Saves(i, t.rec) \/ SaveFails(i, t.rec))
    BY Zenon, <1>e DEF SaveVerified, At, t, i
  <2>2. record[i].state = "verifying" /\ t.rec.state = "verified" /\ body[i] = "good"
    BY Zenon, <1>0, <2>1 DEF Expected, i
  <2> QED BY ZenonT(40), <1>0, <1>1, <1>2, <1>3, <2>1, <2>2, SaveKeeps
<1>f. CASE SaveEnd(c)
  <2>1. t.step \in {"saveEnded", "saveReleased", "saveFinished"} /\ Returns(c)
        /\ (Saves(i, t.rec) \/ SaveFails(i, t.rec))
    BY Zenon, <1>f DEF SaveEnd, At, t, i
  <2>2. CASE t.step = "saveEnded"
    <3>1. t.rec.state \in {"expired", "cancelled"}
      BY Zenon, <1>0, <2>2 DEF Expected
    <3> QED BY ZenonT(40), <1>0, <1>1, <1>2, <1>3, <2>1, <3>1, SaveKeeps
  <2>3. CASE t.step = "saveReleased"
    <3>1. record[i].state = "assigned" /\ record[i].by \in lapsed /\ t.rec.state = "verified"
      BY Zenon, <1>0, <2>3 DEF Expected, i
    <3>2. body[i] \in {None, "good"}
      BY Zenon, <1>0, <3>1 DEF Verified
    <3> QED BY ZenonT(40), <1>0, <1>1, <1>2, <1>3, <2>1, <3>1, <3>2, SaveKeeps
  <2>4. CASE t.step = "saveFinished"
    <3>1. record[i].state = "assigned" /\ t.rec.state \in {"verified", "consumed"}
      BY Zenon, <1>0, <2>4 DEF Expected, i
    <3>2. body[i] \in {None, "good"}
      BY Zenon, <1>0, <3>1 DEF Verified
    <3> QED BY Zenon, <1>0, <1>1, <1>2, <1>3, <2>1, <3>1, <3>2, SaveKeeps
  <2> QED BY Zenon, <2>1, <2>2, <2>3, <2>4
<1> QED BY Zenon, <1>a, <1>b, <1>c, <1>d, <1>e, <1>f

LEMMA Indexes ==
    ASSUME IInv, OneControl, NEW c \in Controls, SaveIndex(c)
    PROVE  Promises'
<1> DEFINE i == task[c].id
<1>0. i \in Receipts /\ TaskTypes /\ Expected(task[c]) /\ task[c].step = "saveIndex" /\ answered = {}
  BY Zenon DEF IInv, Promises, Copies, Keyed, Types, TaskTypes, At, SaveIndex
<1>1. UNCHANGED <<record, body, request, delivered, lapsed>>
      /\ \/ index' = i /\ answered' = {i}
         \/ answered' = {}
  BY Zenon, <1>0 DEF SaveIndex
<1>2. record[i].state # "absent"
  BY Zenon, <1>0 DEF Expected
<1>3. \A d \in Controls : task'[d] = Idle
  BY Zenon, Alone, TaskForms DEF SaveIndex, IInv, Types, TaskTypes, Becomes
<1> HIDE DEF i
<1>4. Copies' /\ Keyed'
  BY Zenon, <1>1, <1>2, <1>3, IdleTask DEF Copies, Expected, Keyed
<1>5. Verified' /\ DeliveredIsDeclared'
  BY Zenon, <1>1 DEF IInv, Promises, Verified, DeliveredIsDeclared
<1> QED BY Zenon, <1>4, <1>5 DEF Promises

\* The claim is saved, or not.
LEMMA Assigns ==
    ASSUME IInv, OneControl, NEW c \in Controls, SaveAssigned(c)
    PROVE  Promises'
<1>t. PICK t, i, r : t = task[c] /\ i = t.id /\ r = t.rec.by
  BY Zenon
<1>0. i \in Receipts /\ r \in Requests /\ t.rec \in Record /\ TaskTypes /\ RequestTypes
      /\ record \in [Receipts -> Record]
      /\ Expected(t) /\ Verified /\ t.step = "saveAssigned" /\ t.rec.state = "assigned"
  BY Zenon, <1>t DEF IInv, Promises, Copies, Types, TaskTypes, RecordTypes, Prepared, Claimant, Task, At,
     SaveAssigned
<1>1. UNCHANGED <<body, index, delivered, answered, lapsed>>
      /\ (record' = record \/ record' = [record EXCEPT ![i] = t.rec])
      /\ \/ record' = [record EXCEPT ![i] = t.rec]
            /\ request' = [request EXCEPT ![r].phase = "running"]
         \/ request' = [request EXCEPT ![r].phase = "over"]
  BY Zenon, <1>t DEF SaveAssigned, Saves, SaveFails
<1>2. /\ record[i].state = "verified" \/ (record[i].state = "assigned" /\ record[i].by \in lapsed)
      /\ request[r].phase = "preparing" /\ request[r].id = i
  BY Zenon, <1>0, <1>t DEF Expected
<1>3. body[i] \in {None, "good"}
  BY Zenon, <1>0, <1>2 DEF Verified
<1>4. \A d \in Controls : task'[d] = Idle
  <2>1. Becomes(c, Idle)
    BY Zenon, <1>0, TaskForms DEF SaveAssigned
  <2> QED BY Zenon, <1>0, <2>1, Alone DEF TaskTypes, Becomes
<1>5. /\ Verified' /\ DeliveredIsDeclared'
      /\ answered' \subseteq {index'}
      /\ answered' # {} => record'[index'].state # "absent"
  BY Zenon, <1>0, <1>1, <1>3, RecordKeeps
<1>6. Copies' /\ Keyed'
  BY Zenon, <1>4, <1>5, IdleTask DEF Copies, Expected, Keyed
<1> QED BY Zenon, <1>5, <1>6 DEF Promises

LEMMA Prepares ==
    ASSUME IInv, OneControl, NEW c \in Controls, NEW i \in Receipts, NEW r \in Requests,
           PrepareRequest(c, i, r)
    PROVE  Promises'
<1>0. RequestTypes /\ TaskTypes /\ record[i] \in Record
  BY Zenon DEF IInv, Types, RecordTypes
<1>1. PICK t \in Task : /\ t.step = "saveAssigned" /\ t.id = i
                        /\ t.rec.state = "assigned" /\ t.rec.by = r
                        /\ Becomes(c, t)
  BY Preparing DEF IInv
<1>2. UNCHANGED <<record, body, index, delivered, answered, lapsed>> /\ request[r].phase = "new"
      /\ request' = [request EXCEPT ![r] = [phase |-> "preparing", at |-> c, id |-> i]]
  BY Zenon DEF PrepareRequest
<1>3. request'[r].phase = "preparing" /\ request'[r].id = i
      /\ \A q \in Requests \ {r} : request'[q] = request[q]
  BY Zenon, <1>0, <1>2 DEF RequestTypes
<1>4. record[i].state = "verified" \/ (record[i].state = "assigned" /\ record[i].by \in lapsed)
  BY Zenon, <1>0 DEF PrepareRequest, Released, Record
<1>5. Expected(t)'
  BY Zenon, <1>1, <1>2, <1>3, <1>4 DEF Expected
<1>6. \A d \in Controls : task'[d] = t
  BY Zenon, <1>0, <1>1, Alone DEF TaskTypes, Becomes
<1>7. Copies'
  BY ZenonT(40), <1>5, <1>6 DEF Copies, Expected
<1>8. Keyed'
  BY Zenon, <1>1, <1>2, <1>6 DEF IInv, Promises, Keyed
<1>9. Verified' /\ DeliveredIsDeclared'
  BY Zenon, <1>2 DEF IInv, Promises, Verified, DeliveredIsDeclared
<1> QED BY Zenon, <1>7, <1>8, <1>9 DEF Promises

LEMMA Finishes ==
    ASSUME IInv, OneControl, NEW r \in Requests, FinishRequest(r)
    PROVE  Promises'
<1>t. PICK c, i : c = request[r].at /\ i = request[r].id
  BY Zenon
<1>0. c \in Controls /\ i \in Receipts /\ RequestTypes /\ TaskTypes /\ record[i] \in Record
  BY Zenon, <1>t DEF FinishRequest, IInv, Types, RequestTypes, RecordTypes
<1>1. UNCHANGED <<record, body, index, delivered, answered, lapsed>> /\ task[c] = Idle
      /\ request' = [request EXCEPT ![r].phase = "over"]
  BY Zenon, <1>t DEF FinishRequest
<1>2. /\ \A q \in Requests : request'[q].id = request[q].id
      /\ \A q \in Requests \ {r} : request'[q] = request[q]
      /\ request'[r].phase = "over"
  BY Zenon, <1>0, <1>1 DEF RequestTypes
<1>3. PICK t : /\ Becomes(c, t)
               /\ \/ t = Idle
                  \/ /\ t.step = "saveFinished" /\ t.id = i
                     /\ record[i].state = "assigned" /\ record[i].by = r
                     /\ t.rec.state \in {"verified", "consumed"}
  <2>1. CASE record[i].state = "assigned" /\ record[i].by = r
    <3>1. PICK state \in {"consumed", "verified"} :
                Takes(c, i, "saveFinished", [record[i] EXCEPT !.state = state, !.by = None])
      BY Zenon, <2>1, <1>t DEF FinishRequest
    <3> DEFINE rec == [record[i] EXCEPT !.state = state, !.by = None]
    <3>2. rec.state = state
      BY Zenon, <1>0 DEF Record
    <3> HIDE DEF rec
    <3>3. Becomes(c, [step |-> "saveFinished", id |-> i, rec |-> rec, no |-> 0, data |-> None])
      BY Zenon, <1>0, <3>1, TaskForms DEF rec
    <3> QED BY <2>1, <3>1, <3>2, <3>3
  <2>2. CASE ~(record[i].state = "assigned" /\ record[i].by = r)
    <3>1. UNCHANGED task
      BY Zenon, <2>2, <1>t DEF FinishRequest
    <3>2. Becomes(c, Idle)
      BY Zenon, <1>0, <1>1, <3>1 DEF Becomes, TaskTypes
    <3> QED BY Zenon, <3>2
  <2> QED BY Zenon, <2>1, <2>2
<1>4. \A d \in Controls : task'[d] = t
  BY Zenon, <1>0, <1>3, Alone DEF TaskTypes, Becomes
<1>5. t.step \in {"idle", "saveFinished"}
  BY Zenon, <1>3, IdleTask
<1>6. Expected(t)'
  <2>1. CASE t = Idle
    BY Zenon, <2>1, IdleTask DEF Expected
  <2>2. CASE t # Idle
    BY Zenon, <1>1, <1>2, <1>3, <2>2 DEF Expected
  <2> QED BY Zenon, <2>1, <2>2
<1>7. Copies'
  BY Zenon, <1>4, <1>6 DEF Copies, Expected
<1>8. Keyed'
  BY Zenon, <1>1, <1>4, <1>5 DEF IInv, Promises, Keyed
<1>9. Verified' /\ DeliveredIsDeclared'
  BY Zenon, <1>1 DEF IInv, Promises, Verified, DeliveredIsDeclared
<1> QED BY Zenon, <1>7, <1>8, <1>9 DEF Promises

LEMMA Crashes ==
    ASSUME IInv, OneControl, NEW c \in Controls, Crash(c)
    PROVE  Promises'
<1>1. UNCHANGED <<record, body, index, delivered, answered, lapsed>>
  BY Zenon DEF Crash
<1>3. \A d \in Controls : task'[d] = Idle
  BY Zenon, Alone, TaskForms DEF Crash, IInv, Types, TaskTypes, Becomes
<1>4. Copies' /\ Keyed'
  BY ZenonT(40), <1>1, <1>3, IdleTask DEF Copies, Expected, IInv, Promises, Keyed
<1>5. Verified' /\ DeliveredIsDeclared'
  BY Zenon, <1>1 DEF IInv, Promises, Verified, DeliveredIsDeclared
<1> QED BY Zenon, <1>4, <1>5 DEF Promises

\* What is served, answered or timed without an operation.
LEMMA Observes ==
    ASSUME IInv, OneControl,
           \/ \E c \in Controls : CreateFound(c) \/ \E r \in Requests : OpenAssigned(c, r)
           \/ \E r \in Requests : LeaseEnds(r)
           \/ \E i \in Receipts : RetentionEnds(i)
    PROVE  Promises'
<1>1. UNCHANGED <<record, body, index, task, request>>
  BY Zenon DEF CreateFound, OpenAssigned, LeaseEnds, RetentionEnds
<1>2. lapsed \subseteq lapsed' /\ aged \subseteq aged'
  BY Zenon DEF CreateFound, OpenAssigned, LeaseEnds, RetentionEnds
<1>3. DeliveredIsDeclared'
  <2>1. CASE UNCHANGED delivered
    BY Zenon, <2>1 DEF IInv, Promises, DeliveredIsDeclared
  <2>2. ASSUME NEW c \in Controls, NEW r \in Requests, OpenAssigned(c, r)
        PROVE  DeliveredIsDeclared'
    <3>1. request[r].id \in Receipts
      BY Zenon, <2>2 DEF OpenAssigned, IInv, Types, RequestTypes
    <3>2. body[request[r].id] \in {None, "good"}
      BY Zenon, <2>2, <3>1 DEF OpenAssigned, IInv, Promises, Verified
    <3>3. \A q \in Requests : delivered'[q] = delivered[q]
                              \/ (q = r /\ delivered'[q] = body[request[r].id])
      BY Zenon, <2>2 DEF OpenAssigned, IInv, Types, ObjectTypes
    <3> QED BY Zenon, <3>2, <3>3 DEF IInv, Promises, DeliveredIsDeclared
  <2> QED BY Zenon, <2>1, <2>2 DEF CreateFound, LeaseEnds, RetentionEnds
<1>4. Copies'
  <2> SUFFICES ASSUME NEW c \in Controls PROVE Expected(task[c])'
    BY Zenon DEF Copies
  <2>1. Expected(task[c])
    BY Zenon DEF IInv, Promises, Copies
  <2> QED BY Zenon, <1>1, <1>2, <2>1 DEF Expected
<1>5. Verified'
  BY Zenon, <1>1 DEF IInv, Promises, Verified
<1>6. Keyed'
  <2>1. CASE UNCHANGED answered
    BY Zenon, <1>1, <2>1 DEF IInv, Promises, Keyed
  <2>2. ASSUME NEW c \in Controls, CreateFound(c)
        PROVE  Keyed'
    <3>1. \A d \in Controls : task'[d] = Idle
      BY Zenon, <1>1, <2>2, Alone DEF CreateFound
    <3> QED BY Zenon, <1>1, <2>2, <3>1, IdleTask DEF CreateFound, Exists, IInv, Promises, Keyed
  <2> QED BY Zenon, <2>1, <2>2 DEF OpenAssigned, LeaseEnds, RetentionEnds
<1> QED BY Zenon, <1>3, <1>4, <1>5, <1>6 DEF Promises

LEMMA InitPromises == Init => Promises
<1> SUFFICES ASSUME Init PROVE Promises
  BY Zenon
<1>1. Copies /\ Keyed
  BY Zenon, IdleTask DEF Init, Copies, Expected, Keyed
<1>2. Verified /\ DeliveredIsDeclared
  BY Zenon, IdleTask DEF Init, Verified, DeliveredIsDeclared
<1> QED BY Zenon, <1>1, <1>2 DEF Promises

LEMMA NextPromises ==
    ASSUME OneControl
    PROVE  IInv /\ [Next]_vars => Promises'
<1> SUFFICES ASSUME IInv, [Next]_vars PROVE Promises'
  BY Zenon
<1>1. CASE UNCHANGED vars
  <2>0. UNCHANGED <<record, task, body, request, lapsed, aged>>
    BY Zenon, <1>1 DEF vars
  <2>c. Copies'
    <3> SUFFICES ASSUME NEW c \in Controls PROVE Expected(task[c])'
      BY Zenon DEF Copies
    <3>1. Expected(task[c])
      BY Zenon DEF IInv, Promises, Copies
    <3> QED BY Zenon, <2>0, <3>1 DEF Expected
  <2>1. Verified'
    BY Zenon, <2>0 DEF IInv, Promises, Verified
  <2>2. Keyed' /\ DeliveredIsDeclared'
    BY Zenon, <1>1 DEF vars, IInv, Promises, Keyed, DeliveredIsDeclared
  <2> QED BY Zenon, <2>1, <2>2, <2>c DEF Promises
<1>2. CASE Next
  <2>1. ASSUME NEW c \in Controls, Step(c) PROVE Promises'
    BY Zenon, <2>1, Saving, Deletes, Composes, Indexes, Assigns DEF Step
  <2>2. ASSUME NEW c \in Controls, NEW i \in clients.receipts, Client(c, i) PROVE Promises'
    BY Zenon, <2>2, Population, Starts, PutsPart, Prepares DEF Client, IInv
  <2>3. ASSUME NEW c \in Controls, NEW i \in Receipts, CleanupExpired(c, i) \/ CleanupLapsed(c, i)
        PROVE  Promises'
    BY Zenon, <2>3, Starts
  <2> QED BY Zenon, <1>2, <2>1, <2>2, <2>3, Finishes, Crashes, Observes DEF Next
<1> QED BY Zenon, <1>1, <1>2

LEMMA Invariant ==
    ASSUME OneControl
    PROVE  Spec => []IInv
<1>1. Init => IInv
  BY Zenon, InitTypes, InitPromises DEF IInv
<1>2. IInv /\ [Next]_vars => IInv'
  BY Zenon, NextTypes, NextPromises DEF IInv
<1> QED BY <1>1, <1>2, PTL DEF Spec

\* Complete's promise: whatever parts are replaced, whichever store call fails, with or
\* without effect, and wherever Control crashes, a worker downloads the declared body.
THEOREM DeclaredDelivered ==
    ASSUME OneControl
    PROVE  Spec => []DeliveredIsDeclared
<1>1. IInv => DeliveredIsDeclared
  BY Zenon DEF IInv, Promises
<1> QED BY <1>1, Invariant, PTL

\* Create's idempotency: one key is answered with one receipt, though the record and the
\* key are saved one after the other and either save may fail or be the last before a crash.
THEOREM CreateOnce ==
    ASSUME OneControl
    PROVE  Spec => []IdempotentCreate
<1>1. ASSUME IInv PROVE IdempotentCreate
  BY Zenon, <1>1 DEF IInv, Promises, Keyed, IdempotentCreate
<1> QED BY <1>1, Invariant, PTL

\* What an operation may make of receipt i with its save, given what it may find: a claim
\* is only touched when its lease is over, its request has returned or its receipt is aged.
MayBecome(i, to) ==
    LET now == record[i] IN
    \/ now.state = "absent" /\ to = "uploading"
    \/ now.state = "uploading" /\ to \in {"uploading", "verifying", "rejected"}
    \/ now.state = "verifying" /\ to \in {"verifying", "uploading", "rejected", "verified"}
    \/ now.state \notin {"absent", "assigned", "consumed"} /\ to = "cancelled"
    \/ now.state \notin {"absent", "expired"} /\ to = "expired" /\ i \in aged
    \/ now.state = "assigned" /\ now.by \in lapsed /\ to \in {"verified", "assigned"}
    \/ now.state = "assigned" /\ request[now.by].phase = "over" /\ to \in {"verified", "consumed"}
    \/ now.state = "verified" /\ to = "assigned"

LEMMA SavesAsExpected ==
    ASSUME IInv, NEW c \in Controls, Step(c), record' # record
    PROVE  \E i \in Receipts : /\ MayBecome(i, record'[i].state)
                               /\ \A j \in Receipts \ {i} : record'[j] = record[j]
<1>t. PICK t, i : t = task[c] /\ i = t.id
  BY Zenon
<1>0. t \in Task /\ t.rec \in Record /\ (t.step # "idle" => i \in Receipts) /\ Expected(t)
      /\ record \in [Receipts -> Record]
  BY Zenon, <1>t DEF IInv, Promises, Copies, Types, TaskTypes, RecordTypes, Task
<1>1. PICK rec : /\ record' = [record EXCEPT ![i] = rec]
                 /\ \/ t.step \in {"saveNew", "saveNewKeyed"} /\ rec = NewRecord
                    \/ t.step = "savePart" /\ rec = [t.rec EXCEPT !.parts[t.no] = t.data]
                    \/ t.step \in {"saveVerifying", "saveUploading", "saveRejected", "saveVerified",
                                   "saveEnded", "saveReleased", "saveFinished", "saveAssigned"}
                       /\ rec = t.rec
  BY Zenon, <1>t DEF Step, SaveNew, SaveIndex, StorePart, DropPart, SavePart, SaveVerifying, Compose,
     SaveEndOfComplete, DropBody, DropParts, SaveVerified, DropPayload, DropPayloadParts, SaveEnd,
     SaveAssigned, Saves, SaveFails, At
<1>2. i \in Receipts
  BY Zenon, <1>0, <1>1
<1>3. record'[i] = rec /\ \A j \in Receipts \ {i} : record'[j] = record[j]
  BY Zenon, <1>0, <1>1, <1>2
<1>4. /\ t.step = "savePart" => rec.state = t.rec.state
      /\ t.step \in {"saveNew", "saveNewKeyed"} => rec.state = "uploading"
  <2>1. t.step = "savePart" => rec.state = t.rec.state
    BY Zenon, <1>0, <1>1 DEF Record
  <2>2. NewRecord.state = "uploading"
    BY Zenon DEF NewRecord, NoRecord
  <2> QED BY Zenon, <1>1, <2>1, <2>2
<1>5. MayBecome(i, rec.state)
  BY Zenon, <1>0, <1>1, <1>4, <1>t DEF Expected, MayBecome
<1> QED BY Zenon, <1>2, <1>3, <1>5

LEMMA OnlyStepsSave ==
    ASSUME [Next]_vars, record' # record
    PROVE  \E c \in Controls : Step(c)
BY ZenonT(40) DEF Next, vars, CreateFound, Crash, Client, CreateNew, Complete, Cancel, PutPart,
   PrepareRequest, CleanupExpired, CleanupLapsed, OpenAssigned, FinishRequest, LeaseEnds, RetentionEnds

\* A record that changes, changes as some operation expects.
LEMMA Changes ==
    ASSUME IInv, [Next]_vars, NEW i \in Receipts, record'[i] # record[i]
    PROVE  MayBecome(i, record'[i].state)
<1>1. PICK c \in Controls : Step(c)
  BY Zenon, OnlyStepsSave
<1>2. PICK j \in Receipts : /\ MayBecome(j, record'[j].state)
                            /\ \A k \in Receipts \ {j} : record'[k] = record[k]
  BY Zenon, <1>1, SavesAsExpected
<1>3. i = j
  BY Zenon, <1>2
<1> QED BY Zenon, <1>2, <1>3

\* Nobody takes or releases the receipt of a request that is still running before its lease or
\* the receipt's retention ends: neither the next claimant, nor Cleanup, nor an earlier claimant
\* that finishes after it lost the claim.
THEOREM ClaimKept ==
    ASSUME OneControl
    PROVE  Spec => ClaimIsKept
<1> DEFINE Kept ==
             \A i \in Receipts :
               LET claimant == record[i].by IN
               (record[i].state = "assigned" /\ record'[i] # record[i]) =>
                   request[claimant].phase = "over" \/ claimant \in lapsed \/ i \in aged
<1>1. ASSUME IInv, [Next]_vars PROVE Kept
  <2> SUFFICES ASSUME NEW i \in Receipts, record[i].state = "assigned", record'[i] # record[i]
               PROVE  request[record[i].by].phase = "over" \/ record[i].by \in lapsed \/ i \in aged
    BY Zenon
  <2>1. MayBecome(i, record'[i].state)
    BY Zenon, <1>1, Changes
  <2> QED BY Zenon, <2>1 DEF MayBecome
<1>2. IInv /\ [Next]_vars => [Kept]_vars
  BY Zenon, <1>1
<1>3. Spec => [][Kept]_vars
  BY <1>2, Invariant, PTL DEF Spec
<1> QED BY Zenon, <1>3 DEF ClaimIsKept

LEMMA Transitions ==
    /\ canTransition("verifying", "verified")
    /\ canTransition("assigned", "verified") /\ canTransition("assigned", "consumed")
    /\ canTransition("verified", "assigned")
    /\ \A state : canTransition(state, state)
BY DEF legalTransitions, canTransition

\* What the code keeps of "the single lifecycle policy": a body is verified, claimed and spent
\* only along legalTransitions, and what has ended does not come back to life, though every
\* operation saves a copy it loaded several store calls before.
THEOREM LegalTransitions ==
    ASSUME OneControl
    PROVE  Spec => TransitionsAreLegal
<1> DEFINE Legal ==
             \A i \in Receipts :
               LET from == record[i].state
                   to == record'[i].state IN
               /\ to \in {"verified", "assigned", "consumed"} => canTransition(from, to)
               /\ from \in Ended => to \in Ended
<1>1. ASSUME IInv, [Next]_vars PROVE Legal
  <2> SUFFICES ASSUME NEW i \in Receipts
               PROVE  /\ record'[i].state \in {"verified", "assigned", "consumed"} =>
                             canTransition(record[i].state, record'[i].state)
                      /\ record[i].state \in Ended => record'[i].state \in Ended
    BY Zenon
  <2>1. CASE record'[i] = record[i]
    BY Zenon, <2>1, Transitions
  <2>2. CASE record'[i] # record[i]
    <3>1. MayBecome(i, record'[i].state)
      BY Zenon, <1>1, <2>2, Changes
    <3> QED BY ZenonT(30), <3>1, Transitions DEF MayBecome, Ended
  <2> QED BY Zenon, <2>1, <2>2
<1>2. IInv /\ [Next]_vars => [Legal]_vars
  BY Zenon, <1>1
<1>3. Spec => [][Legal]_vars
  BY <1>2, Invariant, PTL DEF Spec
<1> QED BY Zenon, <1>3 DEF TransitionsAreLegal
=============================================================================
