------------------------------ MODULE Receipt ------------------------------
(***************************************************************************)
(* Request receipts (internal/receipt): the client uploads a body in       *)
(* parts, has it composed and verified, and names it in one request, for   *)
(* which Control claims it while Egress downloads it through a signed URL. *)
(*                                                                         *)
(* A receipt is three kinds of objects in the object store: its record,    *)
(* its parts and its body.  The operations of a Control run one at a time, *)
(* under Service.mu, but each is several store calls: any of them may      *)
(* fail, with or without effect, and the Control may crash between two of  *)
(* them.  Two Controls on one store have two mutexes.                      *)
(*                                                                         *)
(* A part's bytes are "good" (the declared ones), "bad" (as many, but      *)
(* different) or "short" (not as many); the declared object is PartCount   *)
(* good parts.  Time is two facts: aged, the receipts whose retention is   *)
(* over, and lapsed, the requests whose claim's lease is over.             *)
(***************************************************************************)
EXTENDS Naturals, FiniteSets

CONSTANTS
    Controls,     \* the Control processes that share the object store
    Receipts,     \* receipt ids
    Requests,     \* ids of the requests that name a receipt
    PartCount,    \* parts of the declared object
    Populations,  \* what clients may do: receipts they create, parts they upload, requests
    MaxFaults,    \* bound: object store calls that fail
    MaxCrashes    \* bound: crashes of a Control

None == "none"
Bytes == {"good", "bad", "short"}

ASSUME PopulationsAssumption ==
    Populations \subseteq [receipts : SUBSET Receipts, uploads : SUBSET Bytes,
                           requests : SUBSET Requests]
ASSUME PartCountAssumption == PartCount \in Nat \ {0}
ASSUME NoneAssumption == None \notin Controls \union Receipts \union Requests
ASSUME BoundsAssumption == MaxFaults \in Nat /\ MaxCrashes \in Nat

VARIABLES
    record,     \* store: record.json of each receipt
    part,       \* store: the parts of each receipt
    body,       \* store: the composed body of each receipt
    index,      \* store: the receipt an idempotency key was given
    task,       \* the operation each Control runs under Service.mu
    request,    \* the requests that name a receipt
    delivered,  \* the body a worker downloaded for a request
    answered,   \* receipts returned to a Create with the idempotency key
    lapsed, aged, faults, crashes,
    clients     \* what the clients do in this behaviour

vars == <<record, part, body, index, task, request, delivered, answered,
          lapsed, aged, faults, crashes, clients>>

PartNos == 1..PartCount
States == {"absent", "uploading", "verifying", "verified", "assigned", "consumed",
           "rejected", "cancelled", "expired"}
Parts == [PartNos -> Bytes \union {None}]
NoParts == [n \in PartNos |-> None]

\* The durable record: its state, the parts it lists and the request it is assigned to.
Record == [state : States, parts : Parts, by : Requests \union {None}]
NoRecord == [state |-> "absent", parts |-> NoParts, by |-> None]
NewRecord == [NoRecord EXCEPT !.state = "uploading"]

\* The operation under way: its next store call, its copy of the record, its input.
Steps == {"idle", "saveNew", "saveNewKeyed", "saveIndex", "storePart", "dropPart", "savePart",
          "saveVerifying", "compose", "saveUploading", "dropBody", "saveRejected",
          "dropParts", "saveVerified", "dropPayload", "dropPayloadParts", "saveEnded", "saveAssigned",
          "saveFinished", "saveReleased"}
Idle == [step |-> "idle", id |-> None, rec |-> NoRecord, no |-> 0, data |-> None]
Task == [step : Steps, id : Receipts \union {None}, rec : Record, no : PartNos \union {0},
         data : Bytes \union {None}]

NewRequest == [phase |-> "new", at |-> None, id |-> None]

Init ==
    /\ record = [i \in Receipts |-> NoRecord]
    /\ part = [i \in Receipts |-> NoParts]
    /\ body = [i \in Receipts |-> None]
    /\ index = None
    /\ task = [c \in Controls |-> Idle]
    /\ request = [r \in Requests |-> NewRequest]
    /\ delivered = [r \in Requests |-> None]
    /\ answered = {}
    /\ lapsed = {}
    /\ aged = {}
    /\ faults = 0
    /\ crashes = 0
    /\ clients \in Populations

-----------------------------------------------------------------------------
(* Store calls and steps of an operation *)

Unfailing == UNCHANGED faults
Fault == faults < MaxFaults /\ faults' = faults + 1

\* Service.save: one Put.  A Put that fails may have taken effect all the same.
Saves(i, rec) == record' = [record EXCEPT ![i] = rec] /\ Unfailing
SaveFails(i, rec) == Fault /\ record' \in {record, [record EXCEPT ![i] = rec]}

\* A deletion whose error the code drops.
Drops(store, i, gone) ==
    \/ store' = [store EXCEPT ![i] = gone] /\ Unfailing
    \/ UNCHANGED store /\ Fault

\* The mutex is taken and the record loaded; the checks passed; call `step` is next.
Takes(c, i, step, rec) ==
    /\ task[c] = Idle
    /\ task' = [task EXCEPT ![c] = [Idle EXCEPT !.step = step, !.id = i, !.rec = rec]]

At(c, step) == task[c].step = step
Then(c, step) == task' = [task EXCEPT ![c].step = step]
ThenWith(c, step, state) == task' = [task EXCEPT ![c].step = step, ![c].rec.state = state]
Returns(c) == task' = [task EXCEPT ![c] = Idle]

\* The parts a record lists, and their deletion one by one: any of them may stay.
Listed(rec) == {n \in PartNos : rec.parts[n] # None}
DropsListed(i, rec) ==
    \E left \in SUBSET Listed(rec) :
        /\ part' = [part EXCEPT ![i] =
                        [n \in PartNos |-> IF n \in Listed(rec) \ left THEN None ELSE @[n]]]
        /\ IF left = {} THEN Unfailing ELSE Fault

Exists(i) == record[i].state # "absent"

-----------------------------------------------------------------------------
(* Uploading *)

\* Create with a key that already names a receipt returns that receipt, in any state, or
\* refuses when the declaration is another (resolveCreateIdempotency).
CreateFound(c) ==
    /\ task[c] = Idle
    /\ index \in {i \in Receipts : Exists(i)}
    /\ \E matches \in BOOLEAN : answered' = IF matches THEN answered \union {index} ELSE answered
    /\ UNCHANGED <<record, part, body, index, task, request, delivered, lapsed, aged, faults, crashes>>

\* Mutant of CreateNew: a key that already names a receipt is given another one.
CreateNewAlways(c, i) ==
    /\ ~Exists(i)
    /\ Takes(c, i, "saveNewKeyed", NewRecord)
    /\ UNCHANGED <<record, part, body, index, request, delivered, answered,
                   lapsed, aged, faults, crashes>>

\* Create of a receipt with a fresh id, without a key or with one that names no receipt.
CreateNew(c, i) ==
    /\ ~Exists(i)
    /\ \A d \in Controls : task[d].id # i
    /\ \/ Takes(c, i, "saveNew", NewRecord)
       \/ index \notin {j \in Receipts : Exists(j)} /\ Takes(c, i, "saveNewKeyed", NewRecord)
    /\ UNCHANGED <<record, part, body, index, request, delivered, answered,
                   lapsed, aged, faults, crashes>>

SaveNew(c) ==
    LET i == task[c].id IN
    /\ At(c, "saveNew") \/ At(c, "saveNewKeyed")
    /\ \/ /\ Saves(i, NewRecord)
          /\ IF At(c, "saveNew") THEN Returns(c) ELSE Then(c, "saveIndex")
       \/ SaveFails(i, NewRecord) /\ Returns(c)
    /\ UNCHANGED <<part, body, index, request, delivered, answered, lapsed, aged, crashes>>

\* saveIdempotency; the receipt is returned only when it succeeds.
SaveIndex(c) ==
    LET i == task[c].id IN
    /\ At(c, "saveIndex")
    /\ \/ index' = i /\ Unfailing /\ answered' = answered \union {i}
       \/ index' \in {index, i} /\ Fault /\ UNCHANGED answered
    /\ Returns(c)
    /\ UNCHANGED <<record, part, body, request, delivered, lapsed, aged, crashes>>

\* PutPart: only while the receipt is uploading and not past its retention.
PutPart(c, i, n, data) ==
    /\ record[i].state = "uploading"
    /\ i \notin aged
    /\ task[c] = Idle
    /\ task' = [task EXCEPT ![c] = [Idle EXCEPT !.step = "storePart", !.id = i,
                                        !.rec = record[i], !.no = n, !.data = data]]
    /\ UNCHANGED <<record, part, body, index, request, delivered, answered,
                   lapsed, aged, faults, crashes>>

\* The part replaces the one of that number; then its checksum is compared, if one
\* was sent, and the part is deleted if it differs.
StorePart(c) ==
    LET t == task[c]
        stored == [part EXCEPT ![t.id][t.no] = t.data] IN
    /\ At(c, "storePart")
    /\ \/ part' = stored /\ Unfailing /\ (Then(c, "savePart") \/ Then(c, "dropPart"))
       \/ part' \in {part, stored} /\ Fault /\ Returns(c)
    /\ UNCHANGED <<record, body, index, request, delivered, answered, lapsed, aged, crashes>>

DropPart(c) ==
    LET t == task[c] IN
    /\ At(c, "dropPart")
    /\ Drops(part, t.id, [part[t.id] EXCEPT ![t.no] = None])
    /\ Returns(c)
    /\ UNCHANGED <<record, body, index, request, delivered, answered, lapsed, aged, crashes>>

\* upsertPart and save.
SavePart(c) ==
    LET t == task[c]
        rec == [t.rec EXCEPT !.parts[t.no] = t.data] IN
    /\ At(c, "savePart")
    /\ Saves(t.id, rec) \/ SaveFails(t.id, rec)
    /\ Returns(c)
    /\ UNCHANGED <<part, body, index, request, delivered, answered, lapsed, aged, crashes>>

-----------------------------------------------------------------------------
(* Verification *)

\* Mutant of Completable: what was rejected, cancelled or has expired is taken up again.
CompletableAgain(i) ==
    LET listed == Listed(record[i]) IN
    /\ record[i].state \notin {"absent", "verified"}
    /\ listed # {}
    /\ i \notin aged
    /\ listed = 1..Cardinality(listed)

\* completionSize: uploading or verifying, parts listed, contiguous from 1, not expired.
Completable(i) ==
    LET listed == Listed(record[i]) IN
    /\ record[i].state \in {"uploading", "verifying"}
    /\ listed # {}
    /\ i \notin aged
    /\ listed = 1..Cardinality(listed)

\* The sizes the record lists add up to the declared one.
SizeMatches(rec) == \A n \in PartNos : rec.parts[n] \in {"good", "bad"}

Complete(c, i) ==
    /\ Completable(i)
    /\ IF SizeMatches(record[i])
       THEN Takes(c, i, "saveVerifying", [record[i] EXCEPT !.state = "verifying"])
       ELSE Takes(c, i, "saveRejected", [record[i] EXCEPT !.state = "rejected"])
    /\ UNCHANGED <<record, part, body, index, request, delivered, answered,
                   lapsed, aged, faults, crashes>>

SaveVerifying(c) ==
    LET t == task[c] IN
    /\ At(c, "saveVerifying")
    /\ \/ Saves(t.id, t.rec) /\ Then(c, "compose")
       \/ SaveFails(t.id, t.rec) /\ Returns(c)
    /\ UNCHANGED <<part, body, index, request, delivered, answered, lapsed, aged, crashes>>

\* partReader: the stored bytes of the parts that a record lists.
PartBytes(i, rec) == {part[i][n] : n \in Listed(rec)}

\* Mutant of Compose: the checksums recorded for the parts stand for the body's.
ComposeTrusting(c) ==
    LET t == task[c]
        bytes == PartBytes(t.id, t.rec) IN
    /\ At(c, "compose")
    /\ body' = [body EXCEPT ![t.id] = IF bytes = {"good"} THEN "good" ELSE "bad"]
    /\ IF \A n \in PartNos : t.rec.parts[n] = "good"
       THEN Then(c, "dropParts") ELSE Then(c, "dropBody")
    /\ UNCHANGED <<record, part, index, request, delivered, answered, lapsed, aged, faults, crashes>>

\* composeParts: the stored parts the record lists become the body.  The Put fails when
\* one is missing or the bytes are not as many as declared.
Compose(c) ==
    LET t == task[c]
        bytes == PartBytes(t.id, t.rec)
        whole == bytes \subseteq {"good", "bad"}
        composed == [body EXCEPT ![t.id] = IF bytes = {"good"} THEN "good" ELSE "bad"] IN
    /\ At(c, "compose")
    /\ \/ /\ whole
          /\ body' = composed /\ Unfailing
          /\ IF bytes = {"good"} THEN Then(c, "dropParts") ELSE Then(c, "dropBody")
       \/ /\ whole
          /\ body' \in {body, composed} /\ Fault
          /\ ThenWith(c, "saveUploading", "uploading")
       \/ /\ ~whole
          /\ UNCHANGED body /\ Unfailing
          /\ ThenWith(c, "saveUploading", "uploading")
    /\ UNCHANGED <<record, part, index, request, delivered, answered, lapsed, aged, crashes>>

\* The end of a Complete that could not compose, or that rejects: errors are dropped.
SaveEndOfComplete(c) ==
    LET t == task[c] IN
    /\ At(c, "saveUploading") \/ At(c, "saveRejected")
    /\ Saves(t.id, t.rec) \/ SaveFails(t.id, t.rec)
    /\ Returns(c)
    /\ UNCHANGED <<part, body, index, request, delivered, answered, lapsed, aged, crashes>>

DropBody(c) ==
    /\ At(c, "dropBody")
    /\ Drops(body, task[c].id, None)
    /\ ThenWith(c, "saveRejected", "rejected")
    /\ UNCHANGED <<record, part, index, request, delivered, answered, lapsed, aged, crashes>>

\* finalizeVerifiedReceipt deletes the parts, then saves the record that lists none.
DropParts(c) ==
    LET t == task[c] IN
    /\ At(c, "dropParts")
    /\ DropsListed(t.id, t.rec)
    /\ task' = [task EXCEPT ![c].step = "saveVerified",
                            ![c].rec = [NoRecord EXCEPT !.state = "verified"]]
    /\ UNCHANGED <<record, body, index, request, delivered, answered, lapsed, aged, crashes>>

SaveVerified(c) ==
    LET t == task[c] IN
    /\ At(c, "saveVerified")
    /\ Saves(t.id, t.rec) \/ SaveFails(t.id, t.rec)
    /\ Returns(c)
    /\ UNCHANGED <<part, body, index, request, delivered, answered, lapsed, aged, crashes>>

-----------------------------------------------------------------------------
(* Cancellation and cleanup *)

\* deletePayload's body is deleted first, then the parts, then the record is saved.
Cancel(c, i) ==
    /\ record[i].state \notin {"absent", "assigned", "consumed"}
    /\ Takes(c, i, "dropPayload", [record[i] EXCEPT !.state = "cancelled"])
    /\ UNCHANGED <<record, part, body, index, request, delivered, answered,
                   lapsed, aged, faults, crashes>>

\* Mutant of CleanupExpired: an upload that was never completed is passed over.
CleanupExpiredVerified(c, i) ==
    /\ record[i].state \notin {"absent", "uploading", "expired"}
    /\ i \in aged
    /\ Takes(c, i, "dropPayload", [record[i] EXCEPT !.state = "expired"])
    /\ UNCHANGED <<record, part, body, index, request, delivered, answered,
                   lapsed, aged, faults, crashes>>

\* cleanupObject of a receipt past its retention.
CleanupExpired(c, i) ==
    /\ record[i].state \notin {"absent", "expired"}
    /\ i \in aged
    /\ Takes(c, i, "dropPayload", [record[i] EXCEPT !.state = "expired"])
    /\ UNCHANGED <<record, part, body, index, request, delivered, answered,
                   lapsed, aged, faults, crashes>>

\* cleanupObject of an assigned receipt whose lease is over.
CleanupLapsed(c, i) ==
    /\ i \notin aged
    /\ record[i].state = "assigned"
    /\ record[i].by \in lapsed
    /\ Takes(c, i, "saveReleased", [record[i] EXCEPT !.state = "verified", !.by = None])
    /\ UNCHANGED <<record, part, body, index, request, delivered, answered,
                   lapsed, aged, faults, crashes>>

DropPayload(c) ==
    LET t == task[c] IN
    /\ At(c, "dropPayload")
    /\ Drops(body, t.id, None)
    /\ Then(c, "dropPayloadParts")
    /\ UNCHANGED <<record, part, index, request, delivered, answered, lapsed, aged, crashes>>

DropPayloadParts(c) ==
    LET t == task[c] IN
    /\ At(c, "dropPayloadParts")
    /\ DropsListed(t.id, t.rec)
    /\ Then(c, "saveEnded")
    /\ UNCHANGED <<record, body, index, request, delivered, answered, lapsed, aged, crashes>>

\* The save that ends Cancel, either branch of Cleanup, and FinishRequest.
SaveEnd(c) ==
    LET t == task[c] IN
    /\ At(c, "saveEnded") \/ At(c, "saveReleased") \/ At(c, "saveFinished")
    /\ Saves(t.id, t.rec) \/ SaveFails(t.id, t.rec)
    /\ Returns(c)
    /\ UNCHANGED <<part, body, index, request, delivered, answered, lapsed, aged, crashes>>

-----------------------------------------------------------------------------
(* Use by a request *)

\* releaseExpiredAssignment, on the copy that PrepareRequest has loaded.
Released(rec) ==
    IF rec.state = "assigned" /\ rec.by \in lapsed
    THEN [rec EXCEPT !.state = "verified", !.by = None] ELSE rec

\* PrepareRequest: a verified receipt, or one whose lease is over, is claimed.
PrepareRequest(c, i, r) ==
    /\ request[r].phase = "new"
    /\ Released(record[i]).state = "verified"
    /\ i \notin aged
    /\ Takes(c, i, "saveAssigned", [Released(record[i]) EXCEPT !.state = "assigned", !.by = r])
    /\ request' = [request EXCEPT ![r] = [phase |-> "preparing", at |-> c, id |-> i]]
    /\ UNCHANGED <<record, part, body, index, delivered, answered, lapsed, aged, faults, crashes>>

\* The request is dispatched with the signed URL, or refused when the save failed.
SaveAssigned(c) ==
    LET t == task[c] IN
    /\ At(c, "saveAssigned")
    /\ \/ /\ Saves(t.id, t.rec)
          /\ request' = [request EXCEPT ![t.rec.by].phase = "running"]
       \/ /\ SaveFails(t.id, t.rec)
          /\ request' = [request EXCEPT ![t.rec.by].phase = "over"]
    /\ Returns(c)
    /\ UNCHANGED <<part, body, index, delivered, answered, lapsed, aged, crashes>>

\* OpenAssigned: the URL is served while its lease runs and its request holds the claim.
OpenAssigned(c, r) ==
    LET i == request[r].id IN
    /\ request[r].phase = "running"
    /\ task[c] = Idle
    /\ r \notin lapsed
    /\ record[i].state = "assigned" /\ record[i].by = r
    /\ body[i] # None
    /\ delivered' = [delivered EXCEPT ![r] = body[i]]
    /\ UNCHANGED <<record, part, body, index, task, request, answered, lapsed, aged, faults, crashes>>

\* Mutant of FinishRequest: whoever holds the claim by now, the receipt is released.
FinishRequestOfAny(r) ==
    LET c == request[r].at
        i == request[r].id IN
    /\ request[r].phase = "running"
    /\ task[c] = Idle
    /\ request' = [request EXCEPT ![r].phase = "over"]
    /\ IF record[i].state = "assigned"
       THEN Takes(c, i, "saveFinished", [record[i] EXCEPT !.state = "verified", !.by = None])
       ELSE UNCHANGED task
    /\ UNCHANGED <<record, part, body, index, delivered, answered, lapsed, aged, faults, crashes>>

\* FinishRequest, when the dispatch returns.  A dispatch may succeed that never downloaded
\* the body: the handler does not ask.
FinishRequest(r) ==
    LET c == request[r].at
        i == request[r].id IN
    /\ request[r].phase = "running"
    /\ task[c] = Idle
    /\ request' = [request EXCEPT ![r].phase = "over"]
    /\ IF record[i].state = "assigned" /\ record[i].by = r
       THEN \E state \in {"consumed", "verified"} :
                Takes(c, i, "saveFinished", [record[i] EXCEPT !.state = state, !.by = None])
       ELSE UNCHANGED task
    /\ UNCHANGED <<record, part, body, index, delivered, answered, lapsed, aged, faults, crashes>>

-----------------------------------------------------------------------------
(* Time and crashes *)

\* The lease of a claim ends.
LeaseEnds(r) ==
    /\ request[r].phase # "new"
    /\ r \notin lapsed
    /\ lapsed' = lapsed \union {r}
    /\ UNCHANGED <<record, part, body, index, task, request, delivered, answered,
                   aged, faults, crashes>>

\* The retention of a receipt ends.
RetentionEnds(i) ==
    /\ Exists(i)
    /\ i \notin aged
    /\ aged' = aged \union {i}
    /\ UNCHANGED <<record, part, body, index, task, request, delivered, answered,
                   lapsed, faults, crashes>>

\* A Control dies in the middle of its operation, with its requests, and restarts.
Crash(c) ==
    /\ crashes < MaxCrashes
    /\ crashes' = crashes + 1
    /\ Returns(c)
    /\ request' = [r \in Requests |->
                      IF request[r].at = c THEN [request[r] EXCEPT !.phase = "over"] ELSE request[r]]
    /\ UNCHANGED <<record, part, body, index, delivered, answered, lapsed, aged, faults>>

-----------------------------------------------------------------------------
(* Specification *)

\* The next store call of the operation a Control runs.
Step(c) ==
    \/ SaveNew(c) \/ SaveIndex(c)
    \/ StorePart(c) \/ DropPart(c) \/ SavePart(c)
    \/ SaveVerifying(c) \/ Compose(c) \/ SaveEndOfComplete(c)
    \/ DropBody(c) \/ DropParts(c) \/ SaveVerified(c)
    \/ DropPayload(c) \/ DropPayloadParts(c) \/ SaveEnd(c)
    \/ SaveAssigned(c)

Client(c, i) ==
    \/ CreateNew(c, i) \/ Complete(c, i) \/ Cancel(c, i)
    \/ \E n \in PartNos, data \in clients.uploads : PutPart(c, i, n, data)
    \/ \E r \in clients.requests : PrepareRequest(c, i, r)

Next ==
    /\ \/ \E c \in Controls :
            \/ Step(c) \/ CreateFound(c) \/ Crash(c)
            \/ \E i \in clients.receipts : Client(c, i)
            \/ \E i \in Receipts : CleanupExpired(c, i) \/ CleanupLapsed(c, i)
            \/ \E r \in Requests : OpenAssigned(c, r)
       \/ \E r \in Requests : FinishRequest(r) \/ LeaseEnds(r)
       \/ \E i \in Receipts : RetentionEnds(i)
    /\ UNCHANGED clients

Spec == Init /\ [][Next]_vars

\* An operation that has the mutex proceeds; RunCleanup's ticker fires again and again
\* and the mutex, being starvation-free, is eventually its; leases end.
Fairness ==
    /\ \A c \in Controls : WF_vars(Step(c) /\ UNCHANGED clients)
    /\ \A c \in Controls, i \in Receipts :
         /\ SF_vars(CleanupExpired(c, i) /\ UNCHANGED clients)
         /\ SF_vars(CleanupLapsed(c, i) /\ UNCHANGED clients)
    /\ \A r \in Requests : WF_vars(LeaseEnds(r) /\ UNCHANGED clients)

FairSpec == Spec /\ Fairness

-----------------------------------------------------------------------------
(* Properties *)

\* What a receipt, its objects and an operation under way are: in particular the copy an
\* operation holds is of an existing receipt, and only a claim names a request.
TypeOK ==
    /\ record \in [Receipts -> Record]
    /\ part \in [Receipts -> Parts]
    /\ body \in [Receipts -> {None, "good", "bad"}]
    /\ index \in Receipts \union {None}
    /\ task \in [Controls -> Task]
    /\ request \in [Requests -> [phase : {"new", "preparing", "running", "over"},
                                 at : Controls \union {None}, id : Receipts \union {None}]]
    /\ delivered \in [Requests -> {None, "good", "bad"}]
    /\ answered \subseteq Receipts
    /\ lapsed \subseteq Requests
    /\ aged \subseteq Receipts
    /\ faults \in 0..MaxFaults
    /\ crashes \in 0..MaxCrashes
    /\ clients \in Populations
    /\ \A c \in Controls : task[c].step # "idle" => task[c].id \in Receipts
    /\ \A i \in Receipts : record[i].state = "assigned" => record[i].by \in Requests

\* Complete's promise, as a worker relies on it: whatever parts were replaced, whichever
\* store call failed and wherever Control crashed, the body a worker downloads for a
\* request is the one whose size and digest the client declared.
DeliveredIsDeclared == \A r \in Requests : delivered[r] \in {None, "good"}

\* A claim lasts as long as its lease and its request: nobody takes or releases the receipt
\* of a request that is still running before its lease is over or the receipt's own retention
\* ends, and a request that finishes after it lost the claim leaves the next one's alone
\* (releaseExpiredAssignment, FinishRequest, cleanupObject).
ClaimIsKept ==
    [][\A i \in Receipts :
         LET claimant == record[i].by IN
         (record[i].state = "assigned" /\ record'[i] # record[i]) =>
             request[claimant].phase = "over" \/ claimant \in lapsed \/ i \in aged]_vars

\* PrepareRequest's "atomically claims": of the requests that were dispatched with a
\* receipt and have not finished, at most one has a running lease on it.
ClaimedByOneRequest ==
    \A r, s \in {q \in Requests : request[q].phase = "running" /\ q \notin lapsed} :
        request[r].id = request[s].id => r = s

\* Create with one idempotency key never returns two receipts, though the record and the
\* key are two objects and either save may fail.
IdempotentCreate == \A i, j \in answered : i = j

\* Cleanup catches up with everything: no receipt stays claimed for ever, though its worker
\* is lost or its Control crashed; and as long as no call of the store failed, the body and
\* the listed parts of a receipt are gone after its retention, wherever a Control crashed, and
\* only a crash leaves a part that no record lists.
CleanupCatchesUp ==
    \A i \in Receipts :
        /\ record[i].state = "assigned" ~> record[i].state # "assigned"
        /\ i \in aged ~>
            \/ faults > 0
            \/ /\ body[i] = None
               /\ \A n \in PartNos : part[i][n] # None => crashes > 0 /\ n \notin Listed(record[i])

\* An interrupted Complete can be retried: while no operation runs, the parts that a
\* verifying record lists are in the store.
UploadedPartsRemain ==
    \A i \in Receipts :
        (record[i].state = "verifying" /\ \A c \in Controls : task[c].id # i)
            => \A n \in Listed(record[i]) : part[i][n] # None

-----------------------------------------------------------------------------
(* The lifecycle policy of state_machine.go *)

\* legalTransitions.
legalTransitions ==
    [uploading |-> {"verifying", "cancelled", "expired"},
     verifying |-> {"verified", "rejected", "cancelled", "expired"},
     verified |-> {"assigned", "cancelled", "expired"},
     assigned |-> {"verified", "consumed", "expired"}]

\* canTransition, and transition's leave to stay in a state.
canTransition(from, to) ==
    \/ from = to
    \/ from \in DOMAIN legalTransitions /\ to \in legalTransitions[from]

Ended == {"consumed", "rejected", "cancelled", "expired"}

\* What the code keeps of "the single lifecycle policy", although its operations assign the
\* state without asking canTransition, on copies loaded several store calls before: a body
\* is verified, claimed and spent only out of the states that legalTransitions names, and
\* what has ended does not come back to life.
TransitionsAreLegal ==
    [][\A i \in Receipts :
         LET from == record[i].state
             to == record'[i].state IN
         /\ to \in {"verified", "assigned", "consumed"} => canTransition(from, to)
         /\ from \in Ended => to \in Ended]_vars

\* state_machine.go: legalTransitions "is the single lifecycle policy", and code "must not
\* invent" a transition.
PolicyIsTheTable ==
    [][\A i \in Receipts :
         record[i].state = "absent" \/ canTransition(record[i].state, record'[i].state)]_vars
=============================================================================
