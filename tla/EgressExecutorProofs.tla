------------------------ MODULE EgressExecutorProofs ------------------------
(***************************************************************************)
(* Proofs about EgressExecutor, for any number of concurrent requests, any *)
(* addresses and any resolver.                                             *)
(*                                                                         *)
(* A connection may have been dialled for another request, which another   *)
(* policy governs, and its transport may have left the pool since.  That   *)
(* it still leads where the request may go rests on a fact of history: a   *)
(* transport serves one key for as long as it exists.  The inductive       *)
(* invariant says so with a ledger, the keys that the transports were made *)
(* for, which need only exist.                                             *)
(***************************************************************************)
EXTENDS EgressExecutor, TLAPS

Reasons == {"none", "denied", "refused", "reset", "http_1_1_required"}

Runs == [phase : Phases, attempt : 0..1, ips : Seq(Addresses), h2 : BOOLEAN, tr : Nat,
         dial : Addresses \cup {"none"}, conn : Conns \cup {NoConn}, reused : BOOLEAN,
         sends : Nat, reason : Reasons]

WorldTypes ==
    /\ ask \in [Requests -> Asks]
    /\ pooling \in BOOLEAN /\ http2 \in BOOLEAN /\ only11 \in BOOLEAN /\ forgotten \in BOOLEAN
    /\ origin \in [h2 : BOOLEAN, insists : BOOLEAN] /\ answer \in Answers
    /\ count \in Nat

PoolTypes ==
    /\ DOMAIN pool \subseteq Keys
    /\ pool \in [DOMAIN pool -> [tr : 1..count, old : BOOLEAN]]
    /\ closing \subseteq 1..count
    /\ idle \subseteq [tr : 1..count, conn : Conns]

Types == WorldTypes /\ PoolTypes /\ run \in [Requests -> Runs]

\* An execution t that has a transport of the pool.
Uses(t) == t.tr # 0 /\ t.phase \in {"getConn", "fallback", "send", "error", "map", "body"}
KeyOf(t) == [ip |-> Head(t.ips), h2 |-> t.h2]

\* One that has a key has resolved and validated its addresses, and dials the first.
Resolved(t, r) ==
    (t.phase \in {"discard", "transport"} \/ Uses(t)) =>
        t.ips # <<>> /\ Range(t.ips) \subseteq ask[r].allowed

\* A connection in use: of the protocol its request asked for, to an address it may use.
Connected(t, r) ==
    IF t.phase \in {"fallback", "send", "body"}
    THEN /\ t.conn \in Conns /\ t.conn.ip \in ask[r].allowed
         /\ t.conn.h2 => t.h2
         /\ Uses(t) => t.conn.ip = KeyOf(t).ip
    ELSE t.conn = NoConn

\* A second attempt comes after a refusal, and does not ask for HTTP/2 again.  What net/http
\* resends by itself adds to the count of idempotent requests only.
Retried(t, r) ==
    /\ t.reason = "http_1_1_required" => origin.insists
    /\ t.attempt = 1 => ask[r].replayable /\ origin.insists
    /\ ask[r].idempotent \/ t.sends <= t.attempt + 1
    /\ t.phase \notin {"error", "map", "body", "done", "failed"} =>
           ask[r].idempotent \/ t.sends <= t.attempt
    /\ t.attempt = 1 /\ t.phase = "key" => only11 \/ forgotten
    /\ t.attempt = 1 /\ t.phase # "key" => ~t.h2 \/ forgotten

Sound(t, r) == Resolved(t, r) /\ Connected(t, r) /\ Retried(t, r)

\* The transports of the pool, of the requests under way and of idle connections, and the
\* keys they were made for.
UsesOwn(t, made) == Uses(t) => t.tr \in 1..count /\ made[t.tr] = KeyOf(t) /\ t.dial = KeyOf(t).ip

Accounts(made) ==
    /\ \A k \in DOMAIN pool : made[pool[k].tr] = k
    /\ \A c \in idle : c.conn.ip = made[c.tr].ip /\ (c.conn.h2 => made[c.tr].h2)
    /\ \A r \in Requests : UsesOwn(run[r], made)

Ledger == \E made \in [1..count -> Keys] : Accounts(made)

IInv == Types /\ Ledger /\ \A r \in Requests : Sound(run[r], r)

-----------------------------------------------------------------------------
(* What a step of one execution leaves alone.                              *)

LEMMA RunsOf ==
    ASSUME Types, NEW r \in Requests, NEW new \in Runs, Becomes(r, new)
    PROVE  /\ run' \in [Requests -> Runs] /\ run'[r] = new
           /\ \A q \in Requests \ {r} : run'[q] = run[q]
BY Zenon DEF Types, Becomes

\* The others are as sound as they were; the one that moved must be.
LEMMA SoundKept ==
    ASSUME IInv, NEW r \in Requests, NEW new \in Runs, Becomes(r, new),
           UNCHANGED inputs, only11 => only11', forgotten => forgotten', Sound(new, r)'
    PROVE  \A q \in Requests : Sound(run[q], q)'
<1>0. run'[r] = new /\ \A q \in Requests \ {r} : run'[q] = run[q]
  BY Zenon, RunsOf DEF IInv
<1> SUFFICES ASSUME NEW q \in Requests PROVE Sound(run[q], q)'
  BY Zenon
<1>1. CASE q = r
  <2>1. run'[q] = new
    BY Zenon, <1>0, <1>1
  <2> QED BY Zenon, <1>1, <2>1 DEF Sound, Resolved, Connected, Retried, Uses, KeyOf
<1>2. CASE q # r
  <2>1. run'[q] = run[q] /\ Sound(run[q], q) /\ ask' = ask /\ origin' = origin
    BY Zenon, <1>0, <1>2 DEF IInv, inputs
  <2>2. Resolved(run[q], q)'
    BY Zenon, <2>1 DEF Sound, Resolved, Uses
  <2>3. Connected(run[q], q)'
    BY Zenon, <2>1 DEF Sound, Connected, Uses, KeyOf
  <2>4. Retried(run[q], q)'
    BY Zenon, <2>1 DEF Sound, Retried
  <2> QED BY Zenon, <2>2, <2>3, <2>4 DEF Sound
<1> QED BY Zenon, <1>1, <1>2

\* Transports leave the pool and connections are closed; none is made.
Shrinks ==
    /\ count' = count /\ closing' \subseteq 1..count /\ idle' \subseteq idle
    /\ DOMAIN pool' \subseteq DOMAIN pool /\ pool' = [k \in DOMAIN pool' |-> pool'[k]]
    /\ \A k \in DOMAIN pool' : pool'[k] \in [tr : 1..count, old : BOOLEAN] /\ pool'[k].tr = pool[k].tr

LEMMA PoolKept ==
    ASSUME Types, Shrinks
    PROVE  PoolTypes'
BY Zenon DEF Types, PoolTypes, Shrinks

LEMMA LedgerKept ==
    ASSUME Types, Shrinks, NEW made \in [1..count -> Keys], Accounts(made),
           NEW r \in Requests, NEW new \in Runs, Becomes(r, new), UsesOwn(new, made)
    PROVE  Ledger'
<1>0. run'[r] = new /\ \A q \in Requests \ {r} : run'[q] = run[q]
  BY Zenon, RunsOf
<1>1. \A k \in DOMAIN pool' : made[pool'[k].tr] = k
  BY Zenon DEF Accounts, Shrinks
<1>2. \A c \in idle' : c.conn.ip = made[c.tr].ip /\ (c.conn.h2 => made[c.tr].h2)
  BY Zenon DEF Accounts, Shrinks
<1>3. \A q \in Requests : UsesOwn(run[q], made)'
  <2> SUFFICES ASSUME NEW q \in Requests PROVE UsesOwn(run[q], made)'
    BY Zenon
  <2>1. UsesOwn(run'[q], made)
    BY Zenon, <1>0 DEF Accounts
  <2> QED BY Zenon, <2>1 DEF Shrinks, UsesOwn, Uses, KeyOf
<1>4. Accounts(made)'
  BY Zenon, <1>1, <1>2, <1>3 DEF Accounts
<1>5. made \in [1..count' -> Keys]
  BY Zenon DEF Shrinks
<1> QED BY Zenon, <1>4, <1>5 DEF Ledger

LEMMA NothingShrinks ==
    ASSUME Types, UNCHANGED <<pool, idle, count>>, closing' \subseteq 1..count
    PROVE  Shrinks
BY Zenon DEF Types, PoolTypes, Shrinks

\* CloseIdleConnections of transports whose keys leave the pool.
LEMMA EvictionShrinks ==
    ASSUME Types, NEW gone, count' = count,
           pool' = [k \in DOMAIN pool \ gone |-> pool[k]],
           CloseIdleConnections({pool[k].tr : k \in gone \cap DOMAIN pool})
    PROVE  Shrinks
<1>1. {pool[k].tr : k \in gone \cap DOMAIN pool} \subseteq 1..count
  BY Zenon DEF Types, PoolTypes
<1>2. closing' \subseteq 1..count /\ idle' \subseteq idle
  BY Zenon, <1>1 DEF CloseIdleConnections, Types, PoolTypes
<1> QED BY Zenon, <1>2 DEF Types, PoolTypes, Shrinks

\* A step of one execution that makes no transport.
LEMMA StepKeeps ==
    ASSUME IInv, Shrinks, NEW made \in [1..count -> Keys], Accounts(made),
           NEW r \in Requests, NEW new \in Runs, Becomes(r, new), UsesOwn(new, made),
           UNCHANGED world, only11 => only11', only11' \in BOOLEAN, Sound(new, r)'
    PROVE  IInv'
<1>1. WorldTypes'
  BY Zenon DEF IInv, Types, WorldTypes, world, inputs, Shrinks
<1>2. PoolTypes' /\ run' \in [Requests -> Runs] /\ Ledger'
  BY Zenon, PoolKept, RunsOf, LedgerKept DEF IInv
<1>3. \A q \in Requests : Sound(run[q], q)'
  BY Zenon, SoundKept DEF world
<1> QED BY Zenon, <1>1, <1>2, <1>3 DEF IInv, Types

-----------------------------------------------------------------------------
(* The actions.                                                            *)

LEMMA PoolKeyKeeps ==
    ASSUME IInv, NEW r \in Requests, poolKey(r)
    PROVE  IInv'
<1> DEFINE t == run[r]
<1>0. t \in Runs /\ Sound(t, r) /\ Types /\ t.phase = "key"
  BY Zenon DEF IInv, Types, poolKey
<1>1. PICK made \in [1..count -> Keys] : Accounts(made)
  BY Zenon DEF IInv, Ledger
<1>2. UNCHANGED <<world, only11, pool, idle, count, closing>>
  BY Zenon DEF poolKey
<1>3. Shrinks /\ only11' \in BOOLEAN
  BY Zenon, <1>0, <1>2, NothingShrinks DEF Types, PoolTypes, WorldTypes
<1>4. ASSUME NEW new \in Runs, Becomes(r, new), UsesOwn(new, made), Sound(new, r)'
      PROVE  IInv'
  BY Zenon, <1>1, <1>2, <1>3, <1>4, StepKeeps
<1>5. only11 \/ forgotten \/ t.attempt = 0
  BY <1>0 DEF Sound, Retried, Runs
<1>6. t.conn = NoConn /\ (ask[r].idempotent \/ t.sends <= t.attempt) /\ ask' = ask /\ origin' = origin /\ forgotten' = forgotten
  BY Zenon, <1>0, <1>2 DEF Sound, Connected, Retried, world, inputs
<1>a. CASE pooling /\ validatedIPs(r)
  <2>n. PICK new : new = [t EXCEPT !.phase = "discard", !.ips = answer, !.h2 = useHTTP2]
    BY Zenon
  <2>1. answer \in Seq(Addresses) /\ answer # <<>> /\ useHTTP2 \in BOOLEAN
    BY Zenon, <1>0, AnswersAssumption DEF Types, WorldTypes, useHTTP2
  <2>2. new \in Runs /\ new.phase = "discard" /\ new.ips = answer /\ new.h2 = useHTTP2
        /\ new.attempt = t.attempt /\ new.conn = t.conn /\ new.sends = t.sends /\ new.reason = t.reason
    BY Zenon, <1>0, <2>1, <2>n DEF Runs, Phases
  <2>3. Becomes(r, new)
    BY Zenon, <1>a, <2>n DEF poolKey
  <2>4. UsesOwn(new, made)
    BY Zenon, <2>2 DEF UsesOwn, Uses
  <2>5. Resolved(new, r)' /\ Connected(new, r)'
    BY Zenon, <1>6, <1>a, <2>1, <2>2 DEF Resolved, Connected, validatedIPs
  <2>6. Retried(new, r)'
    BY Zenon, <1>0, <1>5, <1>6, <2>2 DEF Sound, Retried, useHTTP2
  <2> QED BY Zenon, <1>4, <2>2, <2>3, <2>4, <2>5, <2>6 DEF Sound
<1>b. CASE ~(pooling /\ validatedIPs(r))
  <2>n. PICK new : new = [t EXCEPT !.phase = "getConn", !.ips = <<>>, !.h2 = useHTTP2, !.tr = 0]
    BY Zenon
  <2>1. useHTTP2 \in BOOLEAN /\ <<>> \in Seq(Addresses)
    BY <1>0 DEF Types, WorldTypes, useHTTP2
  <2>2. new \in Runs /\ new.phase = "getConn" /\ new.tr = 0 /\ new.h2 = useHTTP2
        /\ new.attempt = t.attempt /\ new.conn = t.conn /\ new.sends = t.sends /\ new.reason = t.reason
    BY Zenon, <1>0, <2>1, <2>n DEF Runs, Phases
  <2>3. Becomes(r, new)
    BY Zenon, <1>b, <2>n DEF poolKey
  <2>4. UsesOwn(new, made)
    BY Zenon, <2>2 DEF UsesOwn, Uses
  <2>5. Resolved(new, r)' /\ Connected(new, r)'
    BY Zenon, <1>6, <2>2 DEF Resolved, Connected, Uses
  <2>6. Retried(new, r)'
    BY Zenon, <1>0, <1>5, <1>6, <2>2 DEF Sound, Retried, useHTTP2
  <2> QED BY Zenon, <1>4, <2>2, <2>3, <2>4, <2>5, <2>6 DEF Sound
<1> QED BY Zenon, <1>a, <1>b

\* Only the phase changes, to one that asks for no more than the one before.
LEMMA PhaseKeeps ==
    ASSUME IInv, Shrinks, NEW r \in Requests, NEW phase \in Phases,
           Becomes(r, [run[r] EXCEPT !.phase = phase]), UNCHANGED world, UNCHANGED only11,
           <<run[r].phase, phase>> \in {<<"discard", "transport">>, <<"fallback", "send">>,
                                        <<"error", "map">>}
    PROVE  IInv'
<1> DEFINE t == run[r]
<1>n. PICK new : new = [t EXCEPT !.phase = phase]
  BY Zenon
<1>0. t \in Runs /\ Sound(t, r) /\ only11' \in BOOLEAN
  BY Zenon DEF IInv, Types, WorldTypes
<1>1. PICK made \in [1..count -> Keys] : Accounts(made)
  BY Zenon DEF IInv, Ledger
<1>2. new \in Runs /\ new.phase = phase /\ new.ips = t.ips /\ new.h2 = t.h2 /\ new.tr = t.tr
      /\ new.dial = t.dial
      /\ new.attempt = t.attempt /\ new.conn = t.conn /\ new.sends = t.sends /\ new.reason = t.reason
  BY Zenon, <1>0, <1>n DEF Runs
<1>3. UsesOwn(new, made)
  BY Zenon, <1>1, <1>2 DEF Accounts, UsesOwn, Uses, KeyOf
<1>4. ask' = ask /\ origin' = origin /\ forgotten' = forgotten
  BY Zenon DEF world, inputs
<1>5. Resolved(new, r)' /\ Connected(new, r)'
  BY Zenon, <1>0, <1>2, <1>4 DEF Sound, Resolved, Connected, Uses, KeyOf
<1>6. Retried(new, r)'
  BY Zenon, <1>0, <1>2, <1>4 DEF Sound, Retried
<1>7. Becomes(r, new)
  BY Zenon, <1>n
<1> QED BY Zenon, <1>0, <1>1, <1>2, <1>3, <1>5, <1>6, <1>7, StepKeeps DEF Sound

LEMMA DiscardKeeps ==
    ASSUME IInv, NEW r \in Requests, discardStale(r)
    PROVE  IInv'
<1> DEFINE stale == {k \in DOMAIN pool : k.h2 = run[r].h2 /\ k.ip \notin Range(run[r].ips)}
<1>1. stale \cap DOMAIN pool = stale
  BY Zenon
<1>2. pool' = [k \in DOMAIN pool \ stale |-> pool[k]] /\ count' = count
      /\ CloseIdleConnections({pool[k].tr : k \in stale})
  BY Zenon DEF discardStale
<1> HIDE DEF stale
<1>3. Shrinks
  BY Zenon, <1>1, <1>2, EvictionShrinks DEF IInv
<1>4. "transport" \in Phases /\ run[r].phase = "discard"
  BY Zenon DEF Phases, discardStale
<1> QED BY Zenon, <1>3, <1>4, PhaseKeeps DEF discardStale

LEMMA EvictKeeps ==
    ASSUME IInv, NEW r \in Requests, onFallback(r) \/ evictOnError(r)
    PROVE  IInv'
<1>1. ASSUME NEW k, evict(k), count' = count PROVE Shrinks
  <2>1. pool' = [q \in DOMAIN pool \ {k} |-> pool[q]]
        /\ CloseIdleConnections({pool[q].tr : q \in {k} \cap DOMAIN pool})
    BY Zenon, <1>1 DEF evict
  <2> QED BY Zenon, <1>1, <2>1, EvictionShrinks DEF IInv
<1>2. Shrinks
  BY Zenon, <1>1, NothingShrinks DEF onFallback, evictOnError, IInv, Types, PoolTypes
<1>3. "send" \in Phases /\ "map" \in Phases
  BY Zenon DEF Phases
<1> QED BY Zenon, <1>2, <1>3, PhaseKeeps DEF onFallback, evictOnError

LEMMA ShareKeeps ==
    ASSUME IInv, NEW r \in Requests, run[r].phase = "transport", Key(r) \in DOMAIN pool,
           Share(r, Key(r)), UNCHANGED <<world, only11>>
    PROVE  IInv'
<1> DEFINE t == run[r]
<1>k. PICK k : k = Key(r)
  BY Zenon
<1>0. t \in Runs /\ Sound(t, r) /\ Types /\ only11' \in BOOLEAN /\ k \in Keys
      /\ pool[k].tr \in 1..count
  BY Zenon, <1>k DEF IInv, Types, WorldTypes, PoolTypes
<1>1. PICK made \in [1..count -> Keys] : Accounts(made)
  BY Zenon DEF IInv, Ledger
<1>n. PICK new : new = [t EXCEPT !.phase = "getConn", !.tr = pool[k].tr, !.dial = k.ip]
  BY Zenon
<1>2. new \in Runs /\ new.phase = "getConn" /\ new.ips = t.ips /\ new.h2 = t.h2 /\ new.tr = pool[k].tr
      /\ new.dial = k.ip
      /\ new.attempt = t.attempt /\ new.conn = t.conn /\ new.sends = t.sends /\ new.reason = t.reason
  <2>1. pool[k].tr \in Nat /\ k.ip \in Addresses \cup {"none"} /\ "getConn" \in Phases
    BY <1>0 DEF Types, WorldTypes, Keys, Phases
  <2> QED BY Zenon, <1>0, <1>n, <2>1 DEF Runs
<1>3. UsesOwn(new, made)
  BY <1>0, <1>1, <1>2, <1>k DEF Accounts, UsesOwn, KeyOf, Key
<1>4. ask' = ask /\ origin' = origin /\ forgotten' = forgotten
  BY Zenon DEF world, inputs
<1>5. Resolved(new, r)' /\ Connected(new, r)'
  BY Zenon, <1>0, <1>2, <1>4 DEF Sound, Resolved, Connected, Uses, KeyOf
<1>6. Retried(new, r)'
  BY Zenon, <1>0, <1>2, <1>4 DEF Sound, Retried
<1>7. Becomes(r, new)
  BY Zenon, <1>k, <1>n DEF Share
<1>8. Shrinks
  BY Zenon, <1>0, NothingShrinks DEF Share, Types, PoolTypes
<1> QED BY Zenon, <1>0, <1>1, <1>2, <1>3, <1>5, <1>6, <1>7, <1>8, StepKeeps DEF Sound

\* A transport is made: the ledger has one more line.
LEMMA MakeKeeps ==
    ASSUME IInv, NEW r \in Requests, run[r].phase = "transport", Make(r),
           UNCHANGED <<world, only11>>
    PROVE  IInv'
<1> DEFINE t == run[r]
<1>k. PICK k : k = Key(r)
  BY Zenon
<1>0. t \in Runs /\ Sound(t, r) /\ Types /\ count \in Nat
  BY Zenon DEF IInv, Types, WorldTypes
<1>1. PICK made \in [1..count -> Keys] : Accounts(made)
  BY Zenon DEF IInv, Ledger
<1>2. k = KeyOf(t) /\ t.ips \in Seq(Addresses) /\ t.ips # <<>>
  BY Zenon, <1>0, <1>k DEF Key, KeyOf, Sound, Resolved, Runs
<1>3. k \in Keys /\ k.ip \in Addresses
  <2>1. Head(t.ips) \in Addresses
    BY <1>2
  <2> QED BY Zenon, <1>0, <1>2, <2>1 DEF KeyOf, Keys, Runs
<1>n. PICK new : new = [t EXCEPT !.phase = "getConn", !.tr = count + 1, !.dial = k.ip]
  BY Zenon
<1>4. new \in Runs /\ new.phase = "getConn" /\ new.ips = t.ips /\ new.h2 = t.h2 /\ new.tr = count + 1
      /\ new.dial = k.ip
      /\ new.attempt = t.attempt /\ new.conn = t.conn /\ new.sends = t.sends /\ new.reason = t.reason
  <2>1. count + 1 \in Nat /\ k.ip \in Addresses \cup {"none"} /\ "getConn" \in Phases
    BY <1>0, <1>3 DEF Phases
  <2> QED BY Zenon, <1>0, <1>n, <2>1 DEF Runs
<1>5. Becomes(r, new) /\ count' = count + 1
  BY Zenon, <1>k, <1>n DEF Make
<1>6. ask' = ask /\ origin' = origin /\ forgotten' = forgotten
  BY Zenon DEF world, inputs
<1>7. Sound(new, r)'
  <2>1. Resolved(new, r)' /\ Connected(new, r)'
    BY Zenon, <1>0, <1>4, <1>6 DEF Sound, Resolved, Connected, Uses, KeyOf
  <2>2. Retried(new, r)'
    BY Zenon, <1>0, <1>4, <1>6 DEF Sound, Retried
  <2> QED BY Zenon, <2>1, <2>2 DEF Sound
<1>8. \A q \in Requests : Sound(run[q], q)'
  BY Zenon, <1>4, <1>5, <1>7, SoundKept DEF world
<1>9. WorldTypes' /\ run' \in [Requests -> Runs]
  BY <1>0, <1>4, <1>5, RunsOf DEF Types, WorldTypes, world, inputs
<1>10. /\ pool' = [j \in DOMAIN pool \cup {k} |->
                      IF j = k THEN [tr |-> count + 1, old |-> FALSE] ELSE pool[j]]
       /\ closing' \subseteq 1..count /\ idle' \subseteq idle
  <2>1. {pool[j].tr : j \in {k} \cap DOMAIN pool} \subseteq 1..count
    BY Zenon, <1>0 DEF Types, PoolTypes
  <2> QED BY Zenon, <1>0, <1>k, <2>1 DEF Make, CloseIdleConnections, Types, PoolTypes
<1>11. 1..count \subseteq 1..count' /\ count + 1 \in 1..count'
  BY <1>0, <1>5
<1>12. PoolTypes'
  <2>1. DOMAIN pool' \subseteq Keys /\ pool' \in [DOMAIN pool' -> [tr : 1..count', old : BOOLEAN]]
    BY Zenon, <1>0, <1>3, <1>10, <1>11 DEF Types, PoolTypes
  <2>2. closing' \subseteq 1..count' /\ idle' \subseteq [tr : 1..count', conn : Conns]
    BY Zenon, <1>0, <1>10, <1>11 DEF Types, PoolTypes
  <2> QED BY Zenon, <2>1, <2>2 DEF PoolTypes
<1>13. Ledger'
  <2>m. PICK more : more = [s \in 1..(count + 1) |-> IF s = count + 1 THEN k ELSE made[s]]
    BY Zenon
  <2>1. more \in [1..count' -> Keys] /\ more[count + 1] = k
        /\ \A s \in 1..count : more[s] = made[s]
    BY <1>0, <1>3, <1>5, <2>m
  <2>2. \A j \in DOMAIN pool' : more[pool'[j].tr] = j
    BY Zenon, <1>0, <1>1, <1>10, <2>1 DEF Accounts, Types, PoolTypes
  <2>3. \A c \in idle' : c.conn.ip = more[c.tr].ip /\ (c.conn.h2 => more[c.tr].h2)
    BY Zenon, <1>0, <1>1, <1>10, <2>1 DEF Accounts, Types, PoolTypes
  <2>4. \A q \in Requests : UsesOwn(run[q], more)'
    <3> SUFFICES ASSUME NEW q \in Requests PROVE UsesOwn(run[q], more)'
      BY Zenon
    <3>1. run'[q] = new \/ run'[q] = run[q]
      BY Zenon, <1>0, <1>4, <1>5, RunsOf
    <3>2. CASE run'[q] = new
      BY Zenon, <1>2, <1>4, <1>11, <2>1, <3>2 DEF UsesOwn, KeyOf
    <3>3. CASE run'[q] = run[q]
      <4>1. UsesOwn(run[q], made)
        BY Zenon, <1>1 DEF Accounts
      <4> QED BY Zenon, <1>11, <2>1, <3>3, <4>1 DEF UsesOwn, Uses, KeyOf
    <3> QED BY Zenon, <3>1, <3>2, <3>3
  <2>5. Accounts(more)'
    BY Zenon, <2>2, <2>3, <2>4 DEF Accounts
  <2> QED BY Zenon, <2>1, <2>5 DEF Ledger
<1> QED BY Zenon, <1>8, <1>9, <1>12, <1>13 DEF IInv, Types

LEMMA TransportKeeps ==
    ASSUME IInv, NEW r \in Requests, transport(r)
    PROVE  IInv'
BY Zenon, ShareKeeps, MakeKeeps DEF transport

\* An execution gets a connection.
LEMMA ConnectionKeeps ==
    ASSUME IInv, Shrinks, NEW r \in Requests, run[r].phase = "getConn",
           NEW conn \in Conns, NEW phase \in {"send", "fallback"}, NEW reused \in BOOLEAN,
           conn.ip \in ask[r].allowed, conn.h2 => run[r].h2,
           Uses(run[r]) => conn.ip = KeyOf(run[r]).ip,
           Becomes(r, [run[r] EXCEPT !.phase = phase, !.conn = conn, !.reused = reused]),
           UNCHANGED world, only11 => only11', only11' \in BOOLEAN
    PROVE  IInv'
<1> DEFINE t == run[r]
<1>0. t \in Runs /\ Sound(t, r)
  BY Zenon DEF IInv, Types
<1>1. PICK made \in [1..count -> Keys] : Accounts(made)
  BY Zenon DEF IInv, Ledger
<1>n. PICK new : new = [t EXCEPT !.phase = phase, !.conn = conn, !.reused = reused]
  BY Zenon
<1>2. new \in Runs /\ new.phase = phase /\ new.ips = t.ips /\ new.h2 = t.h2 /\ new.tr = t.tr
      /\ new.dial = t.dial
      /\ new.attempt = t.attempt /\ new.conn = conn /\ new.sends = t.sends /\ new.reason = t.reason
  BY Zenon, <1>0, <1>n DEF Runs, Phases
<1>3. UsesOwn(new, made)
  BY Zenon, <1>1, <1>2 DEF Accounts, UsesOwn, Uses, KeyOf
<1>4. ask' = ask /\ origin' = origin /\ forgotten' = forgotten
  BY Zenon DEF world, inputs
<1>5. Resolved(new, r)' /\ Connected(new, r)'
  BY Zenon, <1>0, <1>2, <1>4 DEF Sound, Resolved, Connected, Uses, KeyOf
<1>6. Retried(new, r)'
  BY Zenon, <1>0, <1>2, <1>4 DEF Sound, Retried
<1> QED BY Zenon, <1>1, <1>2, <1>3, <1>5, <1>6, <1>n, StepKeeps DEF Sound

LEMMA TakeIdleKeeps ==
    ASSUME IInv, NEW r \in Requests, TakeIdle(r)
    PROVE  IInv'
<1> DEFINE t == run[r]
<1>0. t \in Runs /\ Sound(t, r) /\ Types /\ t.phase = "getConn" /\ t.tr # 0
  BY Zenon DEF IInv, Types, TakeIdle, Pooled
<1>1. PICK made \in [1..count -> Keys] : Accounts(made)
  BY Zenon DEF IInv, Ledger
<1>2. PICK c \in idle : /\ c.tr = t.tr /\ idle' = idle \ {c}
                        /\ Becomes(r, [t EXCEPT !.phase = "send", !.conn = c.conn, !.reused = TRUE])
  BY Zenon DEF TakeIdle
<1>3. made[t.tr] = KeyOf(t) /\ Uses(t)
  BY Zenon, <1>0, <1>1 DEF Accounts, UsesOwn, Uses
<1>4. c.conn.ip = Head(t.ips) /\ (c.conn.h2 => t.h2) /\ c.conn \in Conns
  BY <1>0, <1>1, <1>2, <1>3 DEF Accounts, KeyOf, Types, PoolTypes
<1>5. t.ips \in Seq(Addresses) /\ t.ips # <<>> /\ Range(t.ips) \subseteq ask[r].allowed
  BY Zenon, <1>0, <1>3 DEF Sound, Resolved, Runs
<1>6. Head(t.ips) \in Range(t.ips)
  BY <1>5 DEF Range
<1>7. Shrinks
  BY Zenon, <1>0, <1>2 DEF TakeIdle, Shrinks, Types, PoolTypes
<1>8. UNCHANGED world /\ only11' = only11 /\ only11 \in BOOLEAN
  BY Zenon, <1>0 DEF TakeIdle, Types, WorldTypes
<1> QED BY Zenon, <1>0, <1>2, <1>4, <1>5, <1>6, <1>7, <1>8, ConnectionKeeps DEF KeyOf

LEMMA DialledKeeps ==
    ASSUME IInv, Shrinks, NEW r \in Requests, run[r].phase = "getConn", UNCHANGED world,
           NEW ip \in Addresses, ip \in ask[r].allowed,
           Uses(run[r]) => ip = KeyOf(run[r]).ip, Dialled(r, ip)
    PROVE  IInv'
<1>h. PICK h2 : h2 = (run[r].h2 /\ origin.h2)
  BY Zenon
<1>0. h2 \in BOOLEAN /\ only11 \in BOOLEAN /\ run[r].h2 \in BOOLEAN
  BY Zenon, <1>h DEF IInv, Types, WorldTypes, Runs
<1>1. [ip |-> ip, h2 |-> h2] \in Conns
  BY Zenon, <1>0 DEF Conns
<1>2. only11' = (only11 \/ (run[r].h2 /\ ~h2))
  BY Zenon, <1>h DEF Dialled
<1>3. PICK phase \in {"send", "fallback"} :
        Becomes(r, [run[r] EXCEPT !.phase = phase, !.conn = [ip |-> ip, h2 |-> h2], !.reused = FALSE])
  BY Zenon, <1>h DEF Dialled
<1> QED BY Zenon, <1>0, <1>1, <1>2, <1>3, <1>h, ConnectionKeeps

LEMMA DialKeeps ==
    ASSUME IInv, NEW r \in Requests, Dial(r)
    PROVE  IInv'
<1> DEFINE t == run[r]
<1>0. t \in Runs /\ Sound(t, r) /\ Types /\ t.phase = "getConn" /\ t.tr # 0
  BY Zenon DEF IInv, Types, Dial, Pooled
<1>1. PICK made \in [1..count -> Keys] : Accounts(made)
  BY Zenon DEF IInv, Ledger
<1>2. Uses(t) /\ t.dial = Head(t.ips)
  BY Zenon, <1>0, <1>1 DEF Accounts, UsesOwn, Uses, KeyOf
<1>3. t.ips \in Seq(Addresses) /\ t.ips # <<>> /\ Range(t.ips) \subseteq ask[r].allowed
  BY Zenon, <1>0, <1>2 DEF Sound, Resolved, Runs
<1>4. Head(t.ips) \in Range(t.ips) /\ Head(t.ips) \in Addresses
  BY <1>3 DEF Range
<1>5. Shrinks
  BY Zenon, <1>0, NothingShrinks DEF Dial, Types, PoolTypes
<1> QED BY Zenon, <1>0, <1>2, <1>3, <1>4, <1>5, DialledKeeps DEF Dial, KeyOf

\* An attempt fails, or ends: no connection is left.
LEMMA FailureKeeps ==
    ASSUME IInv, Shrinks, NEW r \in Requests, run[r].phase \in {"getConn", "send"},
           NEW reason \in Reasons, reason = "http_1_1_required" => origin.insists,
           NEW sends \in Nat, ask[r].idempotent \/ sends <= run[r].attempt + 1,
           Becomes(r, [run[r] EXCEPT !.phase = "error", !.conn = NoConn, !.sends = sends,
                                     !.reason = reason]),
           UNCHANGED world, UNCHANGED only11
    PROVE  IInv'
<1> DEFINE t == run[r]
<1>0. t \in Runs /\ Sound(t, r) /\ only11' \in BOOLEAN
  BY Zenon DEF IInv, Types, WorldTypes
<1>1. PICK made \in [1..count -> Keys] : Accounts(made)
  BY Zenon DEF IInv, Ledger
<1>n. PICK new : new = [t EXCEPT !.phase = "error", !.conn = NoConn, !.sends = sends, !.reason = reason]
  BY Zenon
<1>2. new \in Runs /\ new.phase = "error" /\ new.ips = t.ips /\ new.h2 = t.h2 /\ new.tr = t.tr
      /\ new.dial = t.dial
      /\ new.attempt = t.attempt /\ new.conn = NoConn /\ new.sends = sends /\ new.reason = reason
  <2>1. "error" \in Phases /\ NoConn \in Conns \cup {NoConn}
    BY Zenon DEF Phases
  <2> QED BY Zenon, <1>0, <1>n, <2>1 DEF Runs
<1>3. UsesOwn(new, made)
  BY Zenon, <1>1, <1>2 DEF Accounts, UsesOwn, Uses, KeyOf
<1>4. ask' = ask /\ origin' = origin /\ forgotten' = forgotten
  BY Zenon DEF world, inputs
<1>5. Resolved(new, r)' /\ Connected(new, r)'
  BY Zenon, <1>0, <1>2, <1>4 DEF Sound, Resolved, Connected, Uses, KeyOf
<1>6. Retried(new, r)'
  BY Zenon, <1>0, <1>2, <1>4 DEF Sound, Retried
<1> QED BY Zenon, <1>0, <1>1, <1>2, <1>3, <1>5, <1>6, <1>n, StepKeeps DEF Sound

\* Without a connection and without sending.
LEMMA NotConnected ==
    ASSUME IInv, NEW r \in Requests, run[r].phase = "getConn", NEW reason
    PROVE  /\ run[r].sends \in Nat /\ (ask[r].idempotent \/ run[r].sends <= run[r].attempt + 1)
           /\ [run[r] EXCEPT !.phase = "error", !.reason = reason]
                = [run[r] EXCEPT !.phase = "error", !.conn = NoConn, !.sends = run[r].sends,
                                 !.reason = reason]
<1>1. run[r] \in Runs /\ Sound(run[r], r)
  BY Zenon DEF IInv, Types
<1>2. run[r].conn = NoConn
  BY Zenon, <1>1 DEF Sound, Connected
<1>3. run[r].sends \in Nat /\ (ask[r].idempotent \/ run[r].sends <= run[r].attempt + 1)
  BY Zenon, <1>1 DEF Sound, Retried, Runs
<1>4. [run[r] EXCEPT !.phase = "error", !.reason = reason]
        = [run[r] EXCEPT !.phase = "error", !.conn = NoConn, !.sends = run[r].sends,
                         !.reason = reason]
  BY Zenon, <1>1, <1>2 DEF Runs
<1> QED BY Zenon, <1>3, <1>4

LEMMA DialFailsKeeps ==
    ASSUME IInv, NEW r \in Requests, DialFails(r)
    PROVE  IInv'
<1>1. run[r].phase = "getConn" /\ "refused" \in Reasons /\ UNCHANGED world /\ UNCHANGED only11
  BY Zenon DEF DialFails, Reasons
<1>2. Shrinks
  BY Zenon, NothingShrinks DEF DialFails, IInv, Types, PoolTypes
<1>3. Becomes(r, [run[r] EXCEPT !.phase = "error", !.conn = NoConn, !.sends = run[r].sends,
                               !.reason = "refused"])
  BY Zenon, <1>1, NotConnected DEF DialFails
<1>4. run[r].sends \in Nat /\ (ask[r].idempotent \/ run[r].sends <= run[r].attempt + 1)
  BY Zenon, <1>1, NotConnected
<1> QED BY Zenon, <1>1, <1>2, <1>3, <1>4, FailureKeeps

LEMMA DialValidatedKeeps ==
    ASSUME IInv, NEW r \in Requests, dialValidated(r)
    PROVE  IInv'
<1>1. run[r].phase = "getConn" /\ "denied" \in Reasons /\ UNCHANGED world
  BY Zenon DEF dialValidated, Reasons
<1>2. Shrinks
  BY Zenon, NothingShrinks DEF dialValidated, IInv, Types, PoolTypes
<1>3. CASE validatedIPs(r)
  <2>1. answer \in Seq(Addresses) /\ answer # <<>>
    BY Zenon, AnswersAssumption DEF IInv, Types, WorldTypes
  <2>2. Head(answer) \in Range(answer) /\ Head(answer) \in Addresses
    BY <2>1 DEF Range
  <2> QED BY Zenon, <1>1, <1>2, <1>3, <2>2, DialledKeeps DEF dialValidated, validatedIPs, Pooled, Uses
<1>4. CASE ~validatedIPs(r)
  <2>1. Becomes(r, [run[r] EXCEPT !.phase = "error", !.conn = NoConn, !.sends = run[r].sends,
                                 !.reason = "denied"]) /\ UNCHANGED only11
    BY Zenon, <1>1, <1>4, NotConnected DEF dialValidated
  <2>2. run[r].sends \in Nat /\ (ask[r].idempotent \/ run[r].sends <= run[r].attempt + 1)
    BY Zenon, <1>1, NotConnected
  <2> QED BY Zenon, <1>1, <1>2, <2>1, <2>2, FailureKeeps
<1> QED BY Zenon, <1>3, <1>4

\* net/http lets the connection go and asks for another.
LEMMA AgainKeeps ==
    ASSUME IInv, Shrinks, NEW r \in Requests, run[r].phase = "send",
           NEW sends \in Nat, ask[r].idempotent \/ sends <= run[r].attempt,
           Again(r, sends), UNCHANGED world, UNCHANGED only11
    PROVE  IInv'
<1> DEFINE t == run[r]
<1>0. t \in Runs /\ Sound(t, r) /\ only11' \in BOOLEAN
  BY Zenon DEF IInv, Types, WorldTypes
<1>1. PICK made \in [1..count -> Keys] : Accounts(made)
  BY Zenon DEF IInv, Ledger
<1>n. PICK new : new = [t EXCEPT !.phase = "getConn", !.conn = NoConn, !.sends = sends]
  BY Zenon
<1>2. new \in Runs /\ new.phase = "getConn" /\ new.ips = t.ips /\ new.h2 = t.h2 /\ new.tr = t.tr
      /\ new.dial = t.dial
      /\ new.attempt = t.attempt /\ new.conn = NoConn /\ new.sends = sends /\ new.reason = t.reason
  <2>1. "getConn" \in Phases /\ NoConn \in Conns \cup {NoConn}
    BY Zenon DEF Phases
  <2> QED BY Zenon, <1>0, <1>n, <2>1 DEF Runs
<1>3. UsesOwn(new, made)
  BY Zenon, <1>1, <1>2 DEF Accounts, UsesOwn, Uses, KeyOf
<1>4. ask' = ask /\ origin' = origin /\ forgotten' = forgotten
  BY Zenon DEF world, inputs
<1>5. Resolved(new, r)' /\ Connected(new, r)'
  BY Zenon, <1>0, <1>2, <1>4 DEF Sound, Resolved, Connected, Uses, KeyOf
<1>6. Retried(new, r)'
  <2>1. ask[r].idempotent \/ sends <= t.attempt + 1
    BY <1>0 DEF Runs
  <2> QED BY Zenon, <1>0, <1>2, <1>4, <2>1 DEF Sound, Retried
<1>7. Becomes(r, new)
  BY Zenon, <1>n DEF Again
<1> QED BY Zenon, <1>0, <1>1, <1>2, <1>3, <1>5, <1>6, <1>7, StepKeeps DEF Sound

LEMMA SendKeeps ==
    ASSUME IInv, NEW r \in Requests, Send(r)
    PROVE  IInv'
<1> DEFINE t == run[r]
           refused == t.conn.h2 /\ origin.insists
<1>0. t \in Runs /\ Sound(t, r) /\ Types /\ t.phase = "send" /\ only11' \in BOOLEAN
      /\ UNCHANGED <<world, only11>>
  BY Zenon DEF IInv, Types, WorldTypes, Send
<1>1. PICK made \in [1..count -> Keys] : Accounts(made)
  BY Zenon DEF IInv, Ledger
<1>2. Shrinks
  BY Zenon, NothingShrinks DEF Send, IInv, Types, PoolTypes
<1>3. /\ t.sends \in Nat /\ (ask[r].idempotent \/ t.sends <= t.attempt)
      /\ t.sends + 1 \in Nat /\ (ask[r].idempotent \/ t.sends + 1 <= t.attempt + 1)
  BY <1>0 DEF Sound, Retried, Runs
<1>a. CASE Becomes(r, [t EXCEPT !.phase = "body", !.sends = @ + 1])
  <2>n. PICK new : new = [t EXCEPT !.phase = "body", !.sends = t.sends + 1]
    BY Zenon
  <2>1. new \in Runs /\ new.phase = "body" /\ new.ips = t.ips /\ new.h2 = t.h2 /\ new.tr = t.tr
        /\ new.dial = t.dial /\ new.attempt = t.attempt /\ new.conn = t.conn
        /\ new.sends = t.sends + 1 /\ new.reason = t.reason
    <3>1. "body" \in Phases
      BY Zenon DEF Phases
    <3> QED BY Zenon, <1>0, <1>3, <2>n, <3>1 DEF Runs
  <2>2. UsesOwn(new, made)
    BY Zenon, <1>0, <1>1, <2>1 DEF Accounts, UsesOwn, Uses, KeyOf
  <2>3. ask' = ask /\ origin' = origin /\ forgotten' = forgotten
    BY Zenon, <1>0 DEF world, inputs
  <2>4. Resolved(new, r)' /\ Connected(new, r)'
    BY Zenon, <1>0, <2>1, <2>3 DEF Sound, Resolved, Connected, Uses, KeyOf
  <2>5. Retried(new, r)'
    BY Zenon, <1>0, <1>3, <2>1, <2>3 DEF Sound, Retried
  <2>6. Becomes(r, new)
    BY Zenon, <1>a, <2>n
  <2> QED BY Zenon, <1>0, <1>1, <1>2, <2>1, <2>2, <2>4, <2>5, <2>6, StepKeeps DEF Sound
<1>b. CASE Becomes(r, [t EXCEPT !.phase = "error", !.conn = NoConn, !.sends = @ + 1,
                                !.reason = IF refused THEN "http_1_1_required" ELSE "reset"])
  <2>1. PICK reason \in Reasons :
          /\ reason = "http_1_1_required" => origin.insists
          /\ Becomes(r, [t EXCEPT !.phase = "error", !.conn = NoConn, !.sends = t.sends + 1,
                                  !.reason = reason])
    BY Zenon, <1>b DEF Reasons
  <2> QED BY Zenon, <1>0, <1>2, <1>3, <2>1, FailureKeeps
<1>c. CASE Again(r, t.sends)
  BY Zenon, <1>0, <1>2, <1>3, <1>c, AgainKeeps
<1>d. CASE ask[r].idempotent /\ Again(r, t.sends + 1)
  BY Zenon, <1>0, <1>2, <1>3, <1>d, AgainKeeps
<1> QED BY Zenon, <1>a, <1>b, <1>c, <1>d DEF Send

LEMMA HandleKeeps ==
    ASSUME IInv, NEW r \in Requests, handleDoError(r)
    PROVE  IInv'
<1> DEFINE t == run[r]
<1>0. t \in Runs /\ Sound(t, r) /\ Types /\ t.phase = "map" /\ UNCHANGED world
      /\ only11' = (only11 \/ t.reason = "http_1_1_required")
  BY Zenon DEF IInv, Types, WorldTypes, handleDoError
<1>1. PICK made \in [1..count -> Keys] : Accounts(made)
  BY Zenon DEF IInv, Ledger
<1>2. Shrinks
  BY Zenon, NothingShrinks DEF handleDoError, IInv, Types, PoolTypes
<1>3. only11' \in BOOLEAN /\ (only11 => only11')
  BY Zenon, <1>0 DEF Types, WorldTypes
<1>4. ask' = ask /\ origin' = origin /\ forgotten' = forgotten
  BY Zenon, <1>0 DEF world, inputs
<1>5. PICK phase, attempt :
        /\ Becomes(r, [t EXCEPT !.phase = phase, !.attempt = attempt])
        /\ \/ phase = "failed" /\ attempt = t.attempt
           \/ phase = "key" /\ attempt = 1 /\ t.attempt = 0
              /\ ask[r].replayable /\ t.reason = "http_1_1_required"
  <2>1. [t EXCEPT !.phase = "failed"] = [t EXCEPT !.phase = "failed", !.attempt = t.attempt]
    BY Zenon, <1>0 DEF Runs
  <2> QED BY Zenon, <2>1 DEF handleDoError
<1>n. PICK new : new = [t EXCEPT !.phase = phase, !.attempt = attempt]
  BY Zenon
<1>6. new \in Runs /\ new.phase = phase /\ new.ips = t.ips /\ new.h2 = t.h2 /\ new.tr = t.tr
      /\ new.dial = t.dial /\ new.attempt = attempt /\ new.conn = t.conn
      /\ new.sends = t.sends /\ new.reason = t.reason
  <2>1. phase \in Phases /\ attempt \in 0..1
    BY <1>0, <1>5 DEF Phases, Runs
  <2> QED BY Zenon, <1>0, <1>n, <2>1 DEF Runs
<1>7. UsesOwn(new, made)
  BY Zenon, <1>5, <1>6 DEF UsesOwn, Uses
<1>8. Resolved(new, r)' /\ Connected(new, r)'
  BY Zenon, <1>0, <1>4, <1>5, <1>6 DEF Sound, Resolved, Connected, Uses, KeyOf
<1>9. Retried(new, r)'
  <2>1. CASE phase = "failed"
    BY Zenon, <1>0, <1>4, <1>5, <1>6, <2>1 DEF Sound, Retried
  <2>2. CASE phase = "key"
    <3>1. only11'
      BY Zenon, <1>0, <1>5, <2>2
    <3>2. (ask[r].idempotent \/ t.sends <= 1) /\ t.sends \in Nat /\ origin.insists
      BY <1>0, <1>5, <2>2 DEF Sound, Retried, Runs
    <3> QED BY <1>4, <1>5, <1>6, <2>2, <3>1, <3>2 DEF Retried
  <2> QED BY Zenon, <1>5, <2>1, <2>2
<1>10. Becomes(r, new)
  BY Zenon, <1>5, <1>n
<1> QED BY Zenon, <1>0, <1>1, <1>2, <1>3, <1>6, <1>7, <1>8, <1>9, <1>10, StepKeeps DEF Sound

\* The connection goes back to the transport that it was dialled for.
LEMMA FinishKeeps ==
    ASSUME IInv, NEW r \in Requests, Finish(r)
    PROVE  IInv'
<1> DEFINE t == run[r]
<1>0. t \in Runs /\ Sound(t, r) /\ Types /\ t.phase = "body" /\ UNCHANGED <<world, only11, pool, closing, count>>
  BY Zenon DEF IInv, Types, WorldTypes, Finish
<1>1. PICK made \in [1..count -> Keys] : Accounts(made)
  BY Zenon DEF IInv, Ledger
<1>n. PICK new : new = [t EXCEPT !.phase = "done", !.conn = NoConn]
  BY Zenon
<1>2. new \in Runs /\ new.phase = "done" /\ new.attempt = t.attempt /\ new.conn = NoConn
      /\ new.sends = t.sends /\ new.reason = t.reason /\ new.h2 = t.h2
  <2>1. "done" \in Phases /\ NoConn \in Conns \cup {NoConn}
    BY Zenon DEF Phases
  <2> QED BY Zenon, <1>0, <1>n, <2>1 DEF Runs
<1>3. Becomes(r, new)
  BY Zenon, <1>n DEF Finish
<1>4. ask' = ask /\ origin' = origin /\ forgotten' = forgotten /\ only11' = only11
  BY Zenon, <1>0 DEF world, inputs
<1>5. Resolved(new, r)' /\ Connected(new, r)'
  BY Zenon, <1>2 DEF Resolved, Connected, Uses
<1>6. Retried(new, r)'
  BY Zenon, <1>0, <1>2, <1>4 DEF Sound, Retried
<1>7. \A q \in Requests : Sound(run[q], q)'
  BY <1>0, <1>2, <1>3, <1>4, <1>5, <1>6, SoundKept DEF Sound, world
<1>8. WorldTypes' /\ run' \in [Requests -> Runs]
  BY Zenon, <1>0, <1>2, <1>3, RunsOf DEF Types, WorldTypes, world, inputs
<1>9. \A c \in idle' \ idle : /\ c \in [tr : 1..count, conn : Conns]
                             /\ c.conn.ip = made[c.tr].ip /\ (c.conn.h2 => made[c.tr].h2)
  <2> SUFFICES ASSUME NEW c \in idle' \ idle
               PROVE  /\ c \in [tr : 1..count, conn : Conns]
                      /\ c.conn.ip = made[c.tr].ip /\ (c.conn.h2 => made[c.tr].h2)
    BY Zenon
  <2>1. t.tr # 0 /\ c = [tr |-> t.tr, conn |-> t.conn]
    BY Zenon DEF Finish, Pooled
  <2>2. Uses(t)
    BY Zenon, <1>0, <2>1 DEF Uses
  <2>3. t.conn \in Conns /\ t.conn.ip = KeyOf(t).ip /\ (t.conn.h2 => t.h2)
    BY Zenon, <1>0, <2>2 DEF Sound, Connected
  <2>4. t.tr \in 1..count /\ made[t.tr] = KeyOf(t)
    BY Zenon, <1>1, <2>2 DEF Accounts, UsesOwn
  <2> QED BY <2>1, <2>3, <2>4 DEF KeyOf
<1>10. PoolTypes'
  BY Zenon, <1>0, <1>9 DEF Types, PoolTypes
<1>11. Accounts(made)'
  <2>1. \A k \in DOMAIN pool' : made[pool'[k].tr] = k
    BY Zenon, <1>0, <1>1 DEF Accounts
  <2>2. \A c \in idle' : c.conn.ip = made[c.tr].ip /\ (c.conn.h2 => made[c.tr].h2)
    BY Zenon, <1>1, <1>9 DEF Accounts
  <2>3. \A q \in Requests : UsesOwn(run[q], made)'
    <3> SUFFICES ASSUME NEW q \in Requests PROVE UsesOwn(run[q], made)'
      BY Zenon
    <3>1. UsesOwn(new, made)
      BY Zenon, <1>2 DEF UsesOwn, Uses
    <3>2. UsesOwn(run'[q], made)
      BY Zenon, <1>0, <1>1, <1>2, <1>3, <3>1, RunsOf DEF Accounts
    <3> QED BY Zenon, <1>0, <3>2 DEF UsesOwn, Uses, KeyOf
  <2> QED BY Zenon, <2>1, <2>2, <2>3 DEF Accounts
<1>12. Ledger'
  BY Zenon, <1>0, <1>11 DEF Ledger
<1> QED BY Zenon, <1>7, <1>8, <1>10, <1>12 DEF IInv, Types

\* Nothing of an execution changes.
LEMMA WorldKeeps ==
    ASSUME IInv, Resolves \/ Ages \/ Forgets \/ CloseAll \/ UNCHANGED vars
    PROVE  IInv'
<1>0. Types /\ UNCHANGED <<inputs, run, count>>
  BY Zenon DEF IInv, Resolves, Ages, Forgets, CloseAll, vars, inputs, world
<1>1. PICK made \in [1..count -> Keys] : Accounts(made)
  BY Zenon DEF IInv, Ledger
<1>2. Shrinks
  <2>1. CASE UNCHANGED <<pool, idle, closing>>
    BY Zenon, <1>0, <2>1, NothingShrinks DEF Types, PoolTypes
  <2>2. CASE Ages
    <3>1. PICK k \in DOMAIN pool :
            \/ pool' = [pool EXCEPT ![k].old = TRUE] /\ UNCHANGED idle
            \/ idle' = {c \in idle : c.tr # pool[k].tr} /\ UNCHANGED pool
      BY <2>2, Zenon DEF Ages
    <3>2. closing' = closing /\ closing \subseteq 1..count
          /\ pool \in [DOMAIN pool -> [tr : 1..count, old : BOOLEAN]]
      BY Zenon, <1>0, <2>2 DEF Ages, Types, PoolTypes
    <3>3. CASE pool' = pool /\ idle' = {c \in idle : c.tr # pool[k].tr}
      BY Zenon, <1>0, <3>1, <3>2, <3>3 DEF Shrinks
    <3>4. CASE pool' = [pool EXCEPT ![k].old = TRUE] /\ idle' = idle
      <4>1. DOMAIN pool' = DOMAIN pool /\ pool' = [q \in DOMAIN pool' |-> pool'[q]]
        BY Zenon, <3>2, <3>4
      <4>2. \A q \in DOMAIN pool' : pool'[q] \in [tr : 1..count, old : BOOLEAN]
                                    /\ pool'[q].tr = pool[q].tr
        BY Zenon, <3>2, <3>4
      <4> QED BY Zenon, <1>0, <3>2, <3>4, <4>1, <4>2 DEF Shrinks
    <3> QED BY Zenon, <3>1, <3>3, <3>4
  <2>3. CASE CloseAll
    <3>1. DOMAIN pool \cap DOMAIN pool = DOMAIN pool
      BY Zenon
    <3>2. pool' = [k \in DOMAIN pool \ DOMAIN pool |-> pool[k]]
      BY <2>3 DEF CloseAll
    <3> QED BY Zenon, <1>0, <2>3, <3>1, <3>2, EvictionShrinks DEF CloseAll
  <2> QED BY Zenon, <2>1, <2>2, <2>3 DEF Resolves, Forgets, vars
<1>3. WorldTypes'
  BY Zenon, <1>0 DEF Types, WorldTypes, inputs, Resolves, Ages, Forgets, CloseAll, vars, world
<1>4. PoolTypes' /\ run' \in [Requests -> Runs]
  BY Zenon, <1>0, <1>2, PoolKept DEF Types
<1>5. Ledger'
  <2>1. \A k \in DOMAIN pool' : made[pool'[k].tr] = k
    BY Zenon, <1>1, <1>2 DEF Accounts, Shrinks
  <2>2. \A c \in idle' : c.conn.ip = made[c.tr].ip /\ (c.conn.h2 => made[c.tr].h2)
    BY Zenon, <1>1, <1>2 DEF Accounts, Shrinks
  <2>3. \A q \in Requests : UsesOwn(run[q], made)'
    BY Zenon, <1>0, <1>1 DEF Accounts, UsesOwn, Uses, KeyOf
  <2>4. Accounts(made)'
    BY Zenon, <2>1, <2>2, <2>3 DEF Accounts
  <2> QED BY Zenon, <1>0, <2>4 DEF Ledger
<1>6. (only11 \/ forgotten => only11' \/ forgotten') /\ (forgotten => forgotten')
  BY DEF Resolves, Ages, Forgets, CloseAll, vars, world
<1>7. \A q \in Requests : Sound(run[q], q)'
  <2> SUFFICES ASSUME NEW q \in Requests PROVE Sound(run[q], q)'
    BY Zenon
  <2>1. run'[q] = run[q] /\ Sound(run[q], q) /\ ask' = ask /\ origin' = origin
    BY Zenon, <1>0 DEF IInv, inputs
  <2>2. Resolved(run[q], q)' /\ Connected(run[q], q)'
    BY Zenon, <2>1 DEF Sound, Resolved, Connected, Uses, KeyOf
  <2>3. Retried(run[q], q)'
    BY Zenon, <1>6, <2>1 DEF Sound, Retried
  <2> QED BY Zenon, <2>2, <2>3 DEF Sound
<1> QED BY Zenon, <1>3, <1>4, <1>5, <1>7 DEF IInv, Types

LEMMA InitHolds == Init => IInv
<1> SUFFICES ASSUME Init PROVE IInv
  BY Zenon
<1>n. PICK t : t = [phase |-> "key", attempt |-> 0, ips |-> <<>>, h2 |-> FALSE, tr |-> 0,
                    dial |-> "none", conn |-> NoConn, reused |-> FALSE, sends |-> 0, reason |-> "none"]
  BY Zenon
<1>1. t \in Runs
  <2>1. "key" \in Phases /\ "none" \in Reasons /\ <<>> \in Seq(Addresses)
        /\ NoConn \in Conns \cup {NoConn}
    BY DEF Phases, Reasons
  <2> QED BY <1>n, <2>1 DEF Runs
<1>2. t.phase = "key" /\ t.attempt = 0 /\ t.conn = NoConn /\ t.sends = 0 /\ t.reason = "none"
  BY Zenon, <1>n
<1>3. run = [r \in Requests |-> t]
  BY Zenon, <1>n DEF Init
<1>4. WorldTypes
  BY Zenon DEF Init, WorldTypes
<1>5. DOMAIN pool = {} /\ closing = {} /\ idle = {} /\ count = 0
  BY DEF Init
<1>6. PoolTypes
  <2>1. pool = [k \in {} |-> 0]
    BY DEF Init
  <2> QED BY Zenon, <1>5, <2>1 DEF PoolTypes
<1>7. \A r \in Requests : Sound(run[r], r)
  BY <1>2, <1>3 DEF Sound, Resolved, Connected, Retried, Uses
<1>8. Ledger
  <2>1. PICK made : made \in [1..0 -> Keys]
    <3>1. [s \in 1..0 |-> CHOOSE k \in Keys : TRUE] \in [1..0 -> Keys]
      OBVIOUS
    <3> QED BY Zenon, <3>1
  <2>2. Accounts(made)
    BY Zenon, <1>2, <1>3, <1>5 DEF Accounts, UsesOwn, Uses
  <2> QED BY Zenon, <1>5, <2>1, <2>2 DEF Ledger
<1> QED BY Zenon, <1>1, <1>3, <1>4, <1>6, <1>7, <1>8 DEF IInv, Types

LEMMA NextHolds == IInv /\ [Next]_vars => IInv'
BY Zenon, PoolKeyKeeps, DiscardKeeps, TransportKeeps, TakeIdleKeeps, DialKeeps, DialValidatedKeeps,
   DialFailsKeeps, EvictKeeps, SendKeeps, HandleKeeps, FinishKeeps, WorldKeeps DEF Next

\* validatedIPs and the pool's key: whoever dialled it, and whatever has become of the pool and
\* of the resolver's answer since, a connection leads where its request's own policy allows.
THEOREM OwnPolicy == Spec => []OwnPolicyHolds
<1>1. IInv => OwnPolicyHolds
  BY Zenon DEF IInv, Sound, Connected, OwnPolicyHolds
<1> QED BY <1>1, InitHolds, NextHolds, PTL DEF Spec

\* doRequestWithRetry, with what net/http resends by itself: a request that net/http does not
\* take for idempotent reaches the origin twice only if it is replayable and was refused over
\* HTTP/2, and never a third time; the second attempt does not meet HTTP/2 while the host's
\* cache entry lives.
THEOREM ReplayAllowed == Spec => []ReplayedAsAllowed
<1>1. ASSUME IInv PROVE ReplayedAsAllowed
  <2> SUFFICES ASSUME NEW r \in Requests
               PROVE  /\ run[r].sends > 1 /\ ~ask[r].idempotent =>
                             ask[r].replayable /\ origin.insists /\ run[r].sends = 2
                      /\ run[r].attempt = 1 /\ run[r].conn # NoConn => ~run[r].conn.h2 \/ forgotten
    BY Zenon DEF ReplayedAsAllowed
  <2>1. run[r] \in Runs /\ Sound(run[r], r)
    BY Zenon, <1>1 DEF IInv, Types
  <2>2. run[r].sends > 1 /\ ~ask[r].idempotent =>
            ask[r].replayable /\ origin.insists /\ run[r].sends = 2
    BY <2>1 DEF Sound, Retried, Runs
  <2>3. run[r].attempt = 1 /\ run[r].conn # NoConn => ~run[r].conn.h2 \/ forgotten
    BY Zenon, <2>1 DEF Sound, Retried, Connected
  <2> QED BY Zenon, <2>2, <2>3
<1> QED BY <1>1, InitHolds, NextHolds, PTL DEF Spec

\* Type correctness: in particular every pooled transport and idle connection is of the pool's
\* own making, and no execution is tried a third time.
THEOREM TypeCorrect == Spec => []TypeOK
<1>1. ASSUME IInv PROVE TypeOK
  <2>1. \A r \in Requests : run[r].phase \in Phases /\ run[r].sends \in Nat /\ run[r].attempt \in 0..1
    BY Zenon, <1>1 DEF IInv, Types, Runs
  <2> QED BY Zenon, <1>1, <2>1 DEF IInv, Types, WorldTypes, PoolTypes, TypeOK
<1> QED BY <1>1, InitHolds, NextHolds, PTL DEF Spec
=============================================================================
