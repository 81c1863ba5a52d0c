--------------------------- MODULE EgressExecutor ---------------------------
(***************************************************************************)
(* Concurrent executions of ordinary requests to one host                  *)
(* (egress/executor.go) and the connection pool they share                 *)
(* (egress/connection_pool.go): one transport per deployment, scheme,      *)
(* host, port, dialled address and protocol.  The requests agree on all of *)
(* the key but the address and the protocol.                               *)
(*                                                                         *)
(* What net/http does with a transport is external: it takes an idle       *)
(* connection or dials, sends some requests again by itself, and puts the  *)
(* connection back when the body has been read, unless                     *)
(* CloseIdleConnections came in between.                                   *)
(***************************************************************************)
EXTENDS Naturals, Sequences, Functions

CONSTANTS
    Requests,    \* executions
    Addresses,   \* what the host may resolve to
    Answers,     \* the answers of the resolver, sequences of addresses
    Asks,        \* what may be asked for: did Control mark it replayable, does net/http take
                 \* it for idempotent, and which addresses its policy allows
    MaxChanges   \* bound: new DNS answers, transports grown old, cache entries expired

ASSUME AnswersAssumption == Answers \subseteq Seq(Addresses) \ {<<>>} /\ MaxChanges \in Nat

ASSUME AsksAssumption ==
    Asks \subseteq [replayable : BOOLEAN, idempotent : BOOLEAN, allowed : SUBSET Addresses]

VARIABLES
    ask,       \* per request
    pooling,   \* is the pool enabled?
    http2,     \* is HTTP/2 enabled, and the scheme https?
    origin,    \* does the origin speak HTTP/2, and does it insist on HTTP/1.1?
    answer,    \* what the resolver answers now
    only11,    \* is there a live http11Cache entry for the host?
    forgotten, \* has an entry expired?
    pool,      \* upstreamConnectionPool.transports
    closing,   \* transports whose idle connections were told to close
    idle,      \* idle connections, by transport
    run,       \* per request: its execution
    count,     \* transports made
    changes

vars == <<ask, pooling, http2, origin, answer, only11, forgotten, pool, closing, idle, run, count, changes>>
inputs == <<ask, pooling, http2, origin>>
world == <<inputs, answer, forgotten, changes>>

Keys == [ip : Addresses, h2 : BOOLEAN]
Conns == [ip : Addresses, h2 : BOOLEAN]
NoConn == [ip |-> "none", h2 |-> FALSE]

Phases == {"key", "discard", "transport", "getConn", "fallback", "send", "error", "map",
           "body", "done", "failed"}

TypeOK ==
    /\ ask \in [Requests -> Asks]
    /\ pooling \in BOOLEAN /\ http2 \in BOOLEAN /\ only11 \in BOOLEAN /\ forgotten \in BOOLEAN
    /\ origin \in [h2 : BOOLEAN, insists : BOOLEAN] /\ answer \in Answers
    /\ \A k \in DOMAIN pool : k \in Keys /\ pool[k].tr \in 1..count
    /\ closing \subseteq 1..count
    /\ \A c \in idle : c.tr \in 1..count /\ c.conn \in Conns
    /\ \A r \in Requests : run[r].phase \in Phases /\ run[r].sends \in Nat /\ run[r].attempt \in 0..1

Init ==
    /\ ask \in [Requests -> Asks]
    /\ pooling \in BOOLEAN /\ http2 \in BOOLEAN
    /\ origin \in [h2 : BOOLEAN, insists : BOOLEAN] /\ (origin.insists => origin.h2)
    /\ answer \in Answers /\ only11 = FALSE /\ forgotten = FALSE
    /\ pool = <<>> /\ closing = {} /\ idle = {} /\ count = 0 /\ changes = 0
    /\ run = [r \in Requests |-> [phase |-> "key", attempt |-> 0, ips |-> <<>>, h2 |-> FALSE,
                                  tr |-> 0, dial |-> "none", conn |-> NoConn, reused |-> FALSE,
                                  sends |-> 0, reason |-> "none"]]

-----------------------------------------------------------------------------

Key(r) == [ip |-> Head(run[r].ips), h2 |-> run[r].h2]
Pooled(r) == run[r].tr # 0

Becomes(r, new) == run' = [run EXCEPT ![r] = new]

\* CloseIdleConnections of transport t: idle connections close now, others when put back.
CloseIdleConnections(T) ==
    /\ closing' = closing \cup T
    /\ idle' = {c \in idle : c.tr \notin T}

\* Every address of the answer must pass the request's own policy.
validatedIPs(r) == Range(answer) \subseteq ask[r].allowed

useHTTP2 == http2 /\ ~only11

\* poolKey resolves and validates; without a key the request goes through a transport of its own.
poolKey(r) ==
    /\ run[r].phase = "key"
    /\ IF pooling /\ validatedIPs(r)
       THEN Becomes(r, [run[r] EXCEPT !.phase = "discard", !.ips = answer, !.h2 = useHTTP2])
       ELSE Becomes(r, [run[r] EXCEPT !.phase = "getConn", !.ips = <<>>, !.h2 = useHTTP2, !.tr = 0])
    /\ UNCHANGED <<world, only11, pool, closing, idle, count>>

discardStale(r) ==
    /\ run[r].phase = "discard"
    /\ LET stale == {k \in DOMAIN pool : k.h2 = run[r].h2 /\ k.ip \notin Range(run[r].ips)}
       IN  /\ pool' = [k \in DOMAIN pool \ stale |-> pool[k]]
           /\ CloseIdleConnections({pool[k].tr : k \in stale})
    /\ Becomes(r, [run[r] EXCEPT !.phase = "transport"])
    /\ UNCHANGED <<world, only11, count>>

Share(r, k) ==
    /\ Becomes(r, [run[r] EXCEPT !.phase = "getConn", !.tr = pool[k].tr, !.dial = k.ip])
    /\ UNCHANGED <<pool, closing, idle, count>>

Make(r) ==
    /\ count' = count + 1
    /\ pool' = [k \in DOMAIN pool \cup {Key(r)} |->
                   IF k = Key(r) THEN [tr |-> count + 1, old |-> FALSE] ELSE pool[k]]
    /\ CloseIdleConnections({pool[k].tr : k \in {Key(r)} \cap DOMAIN pool})
    /\ Becomes(r, [run[r] EXCEPT !.phase = "getConn", !.tr = count + 1, !.dial = Key(r).ip])

\* A transport younger than maxLifetime is shared; an older one is replaced.
transport(r) ==
    /\ run[r].phase = "transport"
    /\ IF Key(r) \in DOMAIN pool /\ ~pool[Key(r)].old THEN Share(r, Key(r)) ELSE Make(r)
    /\ UNCHANGED <<world, only11>>

evict(k) ==
    /\ pool' = [q \in DOMAIN pool \ {k} |-> pool[q]]
    /\ CloseIdleConnections({pool[q].tr : q \in {k} \cap DOMAIN pool})

-----------------------------------------------------------------------------
(* client.Do: net/http asks the transport for a connection.                *)

TakeIdle(r) ==
    /\ run[r].phase = "getConn" /\ Pooled(r)
    /\ closing' = closing \ {run[r].tr}
    /\ \E c \in idle :
        /\ c.tr = run[r].tr
        /\ idle' = idle \ {c}
        /\ Becomes(r, [run[r] EXCEPT !.phase = "send", !.conn = c.conn, !.reused = TRUE])
    /\ UNCHANGED <<world, only11, pool, count>>

\* Dialling ip: with HTTP/2 wanted, makeDialTLSContext sees what the origin chooses.
Dialled(r, ip) ==
    LET h2 == run[r].h2 /\ origin.h2 IN
    /\ Becomes(r, [run[r] EXCEPT !.phase = IF run[r].h2 /\ ~h2 THEN "fallback" ELSE "send",
                                  !.conn = [ip |-> ip, h2 |-> h2], !.reused = FALSE])
    /\ only11' = (only11 \/ (run[r].h2 /\ ~h2))

Dial(r) ==
    /\ run[r].phase = "getConn" /\ Pooled(r)
    /\ closing' = closing \ {run[r].tr}
    /\ \A c \in idle : c.tr # run[r].tr
    /\ Dialled(r, run[r].dial)
    /\ UNCHANGED <<world, pool, idle, count>>

\* Mutant: an unpooled dial trusts the resolver.
dialUnvalidated(r) ==
    /\ run[r].phase = "getConn" /\ ~Pooled(r)
    /\ Dialled(r, Head(answer))
    /\ UNCHANGED <<world, pool, closing, idle, count>>

\* A transport of its own resolves and validates when it dials.
dialValidated(r) ==
    /\ run[r].phase = "getConn" /\ ~Pooled(r)
    /\ IF validatedIPs(r)
       THEN Dialled(r, Head(answer))
       ELSE Becomes(r, [run[r] EXCEPT !.phase = "error", !.reason = "denied"]) /\ UNCHANGED only11
    /\ UNCHANGED <<world, pool, closing, idle, count>>

DialFails(r) ==
    /\ run[r].phase = "getConn"
    /\ Becomes(r, [run[r] EXCEPT !.phase = "error", !.reason = "refused"])
    /\ closing' = closing \ {run[r].tr}
    /\ UNCHANGED <<world, only11, pool, idle, count>>

\* The host was cached before; now the pool's HTTP/2 transport goes.
onFallback(r) ==
    /\ run[r].phase = "fallback"
    /\ IF Pooled(r) THEN evict([ip |-> run[r].dial, h2 |-> run[r].h2]) ELSE UNCHANGED <<pool, closing, idle>>
    /\ Becomes(r, [run[r] EXCEPT !.phase = "send"])
    /\ UNCHANGED <<world, only11, count>>

Again(r, sends) == Becomes(r, [run[r] EXCEPT !.phase = "getConn", !.conn = NoConn, !.sends = sends])

\* The request goes out.  Over HTTP/2 an origin that insists resets the stream.  net/http
\* itself sends again what did not get as far as the origin, or what the origin says over
\* HTTP/2 it has not touched; and of what may have got there, over a connection that was used
\* before, an idempotent request.
Send(r) ==
    /\ run[r].phase = "send"
    /\ LET refused == run[r].conn.h2 /\ origin.insists IN
        \/ ~refused /\ Becomes(r, [run[r] EXCEPT !.phase = "body", !.sends = @ + 1])
        \/ Becomes(r, [run[r] EXCEPT !.phase = "error", !.conn = NoConn, !.sends = @ + 1,
                                     !.reason = IF refused THEN "http_1_1_required" ELSE "reset"])
        \/ (run[r].conn.h2 \/ run[r].reused) /\ Again(r, run[r].sends)
        \/ ~run[r].conn.h2 /\ run[r].reused /\ ask[r].idempotent /\ Again(r, run[r].sends + 1)
    /\ UNCHANGED <<world, only11, pool, closing, idle, count>>

\* handleDoError gives up the pooled transport, whatever the error.
evictOnError(r) ==
    /\ run[r].phase = "error"
    /\ IF Pooled(r) THEN evict(Key(r)) ELSE UNCHANGED <<pool, closing, idle>>
    /\ Becomes(r, [run[r] EXCEPT !.phase = "map"])
    /\ UNCHANGED <<world, only11, count>>

\* Mutant: the host is cached only when the request is not tried again.
handleDoErrorCachesLate(r) ==
    /\ run[r].phase = "map"
    /\ IF run[r].reason = "http_1_1_required" /\ ask[r].replayable /\ run[r].attempt = 0
       THEN Becomes(r, [run[r] EXCEPT !.phase = "key", !.attempt = 1]) /\ UNCHANGED only11
       ELSE /\ Becomes(r, [run[r] EXCEPT !.phase = "failed"])
            /\ only11' = (only11 \/ run[r].reason = "http_1_1_required")
    /\ UNCHANGED <<world, pool, closing, idle, count>>

\* A host that insists on HTTP/1.1 is cached as such, and the request tried once more if its
\* first attempt may be replayed.
handleDoError(r) ==
    /\ run[r].phase = "map"
    /\ only11' = (only11 \/ run[r].reason = "http_1_1_required")
    /\ IF run[r].reason = "http_1_1_required" /\ ask[r].replayable /\ run[r].attempt = 0
       THEN Becomes(r, [run[r] EXCEPT !.phase = "key", !.attempt = 1])
       ELSE Becomes(r, [run[r] EXCEPT !.phase = "failed"])
    /\ UNCHANGED <<world, pool, closing, idle, count>>

\* The body is read and closed.  A pooled connection becomes idle again.
Finish(r) ==
    /\ run[r].phase = "body"
    /\ idle' = IF Pooled(r) /\ run[r].tr \notin closing
               THEN idle \cup {[tr |-> run[r].tr, conn |-> run[r].conn]} ELSE idle
    /\ Becomes(r, [run[r] EXCEPT !.phase = "done", !.conn = NoConn])
    /\ UNCHANGED <<world, only11, pool, closing, count>>

-----------------------------------------------------------------------------
(* The rest of the world.                                                  *)

Changes == changes < MaxChanges /\ changes' = changes + 1

Resolves ==
    /\ Changes /\ \E a \in Answers \ {answer} : answer' = a
    /\ UNCHANGED <<inputs, only11, forgotten, pool, closing, idle, run, count>>

\* maxLifetime passes for a transport; idleTimeout for its connections.
Ages ==
    /\ Changes
    /\ \E k \in DOMAIN pool :
        \/ ~pool[k].old /\ pool' = [pool EXCEPT ![k].old = TRUE] /\ UNCHANGED idle
        \/ idle' = {c \in idle : c.tr # pool[k].tr} /\ UNCHANGED pool
    /\ UNCHANGED <<inputs, answer, only11, forgotten, closing, run, count>>

Forgets ==
    /\ Changes /\ only11 /\ only11' = FALSE /\ forgotten' = TRUE
    /\ UNCHANGED <<inputs, answer, pool, closing, idle, run, count>>

CloseAll ==
    /\ \A r \in Requests : run[r].phase \in {"done", "failed"}
    /\ pool # <<>> /\ pool' = <<>> /\ CloseIdleConnections({pool[k].tr : k \in DOMAIN pool})
    /\ UNCHANGED <<world, only11, run, count>>

Next ==
    \/ \E r \in Requests :
        \/ poolKey(r) \/ discardStale(r) \/ transport(r)
        \/ TakeIdle(r) \/ Dial(r) \/ dialValidated(r) \/ DialFails(r) \/ onFallback(r)
        \/ Send(r) \/ evictOnError(r) \/ handleDoError(r) \/ Finish(r)
    \/ Resolves \/ Ages \/ Forgets \/ CloseAll

Spec == Init /\ [][Next]_vars

-----------------------------------------------------------------------------
(* Properties.                                                             *)

\* validatedIPs and the pool's key: whatever connection a request gets, new or left behind by
\* another request, leads to an address the request's own destination policy allows.
OwnPolicyHolds ==
    \A r \in Requests : run[r].conn # NoConn => run[r].conn.ip \in ask[r].allowed

\* doRequestWithRetry: what net/http does not take for idempotent reaches the origin at most
\* once, and twice only if Control marked it replayable and the origin refused the first attempt
\* over HTTP/2.  The second attempt, with or without the pool, then does not meet HTTP/2 again
\* (cacheHTTP11Only comes first) unless the cache entry has expired in between.
ReplayedAsAllowed ==
    \A r \in Requests :
        /\ run[r].sends > 1 /\ ~ask[r].idempotent =>
               ask[r].replayable /\ origin.insists /\ run[r].sends = 2
        /\ run[r].attempt = 1 /\ run[r].conn # NoConn => ~run[r].conn.h2 \/ forgotten

\* docs/public/api/requests.md: "`replayable` is an explicit transport-retry permission".  Not
\* so: net/http asks for none to resend a GET over a connection that was used before.
RetriedByPermission == \A r \in Requests : run[r].sends > 1 => ask[r].replayable
=============================================================================
