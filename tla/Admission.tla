------------------------------ MODULE Admission ------------------------------
(***************************************************************************)
(* One request on its way through everybody's checks: an administrator's   *)
(* snapshot is prepared and stored; an ingress validates the request;      *)
(* Control resolves the destination policy for the routed pool and starts  *)
(* the request; Egress validates the start, resolves the name and builds   *)
(* the outbound request.  Three components written apart have to agree on  *)
(* what is allowed.                                                        *)
(***************************************************************************)
EXTENDS RequestValidation

CONSTANTS
    Offers,        \* snapshots that are put
    Requests(_),   \* requests that arrive under a snapshot
    Worlds(_, _),  \* what a name resolves to, its CNAME hops, and the worker's configuration
    None

\* Decoded as a snapshot: it has rules, and a rule has a type and normalised fields.
ASSUME OffersAssumption ==
    \A s \in Offers : /\ "rules" \in DOMAIN s
                      /\ \A i \in DOMAIN s.rules : {"type", "normal"} \subseteq DOMAIN s.rules[i]

VARIABLES
    phase,
    snapshot,   \* offered, then as it was stored
    request,    \* received, then as it was validated
    proxy,      \* the upstream proxy of the routed pool
    start,      \* RequestStart
    world,      \* what Egress meets
    code        \* how the request was answered

admissionVars == <<phase, snapshot, request, proxy, start, world, code>>

\* Control answers, or Egress fails, a request that does not get on.
Phases == {"offered", "refused", "stored", "validated", "answered", "started", "accepted", "failed", "sent"}

AtEgress == phase \in {"accepted", "failed", "sent"}

AdmissionTypeOK ==
    /\ phase \in Phases
    /\ request = None <=> phase \in {"offered", "stored", "refused"}
    /\ start = None <=> phase \notin {"started", "accepted", "failed", "sent"}
    /\ world # None <=> AtEgress
    /\ code = "ok" <=> phase \notin {"answered", "failed", "refused"}

AdmissionInit ==
    /\ phase = "offered" /\ snapshot \in Offers /\ code = "ok"
    /\ request = None /\ proxy = None /\ start = None /\ world = None

Outcome(c, next, otherwise) ==
    /\ code' = c
    /\ phase' = IF c = "ok" THEN next ELSE otherwise

-----------------------------------------------------------------------------

\* PutRuntimeConfig, and the bootstrap of a stored configuration.
PutSnapshot ==
    /\ phase = "offered"
    /\ LET prepared == prepareRuntimeSnapshot(snapshot)
       IN IF prepared = {} THEN phase' = "refused" /\ code' = "invalid_snapshot" /\ UNCHANGED snapshot
          ELSE phase' = "stored" /\ snapshot' \in prepared /\ UNCHANGED code
    /\ UNCHANGED <<request, proxy, start, world>>

\* ServeHTTP of the three ingresses up to the dispatcher.
Receive ==
    /\ phase = "stored"
    /\ \E r \in Requests(snapshot) :
           /\ Outcome(validate(r, snapshot, r.receipts), "validated", "answered")
           /\ request' = IF code' = "ok" THEN Validated(r) ELSE r
    /\ UNCHANGED <<snapshot, proxy, start, world>>

\* The rule that matched decides the pool; resolveRouteExecution and sendRequestStart.
Start ==
    /\ phase = "validated"
    /\ \E i \in DOMAIN snapshot.routes, j \in DOMAIN snapshot.pools :
           /\ snapshot.routes[i].pool = snapshot.pools[j].id
           /\ proxy' = snapshot.pools[j].proxy
           /\ Outcome(ResolveDestinationPolicy(request, snapshot, proxy'), "started", "answered")
           /\ start' = IF code' = "ok" THEN RequestStart(request, snapshot, proxy') ELSE None
    /\ UNCHANGED <<snapshot, request, world>>

\* Egress: validateExecutionStart or openTunnel.
Accept ==
    /\ phase = "started"
    /\ \E w \in Worlds(start, proxy) :
           /\ world' = [answer |-> LookupIPAddr(start.host, w.answer),
                        hops |-> LookupCNAME(start.host, w.hops)]
           /\ Outcome(validateExecutionStart(start, w.bound, w.executable), "accepted", "failed")
    /\ UNCHANGED <<snapshot, request, proxy, start>>

\* A profile resolves before it builds, an ordinary request builds before it dials.
Connect ==
    /\ phase = "accepted"
    /\ LET addresses == IF start.policy.mode = "remote" THEN "ok" ELSE validatedIPs(start, world.answer, world.hops)
           built == IF start.mode = "raw_tunnel" THEN "ok" ELSE buildHTTPRequest(start)
       IN Outcome(IF start.profile # "" THEN addresses ?? buildProfiledRequest(start)
                  ELSE built ?? addresses, "sent", "failed")
    /\ UNCHANGED <<snapshot, request, proxy, start, world>>

\* A request is answered once.
Done == phase \in {"sent", "answered", "failed", "refused"} /\ UNCHANGED admissionVars

AdmissionNext == PutSnapshot \/ Receive \/ Start \/ Accept \/ Connect \/ Done

AdmissionSpec == AdmissionInit /\ [][AdmissionNext]_admissionVars

-----------------------------------------------------------------------------
(* Properties. *)

Direct == proxy = NoProxy


-----------------------------------------------------------------------------
(* The documented policy. *)

\* The addresses that are looked at: the literal, or what Egress resolves the name to.
Checked ==
    IF request.host.kind = "address" THEN {request.host.value}
    ELSE IF Direct /\ AtEgress THEN world.answer ELSE {}

DocumentedDeny ==
    \/ \E a \in Checked : DocumentedAddressDeny(a, snapshot.rules)
    \/ DocumentedHostDeny(request.host.value, snapshot.rules)
    \/ Direct /\ AtEgress /\ DocumentedCNAMEDeny(request.host.value, world.hops, snapshot.rules)

\* "Rule types and precedence" of docs/public/architecture.md: a request is denied its
\* destination exactly when the table of rule types, the overrides and the built-in
\* denials say so.
EnforcedAsDocumented ==
    phase = "sent" \/ code = "destination_denied" => (code = "destination_denied" <=> DocumentedDeny)

OverridesOf(rules) == {r \in Enabled(rules) : r.action = "allow_override"}
HostDenials(rules) == {r \in Enabled(rules) : r.action = "deny" /\ r.type \in HostTypes}

\* Where the code may deny more than that table: a metadata_ip override compiles to nothing;
\* Egress gets a host rule as a suffix; Control looks at what is left of a literal that lost
\* its brackets.
Stricter ==
    LET host == request.host.value IN
    \/ \E r \in OverridesOf(snapshot.rules) : r.type = "metadata_ip" /\ Addresses(r) \cap Checked # {}
    \/ \E r \in HostDenials(snapshot.rules) :
           r.type = "host" /\ r.normal.pattern.name \in suffixesOf[host] \ {host}
    \/ normalizeTargetHost(request) # {request.host}

\* Where it may deny less: an override of the other host type with the same value withdraws a
\* denial; an address override opens the kind of its first address.
Laxer ==
    LET opened == UNION {kindsOf[p.base] : p \in compileDenyRules(snapshot.rules).allowed} IN
    \/ \E r \in HostDenials(snapshot.rules), o \in OverridesOf(snapshot.rules) :
           /\ r.normal = o.normal /\ r.type # o.type
           /\ r.normal.pattern.name \in suffixesOf[request.host.value]
    \/ \E a \in Checked : kindsOf[a] # {} /\ kindsOf[a] \subseteq opened

\* The three places that know the rules (compileDenyRules, evaluateHostDeny and
\* evaluateLiteralIPDeny at Control, validateResolvedIP and the suffix checks at Egress)
\* together enforce the documented table: only where the code is known to be stricter is a
\* request denied that the table allows, and only where it is known to be laxer is one sent
\* that the table denies.  The address checks agree: an address literal that Control lets
\* through is denied by Egress only for a name in a host rule that its text ends in.
PolicyIsEnforced ==
    /\ code = "destination_denied" => DocumentedDeny \/ Stricter
    /\ phase = "sent" => ~DocumentedDeny \/ Laxer
    /\ AtEgress /\ start.host.kind = "address" /\ code = "destination_denied" =>
           validateHostSuffixPolicy(start.host.value, start.policy)
=============================================================================
