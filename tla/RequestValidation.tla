-------------------------- MODULE RequestValidation --------------------------
(***************************************************************************)
(* What is checked of one request, and in which order: by the three        *)
(* ingresses of Control (control/request.go, control/handler.go,           *)
(* control/proxy_handler.go) and by Egress before it connects              *)
(* (egress/request_validation.go, egress/request_build.go).                *)
(*                                                                         *)
(* A request is a record of classes: for every field the values that are   *)
(* told apart, one representative of each failing check among them.  A     *)
(* validator answers "ok" or the code of the first check that fails.       *)
(***************************************************************************)
EXTENDS DestinationPolicy

CONSTANTS
    MinTimeout,   \* minRequestTimeoutMs
    MaxTimeout,   \* control.request.max_timeout_ms
    MaxInjected,  \* MaxInjectedHeaderBytes, one unit for an operation
    bareHostname  \* of an IPv6 literal that has lost its brackets: the address, if any, that
                  \* URL.Hostname leaves of it (a last group of digits is taken for a port)

ASSUME BareAssumption ==
    /\ DOMAIN bareHostname \subseteq Address
    /\ \A a \in DOMAIN bareHostname : bareHostname[a] = {} \/ \E b \in Address : bareHostname[a] = {b}

Unless(holds, error) == IF holds THEN "ok" ELSE error

\* Of two checks in order, the code of the first that fails.
first ?? second == IF first = "ok" THEN second ELSE first

-----------------------------------------------------------------------------
(* Control: the parts of a request. *)

validateMethod(method) ==
       Unless(method \notin {"", "get"}, "invalid_request")
    ?? Unless(method # "CONNECT", "unsupported_ingress_mode")
    ?? Unless(method \in {"GET", "POST"}, "invalid_request")

\* A host is a normalised name or an address.
validHost(host) ==
    \/ host.kind = "name" /\ host.value \in Name
    \/ host.kind = "address" /\ host.value \in Address

\* url.Parse takes any number as a port.
validateURL(r) ==
    Unless(/\ r.port # "malformed" /\ r.scheme \in {"http", "https"}
           /\ r.extra = "none"   \* no fragment, user info or zone
           /\ validHost(r.host), "invalid_request")

validateHeaderPair(h) == isToken(h.name) /\ h.name # "host" /\ h.value = "fine"

\* over: more than 64 of them, a name over 64 bytes, or 16384 bytes in all.
validateHeaders(headers, over) ==
    Unless(~over /\ \A h \in headers : validateHeaderPair(h), "invalid_request")

\* The rest are unknown modes and combinations of a mode with the other mode's fields.
validateBody(body) ==
       Unless(body \in {"none", "inline", "receipt", "too large"}, "invalid_request")
    ?? Unless(body # "too large", "body_too_large")

effectiveMaxTimeout(s) == IF s.maxTimeout = 0 \/ s.maxTimeout > MaxTimeout THEN MaxTimeout ELSE s.maxTimeout

validateTimeout(timeout, max) ==
    Unless(timeout = 0 \/ (timeout >= MinTimeout /\ timeout <= max), "invalid_request")

\* Tags, country, region, IP type and session: one class for every malformed one.
validateRoutingHints(routing) == Unless(routing # "malformed", "invalid_request")

validateFingerprintProfileJSON(json) ==
       Unless(json # "profile not UTF-8", "unsupported_fingerprint")
    ?? Unless(json \notin {"not UTF-8", "malformed", "repeated profile", "profile no string"},
              "invalid_request")

validateFingerprintProfileValue(profile) ==
    Unless(profile # "baseline", "unsupported_fingerprint")

validateRequestComponents(r, s) ==
       validateMethod(r.method)
    ?? validateURL(r)
    ?? validateHeaders(r.headers, r.over)
    ?? validateBody(r.body)
    ?? Unless(r.responseMode \in {"", "inline_base64", "receipt"}, "invalid_request")
    ?? validateTimeout(r.timeout, effectiveMaxTimeout(s))

-----------------------------------------------------------------------------
(* Control: the three ingresses. *)

ValidateRequest(r, s) ==
       validateFingerprintProfileJSON(r.json)
    ?? Unless(r.json # "unknown field", "invalid_request")
    ?? validateRequestComponents(r, s)
    ?? validateFingerprintProfileValue(r.profile)
    ?? validateRoutingHints(r.routing)

\* A receipt body or response needs the receipt service.
prepareReceipt(r, enabled) ==
    Unless(enabled \/ (r.responseMode # "receipt" /\ r.body # "receipt"), "body_ref_unavailable")

\* The headers of a proxied request that go on: no hop-by-hop header, none the Connection
\* header names, none of Straw's own.
HopByHop == {"connection", "content-length", "proxy-authorization", "te", "transfer-encoding", "upgrade"}

proxyRequestHeaders(headers) ==
    {h \in headers : h.name \notin HopByHop \cup {"x-straw-"} /\ ~h.listed}

\* The hints of a proxied request are headers; each but the tags is sent once.
proxyRoutingHints(routing) ==
    Unless(routing # "sent twice", "invalid_request") ?? validateRoutingHints(routing)

proxyRequestHeadersAndRouting(r) ==
    proxyRoutingHints(r.routing) ?? validateHeaders(proxyRequestHeaders(r.headers), r.over)

readBoundedProxyBody(body) == Unless(body # "too large", "body_too_large")

validateHTTPProxyRequest(r) ==
       validateMethod(r.method)
    ?? validateURL(r)
    ?? proxyRequestHeadersAndRouting(r)
    ?? readBoundedProxyBody(r.body)

validateConnectRequest(r) ==
       proxyRequestHeadersAndRouting(r)
    ?? Unless(r.port # "none" /\ validHost(r.host), "invalid_request")
    ?? Unless(r.port = "valid", "invalid_request")

\* Authentication comes first everywhere.
validate(r, s, receipts) ==
    IF ~r.authorized THEN "auth_failure"
    ELSE CASE r.ingress = "rest" ->
                  ValidateRequest(r, s) ?? prepareReceipt(r, receipts)
           [] r.ingress = "http_proxy" -> validateHTTPProxyRequest(r)
           [] OTHER -> validateConnectRequest(r)

\* normalizeParsedURLHost: without a port an IPv6 literal is put back without its brackets.
LosesBrackets(r) ==
    r.ingress # "connect" /\ r.port = "none" /\ r.host.kind = "address" /\ r.host.value \in DOMAIN bareHostname

\* The validated request: a proxied one has no profile, a CONNECT no headers either.
Validated(r) ==
    LET tunnel == r.ingress = "connect"
    IN [ingress |-> r.ingress, host |-> r.host, port |-> r.port, bare |-> LosesBrackets(r),
        method |-> IF tunnel THEN "CONNECT" ELSE r.method,
        scheme |-> IF tunnel THEN "connect" ELSE r.scheme,
        headers |-> IF tunnel THEN {} ELSE IF r.ingress = "rest" THEN r.headers ELSE proxyRequestHeaders(r.headers),
        profile |-> IF r.ingress = "rest" THEN r.profile ELSE ""]

-----------------------------------------------------------------------------
(* Control: the policy of a validated request. *)

resolveDestinationMode(proxy) ==
    IF proxy = NoProxy THEN "direct" ELSE IF proxy.trusted THEN "remote" ELSE "refused"

resolveFingerprintProfile(profiles, requested) ==
    IF requested \in {"", "default"} THEN "baseline"
    ELSE IF \E i \in DOMAIN profiles : profiles[i].id = requested /\ profiles[i].enabled THEN requested
    ELSE "none"

\* The operations in the order of the policies' IDs.
SortedOperations(policies) == EnabledOperations(SortSeq(policies, LAMBDA p, q : p.order < q.order))

resolveInjectionOperation(op) ==
    op.op \in {"set", "append", "remove"} /\ op.header \notin ManagedHeaders /\ op.value = "fine"

\* The byte limit answers with the same code; it is told apart here.
resolveInjectionOperations(policies) ==
    LET ops == SortedOperations(policies)
    IN    Unless(Every(ops, resolveInjectionOperation) /\ ~RepeatedSet(ops), "header_injection_failed")
       ?? Unless(Len(ops) <= MaxInjected, "injected_bytes")

Policy(s, mode) ==
    LET compiled == compileDenyRules(s.rules)
    IN [denied |-> compiled.denied, allowed |-> compiled.allowed, suffixes |-> compiled.suffixes,
        cnames |-> compiled.cnames, opened |-> OpenedKinds(compiled.allowed), mode |-> mode]

\* The host as URL.Hostname reads it again, or nothing.
normalizeTargetHost(r) ==
    IF r.bare THEN {[kind |-> "address", value |-> a] : a \in bareHostname[r.host.value]} ELSE {r.host}

ResolveDestinationPolicy(r, s, proxy) ==
    LET compiled == compileDenyRules(s.rules)
        hosts == normalizeTargetHost(r)
        mode == resolveDestinationMode(proxy)
    IN    Unless(hosts # {}, "invalid_request")
       ?? Unless(\A h \in hosts : ~evaluateHostDeny(h.value, s.rules), "destination_denied")
       ?? Unless(\A h \in hosts : h.kind = "address" =>
                     ~evaluateLiteralIPDeny(h.value, compiled.denied, compiled.allowed),
                 "destination_denied")
       ?? Unless(mode # "refused", "destination_denied")
       ?? Unless(resolveFingerprintProfile(s.profiles, r.profile) # "none", "unsupported_fingerprint")
       ?? resolveInjectionOperations(s.injections)

\* resolveRouteExecution and sendRequestStart: a tunnel has no profile and injects nothing.
RequestStart(r, s, proxy) ==
    LET tunnel == r.ingress = "connect"
        profile == resolveFingerprintProfile(s.profiles, r.profile)
    IN [mode |-> IF tunnel THEN "raw_tunnel" ELSE "decoded_http",
        method |-> r.method, scheme |-> r.scheme, host |-> r.host, port |-> r.port, bare |-> r.bare,
        headers |-> r.headers,
        profile |-> IF tunnel \/ profile = "baseline" THEN "" ELSE profile,
        operations |-> IF tunnel THEN <<>> ELSE SortedOperations(s.injections),
        proxy |-> proxy.id, policy |-> Policy(s, resolveDestinationMode(proxy))]

-----------------------------------------------------------------------------
(* Egress. *)

\* parseTarget: url.Parse takes no host with colons outside of brackets; the port of the URL or
\* of its scheme is from 1 to 65535.
parseTarget(start) ==
       Unless(~start.bare, "executor_internal_error")
    ?? Unless(start.port = "valid" \/ (start.port = "none" /\ start.scheme \in {"http", "https"}),
              "executor_internal_error")

\* bound: the upstream proxy that the worker binds the selected pool to.
validateUpstreamProxyBinding(start, bound) ==
    Unless(/\ start.proxy = bound
           /\ start.policy.mode = IF bound = "" THEN "direct" ELSE "remote",
           "upstream_proxy_instruction")

validateStart(start) ==
    Unless(start.mode = "decoded_http" /\ start.method # "CONNECT", "executor_internal_error")

validateTunnelStart(start) ==
       Unless(start.mode = "raw_tunnel" /\ start.method = "CONNECT", "executor_internal_error")
    ?? Unless(start.profile = "", "unsupported_fingerprint")
    ?? Unless(start.operations = <<>> /\ start.headers = {}, "executor_internal_error")

resolveFingerprintInstruction(profile, executable) ==
    Unless(profile = "" \/ profile \in executable, "unsupported_fingerprint")

validateRemoteLiteralTarget(start) ==
    Unless(start.policy.mode = "remote" /\ start.host.kind = "address" =>
               ~validateResolvedIP(start.policy, start.host.value), "destination_denied")

\* validateExecutionStart, or openTunnel up to its dial.
validateExecutionStart(start, bound, executable) ==
       parseTarget(start)
    ?? validateUpstreamProxyBinding(start, bound)
    ?? (IF start.mode = "raw_tunnel" THEN validateTunnelStart(start) ELSE validateStart(start))
    ?? resolveFingerprintInstruction(start.profile, executable)
    ?? Unless(~validateHostSuffixPolicy(start.host.value, start.policy), "destination_denied")
    ?? validateRemoteLiteralTarget(start)

safeOutboundHeader(name, value) == isToken(name) /\ name \notin ManagedHeaders /\ value = "fine"

applyInjection(operations) ==
    /\ \A i \in DOMAIN operations : /\ safeOutboundHeader(operations[i].header, operations[i].value)
                                    /\ operations[i].op \in {"set", "append", "remove"}
    /\ ~RepeatedSet(operations)

buildHTTPRequest(start) ==
       Unless(\A h \in start.headers : safeOutboundHeader(h.name, h.value), "executor_internal_error")
    ?? Unless(applyInjection(start.operations), "executor_internal_error")

\* The same checks; the order of the headers, which it keeps, is left out.
buildProfiledRequest(start) == buildHTTPRequest(start)

\* The resolver answers for an address itself, in its IPv4 form if it has one.
LookupIPAddr(host, answer) == IF host.kind = "address" THEN {unmapped[host.value]} ELSE answer

\* lookupCNAMEChain: there is no CNAME for an address.
LookupCNAME(host, hops) == IF host.kind = "address" THEN {} ELSE hops

\* validatedIPs: every address of the answer, then the hops of the name.
validatedIPs(start, answer, hops) ==
       Unless(answer # {}, "upstream_dns_failure")
    ?? Unless(\A a \in answer : ~validateResolvedIP(start.policy, a), "destination_denied")
    ?? Unless(~validateCNAMESuffixPolicy(start.host.value, hops, start.policy), "destination_denied")
=============================================================================
