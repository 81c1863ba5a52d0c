------------------------------ MODULE Snapshot ------------------------------
(***************************************************************************)
(* prepareRuntimeSnapshot (control/runtime_snapshot.go) and PrepareSnapshot *)
(* (config/snapshot_validate.go): what a runtime configuration must        *)
(* satisfy to be stored, and the normal form of its destination rules.     *)
(* Control, Routing and the destination policy rely on what is checked     *)
(* here.                                                                   *)
(*                                                                         *)
(* Texts are classes: the well-formed ones that must be told apart, and    *)
(* one malformed representative of each check.  Every check answers with   *)
(* the same error, so a validator is the conjunction of its checks.        *)
(***************************************************************************)
EXTENDS Naturals, Sequences, Folds, TLC

CONSTANTS
    Address,     \* addresses
    kindsOf,     \* what the netip predicates and the built-in lists say of an address
    unmapped,    \* Addr.Unmap
    Prefix,      \* the networks: their first address and the addresses they cover
    Name,        \* normalised hostnames
    suffixesOf,  \* of a host: itself and what follows one of its dots
    Catalogue    \* names of fingerprint profiles the worker can execute

\* The kinds of address that are denied unless a rule overrides it.
Kinds == {"loopback", "private", "linkLocal", "multicast", "metadata", "special", "mapped"}

ASSUME AddressAssumption ==
    /\ kindsOf \in [Address -> SUBSET Kinds] /\ unmapped \in [Address -> Address]
    /\ \A a \in Address : /\ "mapped" \notin kindsOf[unmapped[a]]
                          /\ "mapped" \in kindsOf[a] \/ unmapped[a] = a
    /\ \A p \in Prefix : p.base \in p.covers /\ p.covers \subseteq Address
    /\ \A p, q \in Prefix : p.covers = q.covers => p = q

ASSUME NameAssumption ==
    /\ suffixesOf \in [Name \cup Address -> SUBSET (Name \cup Address)]
    /\ \A n \in DOMAIN suffixesOf :
           n \in suffixesOf[n] /\ \A m \in suffixesOf[n] : suffixesOf[m] \subseteq suffixesOf[n]

\* "" and an ID with a character outside [A-Za-z0-9-_.:] are refused.
validSnapshotID(id) == id \notin {"", "a b"}

Distinct(list) == \A i, j \in DOMAIN list : list[i].id = list[j].id => i = j
Every(list, Valid(_)) == \A i \in DOMAIN list : Valid(list[i])
IDs(list) == {list[i].id : i \in DOMAIN list}

\* A list of texts has no value that is empty, padded or too long, and none twice.
validateStringList(list) == list \notin {"invalid value", "repeated value"}

-----------------------------------------------------------------------------

NoProxy == [id |-> "", trusted |-> FALSE]

validatePoolUpstreamProxy(proxy) == proxy = NoProxy \/ (validSnapshotID(proxy.id) /\ proxy.trusted)

validatePoolRestrictions(pool) == \A i \in DOMAIN pool.allowed : validateStringList(pool.allowed[i])

validatePools(pools) ==
    /\ Distinct(pools)
    /\ Every(pools, LAMBDA pool :
           /\ validSnapshotID(pool.id) /\ pool.executorType \notin {"", "too long"}
           /\ validatePoolUpstreamProxy(pool.proxy)
           /\ validateStringList(pool.tags) /\ validatePoolRestrictions(pool))

-----------------------------------------------------------------------------
(* Patterns and routes. *)

\* A pattern has a syntactic kind; "suffix" is a name after *. or a dot.
Named(kind, name) == [kind |-> kind, name |-> name]
InNetwork(prefix) == [kind |-> "prefix", prefix |-> prefix]
At(address) == [kind |-> "address", address |-> address]
Junk == [kind |-> "junk"]
NoPattern == [kind |-> "absent"]

\* The normal form of a name or an address, or nothing.  A name in capitals has its
\* normal form after a conversion to lower case.
normalizeHostPattern(raw) ==
    CASE raw.kind \in {"name", "capitals"} -> {Named("name", raw.name)}
      [] raw.kind = "address" -> {At(unmapped[raw.address])}
      [] OTHER -> {}

\* "*.name" and "name" match; both are in normal form.
validateMatchHost(host) ==
    \/ host = NoPattern
    \/ host \in normalizeHostPattern(host)
    \/ host.kind = "suffix" /\ normalizeHostPattern(Named("name", host.name)) # {}

validateMatchConditions(match) ==
    /\ validateStringList(match.tags)
    /\ match.country \in {"", "DE"}   \* two capital letters
    /\ match.place # "padded"         \* region and IP type
    /\ match.ingress \in {"", "rest", "http_proxy", "connect"}
    /\ validateMatchHost(match.host)

validateRoutes(routes, poolIDs) ==
    /\ Distinct(routes)
    /\ Every(routes, LAMBDA rule :
           /\ validSnapshotID(rule.id) /\ rule.pool \in poolIDs
           /\ rule.fallback => rule.ttl > 0
           /\ validateMatchConditions(rule.match))

validateWorkerSettings(workers) == Distinct(workers) /\ Every(workers, LAMBDA w : validSnapshotID(w.id))

-----------------------------------------------------------------------------
(* Destination rules. *)

HostTypes == {"host", "host_suffix"}
CIDRTypes == {"cidr", "ip", "metadata_ip", "private_range"}
RuleTypes == HostTypes \cup CIDRTypes \cup {"cname_suffix"}

\* The normalised field that a rule of a type fills.
FieldOf(type) ==
    CASE type \in HostTypes -> "host"
      [] type = "cname_suffix" -> "name"
      [] type \in {"cidr", "private_range"} -> "cidr"
      [] type \in {"ip", "metadata_ip"} -> "ip"
      [] OTHER -> "none"

Unnormalised == [field |-> "none", pattern |-> NoPattern]

\* Prefix.Masked: the network of a prefix that was written with any of its addresses.
Masked(prefix) == CHOOSE p \in Prefix : p.covers = prefix.covers

\* Each has the normal form of a pattern, or nothing when the pattern is refused.
normalizeRawHost(raw) == {p \in normalizeHostPattern(raw) : p.kind = "name"}
normalizeRawSuffix(raw) == normalizeRawHost(IF raw.kind = "suffix" THEN Named("name", raw.name) ELSE raw)
normalizeRawCIDR(type, raw) ==
    IF raw.kind # "prefix" THEN {}
    ELSE {p \in {InNetwork(Masked(raw.prefix))} :
              type = "private_range" => "private" \in kindsOf[p.prefix.base]}
normalizeRawIP(type, raw) ==
    IF raw.kind # "address" THEN {}
    ELSE {p \in {At(unmapped[raw.address])} :
              type = "metadata_ip" => "metadata" \in kindsOf[p.address]}

NormalForms(type, raw) ==
    LET patterns == CASE type = "host" -> normalizeRawHost(raw)
                      [] type \in {"host_suffix", "cname_suffix"} -> normalizeRawSuffix(raw)
                      [] type \in {"cidr", "private_range"} -> normalizeRawCIDR(type, raw)
                      [] type \in {"ip", "metadata_ip"} -> normalizeRawIP(type, raw)
                      [] OTHER -> {}
    IN {[field |-> FieldOf(type), pattern |-> p] : p \in patterns}

\* A rule of an earlier version has no raw pattern: the field of its type is normalised again.
canonicalizeLegacyDestination(rule) ==
    IF rule.normal.field = FieldOf(rule.type) THEN NormalForms(rule.type, rule.normal.pattern) ELSE {}

normalizeDestinationRule(rule) ==
    IF rule.raw = NoPattern THEN canonicalizeLegacyDestination(rule) ELSE NormalForms(rule.type, rule.raw)

\* The one field that is set is the one of the type; a name or an address is its own normal form.
validateNormalizedDestination(rule) ==
    LET p == rule.normal.pattern
    IN /\ rule.normal.field = FieldOf(rule.type)
       /\ CASE rule.type \in HostTypes \cup {"cname_suffix"} ->
                    /\ p \in normalizeHostPattern(p)
                    /\ rule.type = "host" => p.kind = "name"
            [] rule.type \in {"cidr", "private_range"} ->
                    p.kind = "prefix" /\ (rule.type = "private_range" => "private" \in kindsOf[p.prefix.base])
            [] rule.type \in {"ip", "metadata_ip"} ->
                    p.kind = "address" /\ (rule.type = "metadata_ip" => "metadata" \in kindsOf[p.address])
            [] OTHER -> FALSE

validateDestinationRules(rules) ==
    /\ Distinct(rules)
    /\ Every(rules, LAMBDA rule :
           /\ validSnapshotID(rule.id) /\ rule.action \in {"deny", "allow_override"}
           /\ rule.reason = "fine" /\ validateNormalizedDestination(rule))

-----------------------------------------------------------------------------
(* Injected headers and fingerprint profiles. *)

\* The headers no operation may touch; those of the prefix x-straw- are one of them here.
ManagedHeaders == {"host", "content-length", "transfer-encoding", "connection",
                   "proxy-authorization", "x-straw-"}
isToken(header) == header \notin {"", "not a token"}

\* The operations of the enabled policies, in the order of the list.
EnabledOperations(policies) ==
    LET operations(i) == policies[i].operations
        First(indices) == CHOOSE i \in indices : \A j \in indices : i <= j
    IN MapThenFoldSet(\o, <<>>, operations, First, {i \in DOMAIN policies : policies[i].enabled})

RepeatedSet(operations) ==
    \E i, j \in DOMAIN operations :
        i # j /\ operations[i].op = "set" /\ operations[j].op = "set"
              /\ operations[i].header = operations[j].header

validateInjectionOperation(op) ==
    /\ op.op \in {"set", "append", "remove"}
    /\ isToken(op.header) /\ op.header \notin ManagedHeaders
    /\ op.value = "fine"   \* base64, without CR or LF


validateInjectionPolicies(policies) ==
    /\ Distinct(policies)
    /\ Every(policies, LAMBDA p : validSnapshotID(p.id) /\ Every(p.operations, validateInjectionOperation))
    /\ ~RepeatedSet(EnabledOperations(policies))

validateFingerprintMetadata(p) == (p.enabled => p.executable) /\ p.metadata # "too long"

validateFingerprintProfiles(profiles) ==
    /\ Distinct(profiles)
    /\ Every(profiles, LAMBDA p :
           /\ p.id \notin {"", "too long"} /\ p.scope \in {"", "global"}
           /\ p.id = "default" \/ validateFingerprintMetadata(p))

-----------------------------------------------------------------------------

validateSnapshot(s) ==
    /\ s.version > 0
    /\ s.defaultTimeout > 0 /\ s.maxTimeout > 0 /\ s.defaultTimeout <= s.maxTimeout
    /\ validatePools(s.pools)
    /\ validateRoutes(s.routes, IDs(s.pools))
    /\ validateDestinationRules(s.rules)
    /\ validateInjectionPolicies(s.injections)
    /\ validateFingerprintProfiles(s.profiles)
    /\ validateWorkerSettings(s.workers)

\* The snapshot with its rules in normal form, or nothing.
PrepareSnapshot(s) ==
    LET forms(rule) == normalizeDestinationRule(rule)
        normal == [i \in DOMAIN s.rules |->
                      [s.rules[i] EXCEPT !.normal = CHOOSE n \in forms(s.rules[i]) : TRUE]]
    IN IF \E i \in DOMAIN s.rules : forms(s.rules[i]) = {} THEN {}
       ELSE {t \in {[s EXCEPT !.rules = normal]} : validateSnapshot(t)}

-----------------------------------------------------------------------------
(* What Control demands beyond the shape of the data. *)

validateExecutablePools(pools) == Every(pools, LAMBDA pool : pool.executorType = "egress")

\* A worker's ID becomes a token of a NATS subject, which has no dot.
validateExecutableWorkerSettings(workers) == Every(workers, LAMBDA w : w.id # "a.b")

\* A profile other than the default is one of the catalogue, under its own name and revision.
validateExecutableProfiles(profiles) ==
    Every(profiles, LAMBDA p : p.id = "default" \/ (p.id \in Catalogue /\ p.metadata = "of the catalogue"))

validateExecutableSnapshot(s) ==
    /\ validateExecutablePools(s.pools)
    /\ validateExecutableWorkerSettings(s.workers)
    /\ validateExecutableProfiles(s.profiles)

prepareRuntimeSnapshot(s) == {t \in PrepareSnapshot(s) : validateExecutableSnapshot(t)}
=============================================================================
