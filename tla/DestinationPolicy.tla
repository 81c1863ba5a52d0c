-------------------------- MODULE DestinationPolicy --------------------------
(***************************************************************************)
(* The destination rules of a stored snapshot as Control applies them      *)
(* before dispatch and compiles them for Egress                            *)
(* (control/destination_policy.go), and as Egress enforces what was        *)
(* compiled (egress/execution_error.go).  TRUE means that the destination  *)
(* is refused.                                                             *)
(***************************************************************************)
EXTENDS Snapshot

Enabled(rules) == {rules[i] : i \in {j \in DOMAIN rules : rules[j].enabled}}

-----------------------------------------------------------------------------
(* Control. *)

\* The field denyRuleValue reads: the address of a metadata_ip rule is in another one.
ValueField(type) ==
    CASE type = "ip" -> "ip"
      [] type \in CIDRTypes \ {"ip"} -> "cidr"
      [] type = "cname_suffix" -> "name"
      [] OTHER -> "host"

denyRuleValue(rule) == {p \in {rule.normal.pattern} : rule.normal.field = ValueField(rule.type)}

\* An ip rule is the network of that one address.
compileCIDRDenyRule(rule) ==
    {IF rule.type = "ip" THEN [base |-> p.address, covers |-> {p.address}] ELSE p.prefix : p \in denyRuleValue(rule)}

subtractOverrides(denied, allowed) == denied \ allowed

compileDenyRules(rules) ==
    LET of(types, action) == {r \in Enabled(rules) : r.type \in types /\ r.action = action}
        prefixes(action) == UNION {compileCIDRDenyRule(r) : r \in of(CIDRTypes, action)}
        names(types, action) == {r.normal.pattern.name : r \in of(types, action)}
    IN [denied |-> prefixes("deny"),
        allowed |-> prefixes("allow_override"),
        suffixes |-> subtractOverrides(names(HostTypes, "deny"), names(HostTypes, "allow_override")),
        cnames |-> subtractOverrides(names({"cname_suffix"}, "deny"), names({"cname_suffix"}, "allow_override"))]

hostMatchesDenyRule(host, rule) ==
    IF rule.type = "host_suffix" THEN rule.normal.pattern.name \in suffixesOf[host]
    ELSE rule.normal.pattern.name = host

evaluateHostDeny(host, rules) ==
    LET matching(action) == \E r \in Enabled(rules) : r.type \in HostTypes /\ r.action = action
                                                      /\ hostMatchesDenyRule(host, r)
    IN matching("deny") /\ ~matching("allow_override")

Covered(prefixes, address) == \E p \in prefixes : address \in p.covers

evaluateLiteralIPDeny(address, denied, allowed) ==
    \/ "mapped" \in kindsOf[address]
    \/ ~Covered(allowed, address) /\ (Covered(denied, address) \/ kindsOf[address] # {})

\* The kinds that a flag of the policy sent to Egress opens: the first address of an allowed network decides.
OpenedKinds(allowed) ==
    {k \in Kinds \ {"special", "mapped"} : \E p \in allowed : k \in kindsOf[p.base]}

-----------------------------------------------------------------------------
(* Egress. *)

deniedByDefault(policy, address) == kindsOf[address] \ policy.opened # {}

\* Mutant: configured denials come before the overrides.
validateResolvedIPDenyFirst(policy, address) ==
    \/ "mapped" \in kindsOf[address]
    \/ Covered(policy.denied, address)
    \/ ~Covered(policy.allowed, address) /\ deniedByDefault(policy, address)

validateResolvedIP(policy, address) ==
    \/ "mapped" \in kindsOf[address]
    \/ ~Covered(policy.allowed, address) /\ (Covered(policy.denied, address) \/ deniedByDefault(policy, address))

matchesAnySuffix(host, suffixes) == suffixesOf[host] \cap suffixes # {}

validateHostSuffixPolicy(host, policy) == matchesAnySuffix(host, policy.suffixes)

\* A failed lookup has no hops.
validateCNAMESuffixPolicy(host, hops, policy) ==
    \E hop \in hops \ {host} : matchesAnySuffix(hop, policy.cnames)

-----------------------------------------------------------------------------
(* What docs/public/architecture.md says of a rule set ("Rule types and precedence").  *)

\* The addresses that a rule is about.
Addresses(rule) == IF rule.normal.field = "ip" THEN {rule.normal.pattern.address} ELSE rule.normal.pattern.prefix.covers

DocumentedAddressDeny(address, rules) ==
    LET about(action) == \E r \in Enabled(rules) : r.type \in CIDRTypes /\ r.action = action /\ address \in Addresses(r)
    IN \/ "mapped" \in kindsOf[address]
       \/ ~about("allow_override") /\ (about("deny") \/ kindsOf[address] # {})

\* A denial is withdrawn by an override of the same type with the same normalised value.
Withdrawn(rule, rules) ==
    \E r \in Enabled(rules) : r.action = "allow_override" /\ r.type = rule.type /\ r.normal = rule.normal

DocumentedHostDeny(host, rules) ==
    \E r \in Enabled(rules) : /\ r.type \in HostTypes /\ r.action = "deny"
                              /\ hostMatchesDenyRule(host, r) /\ ~Withdrawn(r, rules)

DocumentedCNAMEDeny(host, hops, rules) ==
    \E r \in Enabled(rules) : /\ r.type = "cname_suffix" /\ r.action = "deny" /\ ~Withdrawn(r, rules)
                              /\ \E hop \in hops \ {host} : r.normal.pattern.name \in suffixesOf[hop]
=============================================================================
