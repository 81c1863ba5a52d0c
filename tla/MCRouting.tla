------------------------------ MODULE MCRouting ------------------------------
(* Routing on small instances: two workers, two pools, lists of two rules. *)
EXTENDS Routing, TLC

Anywhere == [country |-> Free, ingress |-> Free]
In(c) == [Anywhere EXCEPT !["country"] = c]

MCPools ==
    "p" :> [enabled |-> TRUE, degraded |-> FALSE, type |-> "egress", proxy |-> Free,
            tags |-> {}, countries |-> {"de"}]
    @@ "q" :> [enabled |-> TRUE, degraded |-> TRUE, type |-> "egress", proxy |-> "x",
               tags |-> {"t"}, countries |-> {}]

\* Worker 1 is in both pools, worker 2 in the second, which needs protocol minor 2.
MCClaims ==
    1 :> [type |-> "egress", pools |-> "p" :> Free @@ "q" :> "x", minor |-> 2, tags |-> {"t"},
          caps |-> [country |-> {"de"}, ingress |-> {"rest"}], profiles |-> {}]
    @@ 2 :> [type |-> "egress", pools |-> "q" :> "x", minor |-> 2, tags |-> {"t"},
             caps |-> [country |-> {"de", "fr"}, ingress |-> {"rest"}], profiles |-> {"chrome"}]

MCReports ==
    {[state |-> "ready", active |-> 0, max |-> 2, cap |-> 1],
     [state |-> "ready", active |-> 1, max |-> 2, cap |-> 1],
     [state |-> "degraded", active |-> 1, max |-> 0, cap |-> 1],
     [state |-> "ready", active |-> 2, max |-> 2, cap |-> 0],
     [state |-> "gone", active |-> 0, max |-> 2, cap |-> 0]}

Rule(n, p, want, host, tags, ttl, fallback) ==
    [priority |-> n, enabled |-> TRUE, pool |-> p, want |-> want, host |-> host, tags |-> tags,
     ttl |-> ttl, fallback |-> fallback]

MCRules ==
    {Rule(1, "p", Anywhere, <<>>, {}, 1, FALSE), Rule(1, "q", In("de"), <<>>, {}, 1, TRUE),
     Rule(2, "p", Anywhere, <<"*", "org">>, {}, 1, TRUE), Rule(1, "q", Anywhere, <<"org">>, {"t"}, 0, FALSE)}

MCRuleLists == {list \in [1..2 -> MCRules] : list[1] # list[2]}

Ask(want, host, tags, sticky, profile) ==
    [hint |-> want, host |-> host, tags |-> tags, sticky |-> sticky, profile |-> profile]

MCRequestSet ==
    {Ask(Anywhere, <<"org">>, {"t"}, TRUE, Free), Ask(In("de"), <<"a", "org">>, {}, TRUE, Free),
     Ask(In("fr"), <<"a", "org">>, {}, FALSE, Free), Ask(In("de"), <<"b">>, {"t"}, TRUE, "chrome"),
     Ask(In("de"), <<"org">>, {"t"}, FALSE, Free)}

\* Evaluations differ only in what they ask for.
Symmetry == Permutations(Evaluations)
=============================================================================
