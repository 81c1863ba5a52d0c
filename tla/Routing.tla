------------------------------- MODULE Routing -------------------------------
(***************************************************************************)
(* Rule evaluation and executor selection (routing.go) for requests that   *)
(* are routed at the same time, on one Control or on several, against the  *)
(* worker registry and the sticky-session pins they share.                 *)
(*                                                                         *)
(* One evaluation reads the registry once per rule, and a sticky one also  *)
(* reads the pin and writes it, in calls of their own: between any two of  *)
(* them workers come and go, loads move, pins expire and other requests    *)
(* write theirs.  A Router lives for one request (dispatch.go:418), so its *)
(* tie-break cursor is always at its start.                                *)
(***************************************************************************)
EXTENDS Naturals, Sequences, FiniteSets, TLC

CONSTANTS
    Evaluations,    \* the evaluations, one for each request
    RequestSet,     \* what they may ask for
    RuleLists,      \* routing rules of the active snapshot, as configured
    Pools,          \* pool id -> PoolPolicy
    Executors,      \* worker ids, in their order
    Claims,         \* worker id -> what it registered with
    Reports,        \* what a worker may report: state, active, max, cap
    OldPins,        \* pins left by earlier requests of the session; 0 for none
    MaxChanges      \* bound: changes of the fleet, expiries, failed Redis reads

ASSUME FleetAssumption ==
    /\ Executors = {} \/ \E n \in Executors : n \in Nat /\ Executors \subseteq 1..n
    /\ \A report \in Reports : report.active \in Nat /\ report.max \in Nat

VARIABLES
    rules,      \* the active rules
    asks,       \* what each request asks for
    fleet,      \* the registry: state, load and capacity of each worker
    pin,        \* the sticky pin of the one session, if any
    eval,       \* where each evaluation is and what it found
    order,      \* the requests, as they began
    calm,       \* requests since whose beginning only loads moved, between requests
    changes

routingVars == <<rules, asks, fleet, pin, eval, order, calm, changes>>

None == 0
Hints == {"country", "ingress"}
Free == ""

-----------------------------------------------------------------------------
\* matches: a constraint of the rule is met only by a hint that is there.
matchesField(want, got) == want = Free \/ (got # Free /\ want = got)

\* Hosts are sequences of labels; a leading "*" stands for one label or more.
hostMatches(pattern, host) ==
    \/ pattern = host
    \/ /\ pattern # <<>> /\ Head(pattern) = "*"
       /\ Len(host) >= Len(pattern) /\ SubSeq(host, Len(host) - Len(pattern) + 2, Len(host)) = Tail(pattern)

matches(rule, req) ==
    /\ rule.tags \subseteq req.tags
    /\ \A h \in Hints : matchesField(rule.want[h], req.hint[h])
    /\ rule.host = <<>> \/ (req.host # <<>> /\ hostMatches(rule.host, req.host))

\* Mutant: the rules are taken as they are listed.
matchingRulesUnsorted(list, req) == SelectSeq(list, LAMBDA r : r.enabled /\ matches(r, req))

\* matchingRules: the enabled ones that match, stably sorted by priority.
matchingRules(list, req) ==
    LET found == SelectSeq(list, LAMBDA r : r.enabled /\ matches(r, req)) IN
    SortSeq([i \in DOMAIN found |-> found[i] @@ [at |-> i]],
            LAMBDA a, b : a.priority < b.priority \/ (a.priority = b.priority /\ a.at < b.at))

-----------------------------------------------------------------------------
\* capabilitySatisfies: a worker that claims nothing satisfies no hint.
capabilitySatisfies(w, req) ==
    /\ req.tags \subseteq Claims[w].tags
    /\ \A h \in Hints : req.hint[h] = Free \/ req.hint[h] \in Claims[w].caps[h]

\* poolAllows: identity of pool and worker, then the pool's allowed values.
poolAllows(w, p) ==
    /\ Claims[w].type = Pools[p].type
    /\ Claims[w].pools[p] = Pools[p].proxy
    /\ Pools[p].proxy # Free => Claims[w].minor >= 2
    /\ Pools[p].tags \subseteq Claims[w].tags
    /\ Pools[p].countries # {} => Claims[w].caps["country"] \subseteq Pools[p].countries

\* CandidatesForPool: workers in the pool that are ready or degraded.
CandidatesForPool(p) ==
    {w \in Executors : fleet[w].state \in {"ready", "degraded"} /\ p \in DOMAIN Claims[w].pools}

\* eligibleCandidates, before the capacity test.
Suitable(all, rule, req) ==
    LET p == rule.pool IN
    {w \in all :
        /\ Pools[p].enabled
        /\ fleet[w].state = "degraded" => Pools[p].degraded
        /\ capabilitySatisfies(w, req) /\ poolAllows(w, p)}

WithCapacity(ws) == {w \in ws : fleet[w].cap > 0}

Named(req) == req.profile # Free
\* filterFingerprintCandidates
Fingerprinted(ws, req) == {w \in ws : Named(req) => req.profile \in Claims[w].profiles}

\* load: active / max as a fraction, and 0 without a maximum.
load(report) == IF report.max = 0 THEN <<0, 1>> ELSE <<report.active, report.max>>
LessLoaded(view, v, w) ==
    load(view[v])[1] * load(view[w])[2] < load(view[w])[1] * load(view[v])[2]

\* selectExecutor: the least loaded, the first of them by worker id.
selectExecutor(view) ==
    LET ws == DOMAIN view
        tied == {w \in ws : \A v \in ws : ~LessLoaded(view, v, w)} IN
    CHOOSE w \in tied : \A v \in tied : w <= v

-----------------------------------------------------------------------------
\* view: the candidates of the rule under way, as they were read.
NotRouted == [pc |-> "idle", todo |-> <<>>, view |-> <<>>, pinned |-> None,
              picked |-> None, unfit |-> FALSE, full |-> FALSE, outcome |-> "none"]

RoutingInit ==
    /\ rules \in RuleLists
    /\ asks \in [Evaluations -> RequestSet]
    /\ fleet \in [Executors -> Reports]
    /\ pin \in OldPins
    /\ eval = [q \in Evaluations |-> NotRouted]
    /\ order = <<>>
    /\ calm = {}
    /\ changes = 0

Running == {q \in Evaluations : eval[q].pc \in {"rule", "pin", "set"}}
Advance(q, new) == eval' = [eval EXCEPT ![q] = new]
Ended(q, outcome) == [eval[q] EXCEPT !.pc = "done", !.outcome = outcome]

\* The loop of Evaluate goes on to the next rule, or ends with the error the rules
\* that could not be used amount to.
NextRule(q, unfit, full) ==
    LET u == eval[q].unfit \/ unfit
        f == eval[q].full \/ full
    IN IF Len(eval[q].todo) > 1
       THEN [eval[q] EXCEPT !.pc = "rule", !.todo = Tail(@), !.unfit = u, !.full = f]
       ELSE Ended(q, IF u THEN "unsupported_fingerprint"
                     ELSE IF f THEN "executor_capacity_exhausted" ELSE "route_unavailable")

Selected(q, w) == [Ended(q, "ok") EXCEPT !.picked = w]

\* Evaluate
Evaluate(q) ==
    LET todo == matchingRules(rules, asks[q]) IN
    /\ eval[q].pc = "idle"
    /\ IF todo = <<>>
       THEN Advance(q, Ended(q, "route_no_match"))
       ELSE Advance(q, [eval[q] EXCEPT !.pc = "rule", !.todo = todo, !.pinned = pin])
    /\ order' = Append(order, q)
    /\ calm' = IF Running = {} THEN calm \cup {q} ELSE {}
    /\ UNCHANGED <<rules, asks, fleet, pin, changes>>

\* evaluateRule, on what the registry answered: a sticky request goes on to its
\* pin, any other to selection.
evaluateRule(q, all) ==
    LET rule == Head(eval[q].todo)
        fit == Suitable(all, rule, asks[q])
        ordinary == WithCapacity(fit)
        ws == Fingerprinted(ordinary, asks[q])
        view == [w \in ws |-> fleet[w]]
        full == fit # {} /\ ordinary = {}
    IN Advance(q, IF ordinary # {} /\ ws = {} THEN NextRule(q, TRUE, full)
                 ELSE IF asks[q].sticky
                      THEN [eval[q] EXCEPT !.pc = "pin", !.view = view, !.full = @ \/ full]
                 ELSE IF ws = {} THEN NextRule(q, FALSE, full)
                 ELSE Selected(q, selectExecutor(view)))

\* evaluateSticky, on what sticky.Get answered; a selection is written back.
evaluateSticky(q, pinned) ==
    LET rule == Head(eval[q].todo)
        view == eval[q].view
        keep(w) == [eval[q] EXCEPT !.pc = "set", !.picked = w]
    IN Advance(q, IF pinned \in DOMAIN view THEN keep(pinned)
                 ELSE IF pinned # None /\ ~rule.fallback
                      THEN Ended(q, "sticky_session_unavailable")
                 ELSE IF DOMAIN view = {} THEN NextRule(q, FALSE, FALSE)
                 ELSE keep(selectExecutor(view)))

Undisturbed == UNCHANGED <<calm, changes>>
Disturb == changes < MaxChanges /\ changes' = changes + 1 /\ calm' = {}

\* A read that fails gives no candidates and no pin: routing fails closed, affinity
\* is dropped.
ReadCandidates(q) ==
    /\ eval[q].pc = "rule"
    /\ \/ evaluateRule(q, CandidatesForPool(Head(eval[q].todo).pool)) /\ Undisturbed
       \/ evaluateRule(q, {}) /\ Disturb
    /\ UNCHANGED <<rules, asks, fleet, pin, order>>

GetPin(q) ==
    /\ eval[q].pc = "pin"
    /\ \/ evaluateSticky(q, pin) /\ Undisturbed
       \/ evaluateSticky(q, None) /\ Disturb
    /\ UNCHANGED <<rules, asks, fleet, pin, order>>

\* Mutant: a pin that is there is refreshed, a new choice is not written.
RefreshPin(q) ==
    /\ eval[q].pc = "set"
    /\ UNCHANGED pin
    /\ Advance(q, Selected(q, eval[q].picked))
    /\ UNCHANGED <<rules, asks, fleet, order, calm, changes>>

\* Set and Refresh.  Without a TTL the in-process store drops the pin at once, and
\* Redis refuses the command and keeps what it has; a SET that fails is not noticed.
SetPin(q) ==
    /\ eval[q].pc = "set"
    /\ \/ /\ IF Head(eval[q].todo).ttl > 0 THEN pin' = eval[q].picked ELSE pin' \in {pin, None}
          /\ Undisturbed
       \/ pin' = pin /\ Disturb
    /\ Advance(q, Selected(q, eval[q].picked))
    /\ UNCHANGED <<rules, asks, fleet, order>>

\* A heartbeat reports another load...
LoadMoves(w) ==
    /\ \E report \in Reports :
        /\ report.state = fleet[w].state /\ report.cap = fleet[w].cap
        /\ fleet' = [fleet EXCEPT ![w] = report]
    /\ changes < MaxChanges /\ changes' = changes + 1
    /\ calm' = IF Running = {} THEN calm ELSE {}
    /\ UNCHANGED <<rules, asks, pin, eval, order>>

\* ...or another state.
FleetChanges(w) ==
    /\ \E report \in Reports : fleet' = [fleet EXCEPT ![w] = report]
    /\ Disturb
    /\ UNCHANGED <<rules, asks, pin, eval, order>>

PinExpires ==
    /\ pin # None /\ pin' = None
    /\ Disturb
    /\ UNCHANGED <<rules, asks, fleet, eval, order>>

RoutingNext ==
    \/ \E q \in Evaluations : Evaluate(q) \/ ReadCandidates(q) \/ GetPin(q) \/ SetPin(q)
    \/ \E w \in Executors : LoadMoves(w) \/ FleetChanges(w)
    \/ PinExpires

RoutingSpec == RoutingInit /\ [][RoutingNext]_routingVars

-----------------------------------------------------------------------------
RoutingTypeOK ==
    /\ fleet \in [Executors -> Reports]
    /\ pin \in Executors \cup {None}
    /\ \A q \in Evaluations :
        /\ eval[q].pc \in {"idle", "rule", "pin", "set", "done"}
        /\ eval[q].picked \in Executors \cup {None}
        /\ eval[q].pc \in {"rule", "pin", "set"} => eval[q].todo # <<>>
    /\ calm \subseteq Evaluations /\ changes \in 0..MaxChanges

\* What routing promises of an answer, without sorting or looping.  A worker is one that the
\* first rule with usable workers has: the pinned one, or else a least loaded one, and not
\* another than the pinned one unless that rule allows it.  An error tells why no rule has a
\* usable worker, or that some rule insists on a pinned worker it does not have.
Usable(rule, req) == Fingerprinted(WithCapacity(Suitable(CandidatesForPool(rule.pool), rule, req)), req)
LeastLoaded(ws) == {w \in ws : \A v \in ws : ~LessLoaded(fleet, v, w)}
Before(i, j) == rules[i].priority < rules[j].priority \/ (rules[i].priority = rules[j].priority /\ i < j)
Promised(q, outcome, worker) ==
    LET req == asks[q]
        pinned == IF req.sticky THEN eval[q].pinned ELSE None
        match == {i \in DOMAIN rules : rules[i].enabled /\ matches(rules[i], req)}
        fit(i) == Suitable(CandidatesForPool(rules[i].pool), rules[i], req)
        ws(i) == Usable(rules[i], req)
        nobody == \A i \in match : ws(i) = {}
        unfit == \E i \in match : WithCapacity(fit(i)) # {}
        full == \E i \in match : fit(i) # {}
    IN CASE outcome = "ok" ->
                \E i \in match :
                    /\ \A j \in match : Before(j, i) => ws(j) = {}
                    /\ IF pinned \in ws(i) THEN worker = pinned
                       ELSE worker \in LeastLoaded(ws(i)) /\ (pinned = None \/ rules[i].fallback)
         [] outcome = "sticky_session_unavailable" ->
                pinned # None /\ \E i \in match : pinned \notin ws(i) /\ ~rules[i].fallback
         [] outcome = "route_no_match" -> match = {}
         [] outcome = "unsupported_fingerprint" -> nobody /\ unfit
         [] outcome = "executor_capacity_exhausted" -> nobody /\ ~unfit /\ full
         [] outcome = "route_unavailable" -> match # {} /\ nobody /\ ~full

\* A request during which nothing changed is routed as promised: rule order, the
\* filters and the choice of error add up (routing.go:160-224, 306-333, 471-499).
RoutedAsPromised ==
    [][\A q \in calm' :
        eval[q].pc # "done" /\ eval'[q].pc = "done" =>
            Promised(q, eval'[q].outcome, eval'[q].picked)]_routingVars

\* selectExecutor's "round-robin tie breaker per deployment and pool": two like requests, one
\* after the other, do not both go to the same one of several equally loaded workers.
TiesAlternate ==
    \A a, b \in Evaluations :
        (/\ order = <<a, b>> /\ {a, b} \subseteq calm /\ changes = 0
         /\ asks[a] = asks[b] /\ ~asks[a].sticky
         /\ eval[a].outcome = "ok" /\ eval[b].outcome = "ok"
         /\ Cardinality(LeastLoaded(Usable(Head(eval[a].todo), asks[a]))) > 1)
        => eval[a].picked # eval[b].picked

\* Two like requests of a session, one after the other, the first one pinned, with
\* nothing but loads moving.
Followed(a, b) ==
    /\ order = <<a, b>> /\ {a, b} \subseteq calm
    /\ eval[a].outcome = "ok" /\ eval[b].pc = "done"
    /\ asks[a] = asks[b] /\ asks[a].sticky /\ Head(eval[a].todo).ttl > 0

\* A session never moves from a worker that can still serve it, whatever becomes of
\* the loads (routing.go:249-274).
SessionStays ==
    \A a, b \in Evaluations :
        Followed(a, b) /\ eval[b].outcome = "ok" => eval[b].picked = eval[a].picked

\* A session whose worker can still serve it is served.
SessionIsServed ==
    \A a, b \in Evaluations : Followed(a, b) => eval[b].outcome = "ok"
=============================================================================
