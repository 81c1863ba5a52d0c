----------------------------- MODULE MCAdmission -----------------------------
(* Admission on twelve addresses, four names, and snapshots with up to two rules. *)
EXTENDS Admission

MCKindsOf ==
    "pub" :> {} @@ "loop" :> {"loopback"} @@ "priv" :> {"private"} @@ "priv2" :> {"private"}
    @@ "local" :> {"linkLocal"} @@ "meta" :> {"linkLocal", "metadata"} @@ "meta2" :> {"metadata", "special"}
    @@ "multi" :> {"multicast"} @@ "zero" :> {"special"} @@ "mapped" :> {"mapped"}
    @@ "six" :> {} @@ "six2" :> {}

MCAddress == DOMAIN MCKindsOf
MCUnmapped == [a \in MCAddress |-> IF a = "mapped" THEN "priv" ELSE a]

\* Three are IPv6, and "mapped" is IPv4 in IPv6.  Without brackets 2606::1:2 is 2606::1 at
\* port 2, 2606::1 is no host, and ff02::ab is itself.
MCBareHostname == "six" :> {"six2"} @@ "six2" :> {} @@ "multi" :> {"multi"}

Network(base, covers) == [base |-> base, covers |-> covers]
Single(a) == Network(a, {a})
Wide == {Network("priv", {"priv", "priv2"}), Network("local", {"local", "meta"}),
         Network("zero", MCAddress \ {"mapped", "multi", "six", "six2"})}
MCPrefix == {Single(a) : a \in MCAddress} \cup Wide

MCName == {"ex", "www.ex", "org", "3.4"}

\* The public address is 1.2.3.4.
MCSuffixesOf == [h \in MCName \cup MCAddress |->
                    {h} \cup (CASE h = "www.ex" -> {"ex"} [] h = "pub" -> {"3.4"} [] OTHER -> {})]

-----------------------------------------------------------------------------

Rule(type, raw, action) ==
    [id |-> type, type |-> type, action |-> action, enabled |-> TRUE, reason |-> "fine", raw |-> raw,
     normal |-> Unnormalised]

Names == {Named("name", n) : n \in MCName}
RawNetworks == {InNetwork(Network(b, p.covers)) : b \in {"priv2", "meta", "pub"}, p \in Wide}
SomeNetworks == {r \in RawNetworks : r.prefix.base \in r.prefix.covers} \cup {InNetwork(Single("pub"))}
SomeAddresses == {At(a) : a \in {"pub", "priv", "meta", "mapped", "six2"}}

RawOf ==
    "host" :> Names @@ "host_suffix" :> Names \cup {Named("suffix", "ex")} @@ "cname_suffix" :> Names
    @@ "cidr" :> SomeNetworks @@ "ip" :> SomeAddresses @@ "private_range" :> SomeNetworks
    @@ "metadata_ip" :> SomeAddresses

Rules == UNION {{Rule(t, raw, a) : raw \in RawOf[t], a \in {"deny", "allow_override"}} : t \in DOMAIN RawOf}

\* The second rule has another ID.
Pairs == {<<r, [q EXCEPT !.id = "second"]>> : r \in Rules, q \in Rules}

\* Rules that are disabled, malformed, or stored by an earlier version without a raw pattern.
Oddities ==
    LET r == Rule("host", Named("name", "ex"), "deny")
    IN {[r EXCEPT !.enabled = FALSE], [r EXCEPT !.raw = Junk], [r EXCEPT !.raw = Named("suffix", "ex")],
        [r EXCEPT !.raw = Named("capitals", "ex")], [r EXCEPT !.raw = At("pub")],
        [r EXCEPT !.action = "log"], [r EXCEPT !.reason = "bad"], [r EXCEPT !.type = "port"], [r EXCEPT !.id = "a b"],
        [r EXCEPT !.raw = NoPattern]}
       \cup {[r EXCEPT !.raw = NoPattern, !.type = t, !.normal = [field |-> f, pattern |-> p]] :
                t \in {"host", "cname_suffix", "cidr", "ip"}, f \in {"host", "name", "cidr", "ip"},
                p \in {Named("name", "ex"), InNetwork(Network("priv2", {"priv", "priv2"})),
                       At("mapped")}}

Fine ==
    [version |-> 1, defaultTimeout |-> 1, maxTimeout |-> 3,
     pools |-> <<[id |-> "p", executorType |-> "egress", proxy |-> NoProxy, tags |-> "fine",
                 allowed |-> <<"fine", "fine", "fine">>]>>,
     routes |-> <<[id |-> "r", pool |-> "p", fallback |-> FALSE, ttl |-> 0,
                   match |-> [tags |-> "fine", country |-> "", place |-> "", ingress |-> "", host |-> NoPattern]]>>,
     rules |-> <<>>, injections |-> <<>>, profiles |-> <<>>, workers |-> <<>>]

Remote == [Fine EXCEPT !.pools[1].proxy = [id |-> "x", trusted |-> TRUE]]

Op(op, header, value) == [op |-> op, header |-> header, value |-> value]
Operations == {Op("set", "accept", "fine"), Op("append", "accept", "fine"), Op("remove", "te", "fine"),
               Op("swap", "accept", "fine"), Op("set", "connection", "fine"), Op("set", "not a token", "fine"),
               Op("append", "accept", "crlf")}
Injecting(id, order, enabled, op) == [id |-> id, order |-> order, enabled |-> enabled, operations |-> <<op>>]

Profile(name, enabled, executable, metadata) ==
    [id |-> name, scope |-> "global", enabled |-> enabled, executable |-> executable, metadata |-> metadata]

\* One part of the snapshot varies at a time.
Variants ==
    {[Fine EXCEPT !.version = 0], [Fine EXCEPT !.defaultTimeout = 4], [Fine EXCEPT !.maxTimeout = 1],
     [Fine EXCEPT !.pools[1].id = ""], [Fine EXCEPT !.pools[1].executorType = ""],
     [Fine EXCEPT !.pools[1].executorType = "browser"], [Fine EXCEPT !.workers = <<[id |-> "a.b"]>>],
     [Fine EXCEPT !.pools[1].proxy = [id |-> "x", trusted |-> FALSE]],
     [Fine EXCEPT !.pools[1].tags = "repeated value"], [Fine EXCEPT !.pools[1].allowed[2] = "invalid value"],
     [Fine EXCEPT !.pools = @ \o @],
     [Fine EXCEPT !.routes[1].pool = "q"], [Fine EXCEPT !.routes[1].fallback = TRUE],
     [Fine EXCEPT !.routes[1].match.tags = "invalid value"], [Fine EXCEPT !.routes[1].match.country = "de"],
     [Fine EXCEPT !.routes[1].match.place = "padded"], [Fine EXCEPT !.routes[1].match.ingress = "ftp"],
     [Fine EXCEPT !.workers = <<[id |-> "w"], [id |-> "w"]>>]}
    \cup {[Fine EXCEPT !.routes[1].match.host = h] :
              h \in {Named("name", "ex"), Named("suffix", "ex"), Named("capitals", "ex"), At("pub"), At("mapped"), Junk}}
    \cup {[Fine EXCEPT !.injections = <<Injecting("b", 2, e, o), Injecting("a", 1, TRUE, q)>>] :
              e \in BOOLEAN, o \in Operations, q \in Operations}
    \cup {[Fine EXCEPT !.profiles = <<Profile(n, e, x, m)>>] :
              n \in {"default", "chrome", "lynx", "too long"}, e \in BOOLEAN, x \in BOOLEAN,
              m \in {"of the catalogue", "other", "too long"}}

MCOffers ==
    {Fine, Remote} \cup Variants
    \cup {[s EXCEPT !.rules = <<r>>] : s \in {Fine, Remote}, r \in Rules \cup Oddities}
    \cup {[Fine EXCEPT !.rules = pair] : pair \in Pairs}

-----------------------------------------------------------------------------

Host(kind, value) == [kind |-> kind, value |-> value]
Hosts == {Host("name", n) : n \in MCName} \cup {Host("address", a) : a \in MCAddress}

Plain ==
    [ingress |-> "rest", authorized |-> TRUE, receipts |-> FALSE, json |-> "fine", method |-> "GET",
     scheme |-> "https", extra |-> "none", host |-> Host("name", "org"), port |-> "none", headers |-> {},
     over |-> FALSE, body |-> "none", responseMode |-> "", timeout |-> 0, profile |-> "", routing |-> "fine"]

Header(name, value, listed) == [name |-> name, value |-> value, listed |-> listed]

\* Everything that a field of a request may be.
FieldValues ==
    [authorized |-> {FALSE}, receipts |-> {TRUE},
     json |-> {"malformed", "not UTF-8", "profile not UTF-8", "repeated profile", "unknown field"},
     method |-> {"", "get", "CONNECT", "BREW", "POST"}, scheme |-> {"http", "ftp"},
     extra |-> {"fragment", "userinfo", "zone"}, host |-> {Host("empty", ""), Host("malformed", "")},
     port |-> {"valid", "zero", "large", "malformed"},
     headers |-> {{Header(n, "fine", FALSE)} : n \in {"host", "connection", "te", "x-straw-", "not a token"}}
                 \cup {{Header("accept", "crlf", FALSE)}, {Header("accept", "fine", TRUE)}},
     over |-> {TRUE}, body |-> {"inline", "receipt", "too large", "unknown mode"},
     responseMode |-> {"receipt", "other"}, timeout |-> {1, 2, 3, 4}, profile |-> {"default", "baseline", "chrome"},
     routing |-> {"malformed", "sent twice"}]

\* Only a header of a proxied request can be sent twice.
Changed(r) ==
    {q \in UNION {{[r EXCEPT ![f] = v] : v \in FieldValues[f]} : f \in DOMAIN FieldValues} :
        q.ingress = "rest" => q.routing # "sent twice"}

MCRequests(s) ==
    {[Plain EXCEPT !.ingress = i, !.host = h, !.port = "valid"] : h \in Hosts, i \in {"rest", "connect"}}
    \cup {[Plain EXCEPT !.ingress = i, !.host = Host("address", a)] :
              a \in DOMAIN bareHostname, i \in {"rest", "http_proxy"}}
    \cup IF s.rules # <<>> THEN {}
         ELSE UNION {LET one == Changed([Plain EXCEPT !.ingress = i])
                     IN one \cup (IF s \in {Fine, Remote} THEN UNION {Changed(r) : r \in one} ELSE {}) :
                        i \in {"rest", "http_proxy", "connect"}}

World(answer, hops, bound, executable) ==
    [answer |-> answer, hops |-> hops, bound |-> bound, executable |-> executable]

\* Only a name without rules meets a resolver that fails, and a worker that is configured otherwise.
MCWorlds(st, px) ==
    IF st.host.kind = "address" THEN {World({}, {}, px.id, {"chrome"})}
    ELSE {World({a}, {}, px.id, {"chrome"}) : a \in MCAddress \ {"mapped"}}
         \cup {World({"pub", "priv"}, hops, px.id, {"chrome"}) : hops \in {{"ex"}, {"org", "www.ex"}}}
         \cup {World({"pub"}, hops, px.id, {"chrome"}) : hops \in {{"ex"}, {"org", "www.ex"}}}
         \cup {World({}, {}, px.id, {"chrome"}), World({"pub"}, {}, "y", {"chrome"}), World({"pub"}, {}, px.id, {})}
=============================================================================
