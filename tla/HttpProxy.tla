------------------------------ MODULE HttpProxy ------------------------------
(***************************************************************************)
(* HTTP requests while the configuration is being replaced.                *)
(*                                                                         *)
(* Source: crates/wicket-core/src/proxy.rs (WicketProxy, apply_reload and  *)
(* the ProxyHttp callbacks); the matching itself is in ProxyConfig.        *)
(*                                                                         *)
(* Router and upstreams live in two slots that are stored one after the    *)
(* other and loaded by two callbacks.  Pingora, external, calls new_ctx,   *)
(* request_filter, upstream_peer (again when a pooled connection turns out *)
(* to be closed), upstream_request_filter and logging for each request.    *)
(*                                                                         *)
(* A request is [host, sni, path, method, headers].  A host is its labels  *)
(* and whether a port follows; a dot at the end is an empty last label.    *)
(***************************************************************************)
EXTENDS Integers, ProxyConfig

CONSTANTS
    Requests,       \* request slots
    Asked,          \* what requests ask for
    MaxVersion,     \* bound: configurations
    Configs,        \* the configuration of each version
    Unresolvable,   \* a backend whose address cannot be resolved
    MaxRetries      \* bound: repeated calls of upstream_peer

Versions == 0 .. MaxVersion

\* LoadBalancer::try_from_iter refuses an address it cannot resolve.
UpstreamsBuild(c) == \A u \in DOMAIN c.upstreams : Unresolvable \notin ToSet(c.upstreams[u])

\* What parsing the file gives: its lists are sequences, its paths and the
\* paths of requests sequences of characters.
IsList(s) == s \in Seq(ToSet(s))
IsPath(p) == p \in Seq(STRING)

Parsed(c) ==
    /\ IsList(c.routes)
    /\ \A u \in DOMAIN c.upstreams : IsList(c.upstreams[u])
    /\ \A i \in DOMAIN c.routes :
         LET m == c.routes[i].match
             f == c.routes[i].filters
         IN /\ m.path # Absent => IsPath(m.path)
            /\ m.prefix # Absent => IsPath(m.prefix)
            /\ (f # Absent /\ f.rewrite # Absent /\ f.rewrite.to # Absent) => IsPath(f.rewrite.to)

\* Every configuration comes from Config::load, which validates it.
ASSUME HttpProxyAssumption ==
    /\ MaxVersion \in Nat
    /\ MaxRetries \in Nat
    /\ IsFiniteSet(Requests)
    /\ \A q \in Asked : IsPath(q.path)
    /\ DOMAIN Configs = Versions
    /\ \A v \in Versions : Parsed(Configs[v]) /\ validate(Configs[v])
    /\ RouterBuilds(Configs[0])
    /\ UpstreamsBuild(Configs[0])

VARIABLES
    router,     \* version in the router slot
    upstreams,  \* version in the upstreams slot
    tried,      \* last version given to reload
    rpc,        \* where apply_reload is
    req,        \* the requests, with what their WicketCtx holds
    active,     \* HTTP_REQUESTS_ACTIVE, by route
    conns,      \* UPSTREAM_CONNECTIONS_ACTIVE, by upstream
    clients,    \* CLIENT_CONNECTIONS_ACTIVE
    retries,    \* calls of upstream_peer for a second time, so far
    overlapped  \* history: a slot was stored between its loads

vars == <<router, upstreams, tried, rpc, req, active, conns, clients, retries,
          overlapped>>
gauges == <<active, conns, clients>>
slots  == <<router, upstreams, tried, rpc>>

\* The names a route may be counted under, and those of the upstreams.
Labels    == UNION {{Configs[v].routes[i].name : i \in DOMAIN Configs[v].routes} : v \in Versions}
Upstreams == UNION {DOMAIN Configs[v].upstreams : v \in Versions}

NoRequest == [pc |-> "none", ask |-> Absent, match |-> Absent, timed |-> FALSE,
              peer |-> Absent, sent |-> Absent, status |-> 0]

Init ==
    /\ router = 0
    /\ upstreams = 0
    /\ tried = 0
    /\ rpc = "idle"
    /\ req = [r \in Requests |-> NoRequest]
    /\ active = [l \in Labels \cup Upstreams |-> 0]
    /\ conns = [u \in Upstreams |-> 0]
    /\ clients = 0
    /\ retries = 0
    /\ overlapped = {}

-----------------------------------------------------------------------------
\* A slot is stored while these requests may still load the second one.
Overlap == overlapped' = overlapped \cup {r \in Requests : req[r].pc \in {"peer", "connect", "sent"}}

\* apply_reload builds both parts before it stores either.
Reload ==
    /\ rpc = "idle"
    /\ tried < MaxVersion
    /\ tried' = tried + 1
    /\ rpc' = IF RouterBuilds(Configs[tried']) /\ UpstreamsBuild(Configs[tried'])
              THEN "built" ELSE "idle"
    /\ UNCHANGED <<router, upstreams, req, gauges, overlapped, retries>>

StoreRouter ==
    /\ rpc = "built"
    /\ router' = tried
    /\ rpc' = "half"
    /\ Overlap
    /\ UNCHANGED <<upstreams, tried, req, gauges, retries>>

StoreUpstreams ==
    /\ rpc = "half"
    /\ upstreams' = tried
    /\ rpc' = "idle"
    /\ Overlap
    /\ UNCHANGED <<router, tried, req, gauges, retries>>

-----------------------------------------------------------------------------
NewCtx(r) ==
    /\ req[r].pc = "none"
    /\ req' = [req EXCEPT ![r] = [NoRequest EXCEPT !.pc = "filter"]]
    /\ clients' = clients + 1
    /\ overlapped' = overlapped \ {r}
    /\ UNCHANGED <<slots, active, conns, retries>>

\* Dots at the very end go first, then the port: "a.com.:443" keeps its dot.
normalize_hostname(h) ==
    IF ~h.port /\ h.labels # <<>> /\ Last(h.labels) = "" THEN Front(h.labels) ELSE h.labels

same_hostname(host, sni) == normalize_hostname(host) = normalize_hostname(sni)

MisdirectedBy(q) == q.sni # Absent /\ q.host # Absent /\ ~same_hostname(q.host, q.sni)

\* Host and SNI differ: 421, before any route is looked up.
Misdirected(r) ==
    /\ req[r].pc = "filter"
    /\ \E q \in Asked :
         /\ MisdirectedBy(q)
         /\ req' = [req EXCEPT ![r].pc = "log", ![r].ask = q, ![r].status = 421]
    /\ UNCHANGED <<slots, gauges, overlapped, retries>>

\* What the router compares: the host without its port.
Properties(q) == [q EXCEPT !.host = IF q.host = Absent THEN Absent ELSE q.host.labels]

\* Router::match_request's RouteMatch, or Absent.
MatchIn(c, q) ==
    LET i == match_request(c.routes, Properties(q))
        rt == c.routes[i]
    IN IF i = 0 THEN Absent
       ELSE [label |-> IF rt.name = Absent THEN rt.upstream ELSE rt.name,
             upstream |-> rt.upstream,
             rewrite |-> IF rt.filters = Absent THEN Absent ELSE rt.filters.rewrite,
             prefix |-> matched_path_prefix(rt.match, q.path)]

\* Mutant: routes are taken from the newest configuration, built or not.
RequestFilterEarly(r) ==
    /\ req[r].pc = "filter"
    /\ \E q \in Asked :
         LET m == MatchIn(Configs[tried], q)
         IN /\ ~MisdirectedBy(q)
            /\ req' = [req EXCEPT ![r].pc = "peer", ![r].ask = q, ![r].match = m]
            /\ active' = IF m = Absent THEN active ELSE [active EXCEPT ![m.label] = @ + 1]
    /\ overlapped' = IF rpc = "half" THEN overlapped \cup {r} ELSE overlapped
    /\ UNCHANGED <<slots, conns, clients, retries>>

RequestFilter(r) ==
    /\ req[r].pc = "filter"
    /\ \E q \in Asked :
         LET m == MatchIn(Configs[router], q)
         IN /\ ~MisdirectedBy(q)
            /\ req' = [req EXCEPT ![r].pc = "peer", ![r].ask = q, ![r].match = m]
            /\ active' = IF m = Absent THEN active ELSE [active EXCEPT ![m.label] = @ + 1]
    /\ overlapped' = IF rpc = "half" THEN overlapped \cup {r} ELSE overlapped
    /\ UNCHANGED <<slots, conns, clients, retries>>

NoRoute(r) ==
    /\ req[r].pc = "peer"
    /\ req[r].match = Absent
    /\ req' = [req EXCEPT ![r].pc = "log", ![r].status = 404]
    /\ UNCHANGED <<slots, gauges, overlapped, retries>>

\* get_peer loads the upstreams slot.  The balancers' health checks are
\* never run, so a cluster that is there has a backend to offer.
select_peer(r) ==
    LET clusters == Configs[upstreams].upstreams
        u == req[r].match.upstream
    IN IF u \in DOMAIN clusters THEN ToSet(clusters[u]) ELSE {}

NoPeer(r) ==
    /\ req[r].pc = "peer"
    /\ req[r].match # Absent
    /\ select_peer(r) = {}
    /\ req' = [req EXCEPT ![r].pc = "log", ![r].status = 503]
    /\ UNCHANGED <<slots, gauges, overlapped, retries>>

UpstreamPeer(r) ==
    /\ req[r].pc = "peer"
    /\ req[r].match # Absent
    /\ \E b \in select_peer(r) :
         req' = [req EXCEPT ![r].pc = "connect", ![r].timed = TRUE, ![r].peer = b]
    /\ conns' = [conns EXCEPT ![req[r].match.upstream] = @ + 1]
    /\ UNCHANGED <<slots, active, clients, overlapped, retries>>

\* The request that goes out: its path rewritten, X-Request-Id and
\* X-Forwarded-For added.
UpstreamRequestFilter(r) ==
    /\ req[r].pc = "connect"
    /\ LET m == req[r].match
       IN req' = [req EXCEPT ![r].pc = "sent",
                             ![r].sent = rewrite_path_and_query(req[r].ask.path, m.prefix, m.rewrite)]
    /\ UNCHANGED <<slots, gauges, overlapped, retries>>

\* Pingora tries again when the pooled connection it took was closed.
Retry(r) ==
    /\ req[r].pc = "sent"
    /\ retries < MaxRetries
    /\ retries' = retries + 1
    /\ req' = [req EXCEPT ![r].pc = "peer"]
    /\ UNCHANGED <<slots, gauges, overlapped>>

\* The connection or the path that was put together is refused.
SendFails(r) ==
    /\ req[r].pc = "connect"
    /\ \E s \in {500, 502} : req' = [req EXCEPT ![r].pc = "log", ![r].status = s]
    /\ UNCHANGED <<slots, gauges, overlapped, retries>>

Respond(r) ==
    /\ req[r].pc = "sent"
    /\ \E s \in {200, 502} : req' = [req EXCEPT ![r].pc = "log", ![r].status = s]
    /\ UNCHANGED <<slots, gauges, overlapped, retries>>

\* Mutant: a request that never had a peer is not taken back.
LoggingConnected(r) ==
    /\ req[r].pc = "log"
    /\ req' = [req EXCEPT ![r] = NoRequest]
    /\ clients' = clients - 1
    /\ active' = IF ~req[r].timed THEN active ELSE [active EXCEPT ![req[r].match.label] = @ - 1]
    /\ conns' = IF req[r].timed THEN [conns EXCEPT ![req[r].match.upstream] = @ - 1] ELSE conns
    /\ UNCHANGED <<slots, overlapped, retries>>

\* logging: each gauge is taken back by what the context holds.
Logging(r) ==
    /\ req[r].pc = "log"
    /\ req' = [req EXCEPT ![r] = NoRequest]
    /\ clients' = clients - 1
    /\ active' = IF req[r].match = Absent THEN active ELSE [active EXCEPT ![req[r].match.label] = @ - 1]
    /\ conns' = IF req[r].timed THEN [conns EXCEPT ![req[r].match.upstream] = @ - 1] ELSE conns
    /\ UNCHANGED <<slots, overlapped, retries>>

Next ==
    \/ Reload \/ StoreRouter \/ StoreUpstreams
    \/ \E r \in Requests :
         \/ NewCtx(r) \/ Misdirected(r) \/ RequestFilter(r) \/ NoRoute(r) \/ NoPeer(r)
         \/ UpstreamPeer(r) \/ UpstreamRequestFilter(r) \/ Retry(r) \/ SendFails(r)
         \/ Respond(r) \/ Logging(r)

Spec == Init /\ [][Next]_vars

-----------------------------------------------------------------------------
InFlight == {r \in Requests : req[r].pc # "none"}

\* What a configuration alone would do with a request that has got this far.
ServedBy(c, x) ==
    LET m == MatchIn(c, x.ask)
    IN /\ x.status # 503
       /\ x.match = m
       /\ x.status = 404 => m = Absent
       /\ x.peer # Absent => m # Absent /\ x.peer \in ToSet(c.upstreams[m.upstream])
       /\ x.sent # Absent =>
             /\ Head(x.sent) = "/"
             /\ x.sent = rewrite_path_and_query(x.ask.path, m.prefix, m.rewrite)

(***************************************************************************)
(* A request during which no slot was stored is served by one              *)
(* configuration from the match to the peer: one that could be built, by   *)
(* the first route that matches and a backend of its upstream, under an    *)
(* absolute path that was rewritten once however often it was retried; it  *)
(* is never refused for want of its upstream.                              *)
(***************************************************************************)
QuietRequestsServedByOne ==
    \A r \in InFlight :
        r \notin overlapped /\ req[r].pc \notin {"none", "filter"} /\ req[r].status # 421
          => \E v \in 0 .. tried :
                /\ RouterBuilds(Configs[v]) /\ UpstreamsBuild(Configs[v])
                /\ ServedBy(Configs[v], req[r])

(***************************************************************************)
(* However requests end (421, 404, 503, an upstream error, an answer), the *)
(* gauges of active requests and of client connections count exactly the   *)
(* requests in flight.                                                     *)
(***************************************************************************)
RequestGaugesExact ==
    /\ clients = Cardinality(InFlight)
    /\ \A l \in DOMAIN active :
         active[l] = Cardinality({r \in InFlight : req[r].match # Absent /\ req[r].match.label = l})
=============================================================================
