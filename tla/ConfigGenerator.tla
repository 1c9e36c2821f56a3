-------------------------- MODULE ConfigGenerator --------------------------
(***************************************************************************)
(* From a snapshot of the store to the plan of one Gateway: the proxy's    *)
(* configuration, the ports of its Service, the Secrets it mounts and the  *)
(* status of its listeners.                                                *)
(*                                                                         *)
(* Names are sequences of the parts between dashes, so that joining two    *)
(* names with a dash is \o: the joined name does not tell where the first  *)
(* one ended.  Keys gives the "namespace/name" of all objects in the order *)
(* in which the code sorts them.                                           *)
(***************************************************************************)
EXTENDS AttachmentPlanner

CONSTANT Keys       \* a sequence of <<namespace, name>>, in string order

INSTANCE ProxyConfig

KeyOf(o) == <<o.ns, o.name>>

Rank(o) == CHOOSE i \in DOMAIN Keys : Keys[i] = KeyOf(o)

\* The routes of a kind in the order of their keys.
Sorted(routes, kind) ==
    SetToSortSeq({r \in routes : r.kind = kind}, LAMBDA x, y : Rank(x) < Rank(y))

\* A status gives a verdict for each parentRef; none before the first
\* reconcile of the route.
parents_accepted_by_wicket(status) == \E p \in DOMAIN status : IsAttached(status[p])

http_route_is_accepted(r) == parents_accepted_by_wicket(r.status)
stream_route_is_accepted(r) == parents_accepted_by_wicket(r.status)

----------------------------------------------------------------------------
(* Listeners.                                                              *)

Of(g, protocols) == SelectSeq(g.listeners, LAMBDA l : l.protocol \in protocols)

\* The HTTP listeners after the first, each address once.
additional_http_listens(http) ==
    LET more == [i \in 1..(Len(http) - 1) |-> http[i + 1].port]
    IN SelectSeq([i \in DOMAIN more |->
                    IF \E j \in 1..(i - 1) : more[j] = more[i] THEN Absent ELSE more[i]],
                 LAMBDA p : p # Absent)

ServerFor(g) ==
    LET http == Of(g, {"HTTP"})
        https == Of(g, {"HTTPS"})
        secure == IF https = <<>> THEN Absent ELSE https[1].port
    IN IF http # <<>>
       THEN [listen |-> http[1].port, httpListens |-> additional_http_listens(http),
             httpsListen |-> secure, disableHttp |-> FALSE]
       ELSE IF https # <<>>
       THEN [listen |-> secure, httpListens |-> <<>>, httpsListen |-> secure, disableHttp |-> TRUE]
       ELSE DefaultServer

----------------------------------------------------------------------------
(* HTTPRoutes.                                                             *)

\* The endpoints of a Service that are known, or its name in the cluster's DNS.
Servers(endpoints, r, b) ==
    LET key == <<NamespaceOr(b.ns, r.ns), b.name>>
    IN IF key \in DOMAIN endpoints
       THEN [i \in DOMAIN endpoints[key] |-> [ip |-> endpoints[key][i]]]
       ELSE <<[dns |-> key]>>

\* parse_duration_to_secs knows seconds, minutes and hours.
parse_duration(d) ==
    CASE d = Absent -> Absent
      [] d # Absent /\ d.unit = "s" -> d.num
      [] d # Absent /\ d.unit = "m" -> d.num * 60
      [] d # Absent /\ d.unit = "h" -> d.num * 3600
      [] OTHER -> Absent

\* Mutant: the host name of the route is left out.
RenderedForAnyHost(r, m) ==
    IF m.path = Absent THEN RouteMatch(Absent, Absent, <<"/">>, m.methods, m.headers)
    ELSE CASE m.path.type = "Exact" -> RouteMatch(Absent, m.path.value, Absent, m.methods, m.headers)
           [] m.path.type = "PathPrefix" ->
                 RouteMatch(Absent, Absent, m.path.value, m.methods, m.headers)
           [] m.path.type = "RegularExpression" -> Absent

\* The match of a rule as the proxy knows it; Absent for a regular expression.
Rendered(r, m) ==
    LET host == IF r.hostnames = <<>> THEN Absent ELSE Head(r.hostnames)
    IN IF m.path = Absent THEN RouteMatch(host, Absent, <<"/">>, m.methods, m.headers)
       ELSE CASE m.path.type = "Exact" -> RouteMatch(host, m.path.value, Absent, m.methods, m.headers)
              [] m.path.type = "PathPrefix" ->
                    RouteMatch(host, Absent, m.path.value, m.methods, m.headers)
              [] m.path.type = "RegularExpression" -> Absent

AnyRequest == [path |-> Absent, methods |-> {}, headers |-> {}]

\* The routes of one rule: one for each match, or one for every path.
RuleRoutes(r, i) ==
    LET rule == r.rules[i]
        matches == IF rule.matches = <<>> THEN <<AnyRequest>> ELSE rule.matches
        known == SelectSeq(matches, LAMBDA m : Rendered(r, m) # Absent)
    IN [k \in DOMAIN known |->
          [RouteConfig(<<r.ns, r.name, i, k>>, Rendered(r, known[k]), r.ns \o r.name \o <<i>>)
           EXCEPT !.timeout = parse_duration(rule.timeout)]]

\* The backends of one rule, those of all its Services one after the other.
RuleServers(endpoints, r, i) ==
    FlattenSeq([k \in DOMAIN r.rules[i].backends |->
                  Servers(endpoints, r, r.rules[i].backends[k])])

\* Mutant: a rule without a backend is rendered too.
LiveRulesAndOthers(endpoints, routes) ==
    LET rs == SelectSeq(Sorted(routes, "HTTPRoute"), http_route_is_accepted)
    IN FlattenSeq([k \in DOMAIN rs |-> [i \in DOMAIN rs[k].rules |-> <<rs[k], i>>]])

\* The rules with a backend, in the order they are rendered: <<route, rule>>.
LiveRules(endpoints, routes) ==
    LET rs == SelectSeq(Sorted(routes, "HTTPRoute"), http_route_is_accepted)
    IN FlattenSeq([k \in DOMAIN rs |->
          SelectSeq([i \in DOMAIN rs[k].rules |-> <<rs[k], i>>],
                    LAMBDA x : RuleServers(endpoints, x[1], x[2]) # <<>>)])

\* A later rule of the same joined name replaces the earlier one's backends.
HttpUpstreams(endpoints, routes) ==
    LET live == LiveRules(endpoints, routes)
        name(x) == x[1].ns \o x[1].name \o <<x[2]>>
    IN [n \in {name(live[k]) : k \in DOMAIN live} |->
          LET k == SelectLastInSeq(live, LAMBDA x : name(x) = n)
          IN RuleServers(endpoints, live[k][1], live[k][2])]

HttpRoutes(endpoints, routes) ==
    LET live == LiveRules(endpoints, routes)
    IN FlattenSeq([k \in DOMAIN live |-> RuleRoutes(live[k][1], live[k][2])])

----------------------------------------------------------------------------
(* Certificates.                                                           *)

CertRefs(g) ==
    UNION {{<<NamespaceOr(g.listeners[i].certs[k].ns, g.ns), g.listeners[i].certs[k].name>> :
              k \in DOMAIN g.listeners[i].certs} : i \in DOMAIN g.listeners}

\* tls_mount_dir: the directory of a Secret in the pod has only its name.
MountDir(secret) == secret[2]

\* One certificate for each Secret of a listener with a host name.
TlsCerts(g) ==
    LET named(secret) == {i \in DOMAIN g.listeners :
            /\ g.listeners[i].hostname # Absent
            /\ \E k \in DOMAIN g.listeners[i].certs :
                  secret = <<NamespaceOr(g.listeners[i].certs[k].ns, g.ns), g.listeners[i].certs[k].name>>}
    IN {[name |-> secret[2], dir |-> MountDir(secret),
         domains |-> {g.listeners[i].hostname : i \in named(secret)}] :
          secret \in {x \in CertRefs(g) : named(x) # {}}}

----------------------------------------------------------------------------
(* TLSRoutes and TCPRoutes share one stream listener.                      *)

\* The stream upstreams of the routes of a kind, in order; a name joins the
\* route's namespace and the Service's name.
StreamRefs(routes, kind) ==
    LET rs == SelectSeq(Sorted(routes, kind), stream_route_is_accepted)
    IN FlattenSeq([k \in DOMAIN rs |->
          [i \in DOMAIN BackendRefs(rs[k]) |-> [route |-> rs[k], ref |-> BackendRefs(rs[k])[i]]]])

StreamName(x) == x.route.ns \o x.ref.name

\* The first route to claim a host name keeps it.
SniRoutes(refs) ==
    LET claims(h) == SelectSeq(refs, LAMBDA x : h \in ToSet(x.route.hostnames))
        hosts == UNION {ToSet(refs[k].route.hostnames) : k \in DOMAIN refs}
    IN [h \in hosts |-> StreamName(Head(claims(h)))]

\* The first route without a host name takes what no other one claims.
CatchAll(refs) ==
    LET open == SelectSeq(refs, LAMBDA x : x.route.hostnames = <<>>)
    IN IF open = <<>> THEN Absent ELSE StreamName(Head(open))

StreamsFor(g, endpoints, routes) ==
    LET tls == StreamRefs(routes, "TLSRoute")
        all == tls \o StreamRefs(routes, "TCPRoute")
        l4 == Of(g, {"TCP", "TLS"})
    IN IF l4 = <<>> \/ {r \in routes : r.kind # "HTTPRoute"} = {} THEN <<>>
       ELSE <<[name |-> l4[1].port, listen |-> l4[1].port, sni |-> SniRoutes(tls),
               default |-> CatchAll(tls),
               upstreams |-> [k \in DOMAIN all |->
                   [name |-> StreamName(all[k]),
                    servers |-> Servers(endpoints, all[k].route, all[k].ref)]]]>>

----------------------------------------------------------------------------
(* GatewayRuntimePlanner::plan                                             *)

\* config_toml_from_snapshot: the Gateway and the routes that refer to it.
generate_config(s, g) ==
    LET routes == routes_for_gateway(s, g)
        certs == TlsCerts(g)
    IN [DefaultConfig EXCEPT
          !.server = ServerFor(g),
          !.upstreams = HttpUpstreams(s.endpoints, routes),
          !.routes = HttpRoutes(s.endpoints, routes),
          !.tls = IF certs = {} THEN Absent
                  ELSE [mode |-> "file", acme |-> Absent, file |-> SetToSeq(certs)],
          !.streams = StreamsFor(g, s.endpoints, routes)]

\* service_ports_from_listeners: names must differ, a port is opened once,
\* UDP is left out.  Absent when the names clash.
service_ports(g) ==
    LET names == {g.listeners[i].name : i \in DOMAIN g.listeners}
        open == Of(g, {"HTTP", "HTTPS", "TCP", "TLS"})
    IN IF Cardinality(names) < Len(g.listeners) THEN Absent
       ELSE SelectSeq([i \in DOMAIN open |-> IF \E j \in 1..(i - 1) : open[j].port = open[i].port
                                             THEN Absent ELSE open[i].port],
                      LAMBDA p : p # Absent)

TlsSecretMounts(g) == {[secret |-> x, dir |-> MountDir(x)] : x \in CertRefs(g)}

\* UDP listeners are turned away; the others take the one kind of their
\* protocol, if their own list allows it.
listener_status_intent(l) ==
    LET kind == KindFor(l.protocol)
    IN IF l.protocol = "UDP"
       THEN [accepted |-> FALSE, kinds |-> {}, attached |-> 0, refs |-> "ResolvedRefs"]
       ELSE [accepted |-> TRUE, attached |-> 0,
             kinds |-> IF l.kinds = {} \/ kind \in l.kinds THEN {kind} ELSE {},
             refs |-> IF l.kinds \subseteq {kind} THEN "ResolvedRefs" ELSE "InvalidRouteKinds"]

\* listener_status_intents_with_attachment: an accepted listener also counts
\* its routes, and reports one whose reference is not permitted.
listener_status(results, l) ==
    LET intent == listener_status_intent(l)
        denied == \E x \in results : x.listener \in {l.name, Absent} /\ x.status = "RefNotPermitted"
    IN IF ~intent.accepted THEN intent
       ELSE [intent EXCEPT !.attached = AttachedRoutes(results, l.name),
                           !.refs = IF @ = "ResolvedRefs" /\ denied THEN "RefNotPermitted" ELSE @]

\* The plan, or Absent when the planner returns an error.
plan(s, g) ==
    IF service_ports(g) = Absent THEN Absent
    ELSE [config |-> generate_config(s, g), ports |-> service_ports(g), mounts |-> TlsSecretMounts(g)]
=============================================================================
