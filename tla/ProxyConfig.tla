---------------------------- MODULE ProxyConfig ----------------------------
(***************************************************************************)
(* The proxy's configuration file: what it holds, when Config::validate    *)
(* accepts it, and the values the proxy derives from it.                   *)
(*                                                                         *)
(* Data abstraction.  A path is the sequence of its characters, of which   *)
(* only "/" is told apart from the rest; a host name the sequence of its   *)
(* labels; an address is its port.  Of the logging section only what       *)
(* validate looks at is kept, of a header or method nothing but equality.  *)
(***************************************************************************)
EXTENDS Naturals, Sequences, FiniteSets, SequencesExt

CONSTANT Absent     \* an optional value that is not there

RouteMatch(host, path, prefix, methods, headers) ==
    [host |-> host, path |-> path, prefix |-> prefix, methods |-> methods, headers |-> headers]

RouteConfig(name, match, upstream) ==
    [name |-> name, match |-> match, upstream |-> upstream, tls |-> Absent, filters |-> Absent,
     timeout |-> Absent]

\* Of the filters only a rewrite is told apart; the others are unsupported.
UrlRewrite(full, to) == [unsupported |-> FALSE, rewrite |-> [hostname |-> FALSE, full |-> full, to |-> to]]

DefaultServer ==
    [listen |-> 8080, httpListens |-> <<>>, httpsListen |-> Absent, disableHttp |-> FALSE]

DefaultLogging == [access |-> FALSE, files |-> FALSE, unnamed |-> FALSE]

DefaultConfig ==
    [server |-> DefaultServer, upstreams |-> <<>>, routes |-> <<>>, tls |-> Absent,
     streams |-> <<>>, logging |-> DefaultLogging]

\* All HTTP sockets, the first one first and no address twice.
http_listen_addrs(server) ==
    LET all == <<server.listen>> \o server.httpListens
    IN SelectSeq([i \in DOMAIN all |->
                    IF \E j \in 1..(i - 1) : all[j] = all[i] THEN Absent ELSE all[i]],
                 LAMBDA a : a # Absent)

----------------------------------------------------------------------------
(* Config::validate                                                        *)

LoggingValid(log) ==
    /\ log.access => log.files
    /\ log.files => ~log.unnamed

\* Only a rewrite of the path is supported, and to an absolute path.
validate_route_filters(f) ==
    /\ ~f.unsupported
    /\ f.rewrite # Absent =>
          /\ ~f.rewrite.hostname
          /\ f.rewrite.to # Absent => f.rewrite.to # <<>> /\ Head(f.rewrite.to) = "/"

HasMatch(m) ==
    m.host # Absent \/ m.path # Absent \/ m.prefix # Absent \/ m.methods # {} \/ m.headers # {}

RouteValid(c, r) ==
    /\ r.upstream \in DOMAIN c.upstreams
    /\ r.filters # Absent => validate_route_filters(r.filters)
    /\ r.timeout = Absent
    /\ HasMatch(r.match)

validate_tls(tls) ==
    /\ tls.mode \in {"acme", "mixed"} =>
          IF tls.acme = Absent THEN tls.mode # "acme"
          ELSE tls.acme.certs # <<>> /\ \A i \in DOMAIN tls.acme.certs : tls.acme.certs[i].domains # {}
    /\ tls.mode \in {"file", "mixed"} =>
          IF tls.file = Absent THEN tls.mode # "file"
          ELSE /\ tls.file = <<>> => tls.mode # "file"
               /\ Cardinality({i \in DOMAIN tls.file : tls.file[i].domains = {}}) <= 1

is_auto(t) == t # Absent /\ t.mode = "auto"

\* A route's certificate: from a named DNS provider, from the default one,
\* or a file's.  Nothing is asked of a route when there is no TLS section.
validate_route_tls(tls, t) ==
    /\ is_auto(t) =>
          /\ tls.acme # Absent
          /\ IF t.provider # Absent THEN t.provider \in tls.acme.providers ELSE tls.acme.defaultDns
    /\ t # Absent /\ t.mode = "cert" =>
          tls.file # Absent /\ \E i \in DOMAIN tls.file : tls.file[i].name = t.cert

validate_stream(st) ==
    LET names == {st.upstreams[i].name : i \in DOMAIN st.upstreams}
    IN /\ st.default \in names \cup {Absent}
       /\ \A h \in DOMAIN st.sni : st.sni[h] \in names
       /\ st.upstreams # <<>>
       /\ \A i \in DOMAIN st.upstreams : st.upstreams[i].servers # <<>>

validate_streams(streams) ==
    /\ \A i \in DOMAIN streams : validate_stream(streams[i])
    /\ \A i, j \in DOMAIN streams :
          i # j => streams[i].name # streams[j].name /\ streams[i].listen # streams[j].listen

validate(c) ==
    /\ LoggingValid(c.logging)
    /\ \A i \in DOMAIN c.routes : RouteValid(c, c.routes[i])
    /\ \A u \in DOMAIN c.upstreams : c.upstreams[u] # <<>>
    /\ c.tls # Absent =>
          /\ validate_tls(c.tls)
          /\ \A i \in DOMAIN c.routes : validate_route_tls(c.tls, c.routes[i].tls)
    /\ validate_streams(c.streams)

----------------------------------------------------------------------------
(* Certificates a configuration asks for.                                  *)

\* collect_auto_tls_domains_with_providers: routes that name a host.
AutoTlsDomains(c) ==
    LET auto == SelectSeq(c.routes, LAMBDA r : is_auto(r.tls) /\ r.match.host # Absent)
    IN [i \in DOMAIN auto |-> [domain |-> auto[i].match.host, provider |-> auto[i].tls.provider]]

\* The provider a domain is validated with: the named one, or the default.
DnsFor(acme, d) ==
    IF d.provider # Absent
    THEN IF d.provider \in acme.providers THEN d.provider ELSE Absent
    ELSE IF acme.defaultDns THEN "default" ELSE Absent

\* all_certs_with_providers: the explicit certificates, then one for every
\* automatic domain they do not cover and that has a provider.
AllCerts(acme, auto) ==
    LET covered == UNION {acme.certs[i].domains : i \in DOMAIN acme.certs}
        more == SelectSeq(auto, LAMBDA d : d.domain \notin covered /\ DnsFor(acme, d) # Absent)
    IN acme.certs \o [i \in DOMAIN more |-> [domains |-> {more[i].domain}, dns |-> DnsFor(acme, more[i])]]

----------------------------------------------------------------------------
(* Host and path matching of the HTTP router.                              *)

\* HostMatcher::compile: a star in front, followed by a dot, or none at all.
HostCompiles(pattern) ==
    (Head(pattern) = "*" /\ Len(pattern) > 1) \/ "*" \notin ToSet(pattern)

HostMatches(pattern, host) ==
    IF Head(pattern) = "*"
    THEN Len(host) = Len(pattern) /\ Tail(host) = Tail(pattern)
    ELSE host = pattern

\* A prefix is one of characters; "/a/" also matches "/a".
PrefixMatches(prefix, path) ==
    \/ IsPrefix(prefix, path)
    \/ prefix # <<>> /\ Last(prefix) = "/" /\ path = Front(prefix)

PathMatches(m, path) ==
    IF m.path # Absent THEN path = m.path
    ELSE m.prefix # Absent => PrefixMatches(m.prefix, path)

\* CompiledRoute::matches.  A header is a pair of a name and a value; the
\* names of a request are in lower case, a route's are as they were written.
RouteMatches(m, q) ==
    /\ m.host # Absent => q.host # Absent /\ HostMatches(m.host, q.host)
    /\ PathMatches(m, q.path)
    /\ m.methods # {} => q.method \in m.methods
    /\ m.headers \subseteq q.headers

\* Router::build fails on a pattern it cannot compile.
RouterBuilds(c) ==
    \A i \in DOMAIN c.routes : c.routes[i].match.host # Absent => HostCompiles(c.routes[i].match.host)

\* Router::match_request: the first route that matches, or 0.
match_request(routes, q) ==
    SelectInSeq(routes, LAMBDA r : RouteMatches(r.match, q))

\* The prefix a rewrite replaces.
matched_path_prefix(m, path) ==
    IF m.path # Absent THEN m.path ELSE IF m.prefix # Absent THEN m.prefix ELSE path

TrimSlashes(p) ==
    LET n == CHOOSE k \in 0..Len(p) :
                /\ \A i \in (k + 1)..Len(p) : p[i] = "/"
                /\ k > 0 => p[k] # "/"
    IN SubSeq(p, 1, n)

replace_path_prefix(path, prefix, to) ==
    LET rest == IF IsPrefix(prefix, path) THEN SubSeq(path, Len(prefix) + 1, Len(path)) ELSE path
        slashEnd == to # <<>> /\ Last(to) = "/"
        slashStart == rest # <<>> /\ Head(rest) = "/"
    IN IF rest = <<>> THEN to
       ELSE IF slashEnd /\ slashStart THEN TrimSlashes(to) \o rest
       ELSE IF slashEnd \/ slashStart THEN to \o rest
       ELSE to \o <<"/">> \o rest

\* The path that is sent to the upstream; the query stays as it was.
rewrite_path_and_query(path, prefix, rewrite) ==
    IF rewrite = Absent \/ rewrite.to = Absent THEN path
    ELSE IF rewrite.full THEN rewrite.to
    ELSE replace_path_prefix(path, prefix, rewrite.to)

----------------------------------------------------------------------------
(* SNI routing of a stream listener.                                       *)

SniPatternMatches(pattern, host) ==
    IF Head(pattern) = "*"
    THEN Len(host) = Len(pattern) /\ Tail(host) = Tail(pattern)
    ELSE host = pattern

\* SniRouter: exact patterns first, then the wildcards, longest suffix
\* first.  Two wildcards of one length never match the same name.
match_sni(st, sni) ==
    LET fits == IF sni = Absent THEN {} ELSE {p \in DOMAIN st.sni : SniPatternMatches(p, sni)}
        exact == {p \in fits : Head(p) # "*"}
        best == IF exact # {} THEN CHOOSE p \in exact : TRUE
                ELSE CHOOSE p \in fits : \A o \in fits : Len(o) <= Len(p)
    IN IF fits = {} THEN st.default ELSE st.sni[best]
=============================================================================
