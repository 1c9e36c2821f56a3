---------------------------- MODULE MCAcmeRenewal ----------------------------
(* Small instances of AcmeRenewal for TLC, and which certificates it is     *)
(* given: a configuration's own and those of its automatic routes.          *)
EXTENDS AcmeRenewal

CONSTANT Unset   \* an optional entry of the file that is not there

File == INSTANCE ProxyConfig WITH Absent <- Unset

\* Two hosts, one of which an explicit certificate may cover; two named
\* providers, of which the file may define one.
Hosts == {<<"a", "com">>, <<"b", "com">>}

AcmeSections ==
    {[certs |-> <<[domains |-> ds, dns |-> "own"]>>, providers |-> ps, defaultDns |-> b] :
       ds \in {{}, {<<"a", "com">>}, {<<"c", "com">>}}, ps \in SUBSET {"p"}, b \in BOOLEAN}

AutoRoutes ==
    {[File!RouteConfig("r", File!RouteMatch(h, Unset, <<"/">>, {}, {}), "u") EXCEPT
        !.tls = [mode |-> "auto", provider |-> p]] : h \in Hosts \cup {Unset}, p \in {Unset, "p", "q"}}

ConfigOf(acme, routes) ==
    [File!DefaultConfig EXCEPT
       !.upstreams = [u \in {"u"} |-> <<1>>], !.routes = routes,
       !.tls = [mode |-> "acme", acme |-> acme, file |-> Unset]]

(***************************************************************************)
(* all_certs_with_providers passes over a domain without a provider, as    *)
(* its warning says "validation should have caught this": with a file that *)
(* validates, every automatic route that names a host is given a           *)
(* certificate, and from its own provider unless an explicit certificate   *)
(* has the host.                                                           *)
(***************************************************************************)
ASSUME AutoDomainsCovered ==
    \A acme \in AcmeSections, r1, r2 \in AutoRoutes :
       LET c == ConfigOf(acme, <<r1, r2>>)
           auto == File!AutoTlsDomains(c)
           certs == File!AllCerts(acme, auto)
           of(d) == {i \in DOMAIN certs : d \in certs[i].domains}
       IN File!validate(c) =>
            \A i \in DOMAIN auto :
               /\ of(auto[i].domain) # {}
               /\ 1 \in of(auto[i].domain) \/ \E k \in of(auto[i].domain) :
                     certs[k].dns = (IF auto[i].provider = Unset THEN "default" ELSE auto[i].provider)
=============================================================================
