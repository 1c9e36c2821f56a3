--------------------------- MODULE MCControlPlane ---------------------------
(* Small clusters for TLC, each with the changes that may happen to it. *)
EXTENDS ControlPlane

n  == <<"n">>
m  == <<"m">>
ab == <<"a", "b">>
A  == <<"a">>

AtA == <<"a", "com">>
AtB == <<"b", "com">>
AnyCom == <<"*", "com">>

TheKeys == <<<<A, <<"b", "c">>>>, <<ab, <<"c">>>>, <<m, <<"r">>>>, <<n, <<"r">>>>, <<n, <<"t">>>>>>

TheRequests ==
    [host : {AtA, AtB, Absent}, path : {<<"/">>, <<"/", "x">>}, method : {"GET"}, headers : {{}}]

TheNames == {AtA, AtB, <<"c", "org">>, Absent}

----------------------------------------------------------------------------
Class(controller, accepted, leaving) ==
    [kind |-> "GatewayClass", ns |-> <<>>, name |-> <<"c">>, controller |-> controller,
     accepted |-> accepted, leaving |-> leaving]
C == Class("wicket", TRUE, FALSE)

Listen(name, hostname, port, protocol, certs, from) ==
    [name |-> name, hostname |-> hostname, port |-> port, protocol |-> protocol,
     certs |-> certs, from |-> from, selector |-> Absent, kinds |-> {}]

Web(from) == Listen("web", Absent, 80, "HTTP", <<>>, from)

GatewayOf(listeners, leaving) ==
    [kind |-> "Gateway", ns |-> n, name |-> <<"g">>, class |-> <<"c">>, listeners |-> listeners,
     status |-> <<>>, leaving |-> leaving]

To(ns, section) == [gateway |-> TRUE, ns |-> ns, name |-> <<"g">>, section |-> section, port |-> Absent]

Ref(ns, name) == [core |-> TRUE, ns |-> ns, name |-> name]

Rule(backends, matches, timeout) == [backends |-> backends, matches |-> matches, timeout |-> timeout]

Under(prefix) == [path |-> [type |-> "PathPrefix", value |-> prefix], methods |-> {}, headers |-> {}]
Only(path)    == [path |-> [type |-> "Exact", value |-> path], methods |-> {"GET"}, headers |-> {}]
Like(path)    == [path |-> [type |-> "RegularExpression", value |-> path], methods |-> {}, headers |-> {}]

RouteOf(kind, ns, name, parents, hostnames, rules, leaving) ==
    [kind |-> kind, ns |-> ns, name |-> name, parents |-> parents, hostnames |-> hostnames,
     rules |-> rules, status |-> <<>>, leaving |-> leaving]

ServiceOf(ns, name) == [kind |-> "Service", ns |-> ns, name |-> name, leaving |-> FALSE]

Slice(name, ready) ==
    [kind |-> "EndpointSlice", ns |-> n, name |-> name, service |-> <<"s">>, ready |-> ready,
     leaving |-> FALSE]

SecretOf(ns, name, crt, key, leaving) ==
    [kind |-> "Secret", ns |-> ns, name |-> name, type |-> "kubernetes.io/tls", crt |-> crt,
     key |-> key, leaving |-> leaving]

Grant(leaving) ==
    [kind |-> "ReferenceGrant", ns |-> n, name |-> <<"p">>,
     from |-> {[kind |-> "HTTPRoute", ns |-> m]}, to |-> {[kind |-> "Service", name |-> Absent]},
     leaving |-> leaving]

put(o)     == [what |-> "put", to |-> o]
delete(o)  == [what |-> "delete", id |-> IdOf(o)]
fault(i)   == [what |-> "fault", nr |-> i]
restart    == [what |-> "restart"]

World(start, changes) ==
    [start |-> start, changes |-> changes, together |-> TRUE, settled |-> TRUE, readonly |-> FALSE]

----------------------------------------------------------------------------
S == ServiceOf(n, <<"s">>)
Plain == RouteOf("HTTPRoute", n, <<"r">>, {To(Absent, "web")}, <<AtA>>,
                 <<Rule(<<Ref(Absent, <<"s">>)>>, <<>>, Absent)>>, FALSE)

\* The controllers start in any order while a slice goes away.
Boot == [World({Class("wicket", FALSE, FALSE), GatewayOf(<<Web("All")>>, FALSE), Plain, Slice(<<"1">>, {1})},
               {delete(Slice(<<"1">>, {1}))}) EXCEPT !.together = FALSE, !.settled = FALSE]

\* Endpoints move between two slices while both are being reconciled.
Slices == World({C, GatewayOf(<<Web("All")>>, FALSE), Plain,
                 Slice(<<"1">>, {1})},
                {put(Slice(<<"2">>, {2})), put(Slice(<<"1">>, {}))})

\* A route is edited and leaves; the controller is restarted.
Leave == World({C, GatewayOf(<<Web("All")>>, FALSE), Plain, S},
               {put([Plain EXCEPT !.hostnames = <<AnyCom>>,
                      !.rules = <<Rule(<<>>, <<>>, Absent),
                                  Rule(<<Ref(Absent, <<"s">>)>>, <<Only(<<"/", "x">>), Like(<<"/">>)>>, Absent)>>]),
                put([Plain EXCEPT !.leaving = TRUE]), fault(1), restart})

\* A route of another namespace, its grant, and a Gateway that lets it in no
\* longer.
Foreign == RouteOf("HTTPRoute", m, <<"r">>, {To(n, "web"), To(n, Absent)}, <<>>,
                   <<Rule(<<Ref(n, <<"s">>)>>, <<Under(<<"/">>)>>, Absent)>>, FALSE)
Grants == World({C, GatewayOf(<<Web("All")>>, FALSE), Foreign},
                {put(Grant(FALSE)), put(Grant(TRUE)), put(GatewayOf(<<Web("Same")>>, FALSE))})

\* TLSRoutes and a TCPRoute behind one Gateway.
Layer4 == <<Listen("tls", Absent, 443, "TLS", <<>>, "All"), Listen("tcp", Absent, 900, "TCP", <<>>, "Same")>>
Named(hosts) == RouteOf("TLSRoute", n, <<"r">>, {To(Absent, "tls")}, hosts,
                        <<Rule(<<Ref(Absent, <<"s">>)>>, <<>>, Absent)>>, FALSE)
Rest == RouteOf("TLSRoute", n, <<"t">>, {To(Absent, Absent)}, <<>>,
                <<Rule(<<Ref(Absent, <<"u">>)>>, <<>>, Absent)>>, FALSE)
Tcp(name) == RouteOf("TCPRoute", n, name, {To(Absent, "tcp")}, <<>>,
                     <<Rule(<<Ref(Absent, <<"s">>)>>, <<>>, Absent)>>, FALSE)
Streams == World({C, GatewayOf(Layer4, FALSE), Named(<<AtA, AnyCom>>), Rest},
                 {put(Tcp(<<"t">>)), put(Named(<<AtB>>)), delete(Rest)})

\* A pair is replaced, garbled, and hard to write.
Https == <<Listen("sec", AtA, 443, "HTTPS", <<[ns |-> Absent, name |-> <<"k">>]>>, "Same"),
           Listen("alt", AtB, 443, "HTTPS", <<[ns |-> Absent, name |-> <<"k">>]>>, "Same")>>
Certificates == World({C, GatewayOf(Https, FALSE), SecretOf(n, <<"k">>, 1, 1, FALSE)},
                      {put(SecretOf(n, <<"k">>, 2, 2, FALSE)), fault(1), restart,
                       delete(SecretOf(n, <<"k">>, 2, 2, FALSE))})

\* Two Secrets with one path, one of them leaving, in a directory that can be written or not.
Refs(x) == <<Listen("sec", AtA, 443, "HTTPS", x, "Same"), Web("All")>>
SharedPath == World({C,
                     GatewayOf(Refs(<<[ns |-> ab, name |-> <<"c">>], [ns |-> A, name |-> <<"b", "c">>]>>), FALSE),
                     SecretOf(ab, <<"c">>, 1, 1, FALSE)},
                    {put(SecretOf(A, <<"b", "c">>, 2, 1, FALSE)), put(SecretOf(ab, <<"c">>, 3, 3, TRUE))})
ReadOnly == [SharedPath EXCEPT !.readonly = TRUE]

\* A slice and a Secret are there before anything refers to them.
Unasked == World({C, GatewayOf(<<Web("All")>>, FALSE), Slice(<<"1">>, {1}), SecretOf(n, <<"k">>, 1, 1, FALSE)},
                 {put(Plain), put(S), put(GatewayOf(<<Web("All")>> \o Https, FALSE))})

\* The class and the Gateway pass to another controller.
Taken == World({C, GatewayOf(<<Web("All")>>, FALSE), Plain},
               {put(Class("other", TRUE, FALSE)), put(Class("wicket", TRUE, TRUE)), put(GatewayOf(<<Web("All"), Web("All")>>, FALSE)),
                put(GatewayOf(<<Web("All")>>, TRUE))})

\* Joined names that clash, a timeout, and a stream without a backend.
Joined(ns, name, timeout) ==
    RouteOf("HTTPRoute", ns, name, {To(n, "web")}, <<AtA>>,
            <<Rule(<<Ref(Absent, name)>>, <<Under(<<"/", "x">>)>>, timeout)>>, FALSE)
Empty == RouteOf("TLSRoute", n, <<"r">>, {To(Absent, "tls")}, <<AtA>>, <<Rule(<<>>, <<>>, Absent)>>, FALSE)
Odd == World({C, GatewayOf(<<Web("All")>> \o Layer4, FALSE),
              Joined(ab, <<"c">>, Absent)},
             {put(Joined(A, <<"b", "c">>, Absent)), put(Joined(ab, <<"c">>, [num |-> 3, unit |-> "m"])),
              put(Empty)})


\* The first list of Secrets fails while one of them is replaced.
HardStart == [World({C, GatewayOf(Https, FALSE), SecretOf(n, <<"k">>, 1, 1, FALSE), SecretOf(m, <<"j">>, 3, 3, FALSE)},
                    {put(SecretOf(n, <<"k">>, 2, 2, FALSE)), fault(1)}) EXCEPT !.settled = FALSE]

TheWorlds == <<Boot, Slices, Leave, Grants, Streams, Certificates, SharedPath, ReadOnly, Unasked,
               Taken, Odd, HardStart>>

\* The objects of every world are ones the API server takes.
ASSUME ObjectsTyped ==
    \A i \in DOMAIN Worlds : \A o \in Objects(Worlds[i]) :
        /\ o.kind \in ResourceKinds
        /\ o.kind = "HTTPRoute" => HTTPRoute(o)
        /\ o.kind = "TCPRoute" => TCPRoute(o)
        /\ o.kind = "TLSRoute" => TLSRoute(o)
        /\ o.kind = "Gateway" => Gateway(o)
        /\ o.kind = "GatewayClass" => GatewayClass(o)
        /\ o.kind = "ReferenceGrant" => ReferenceGrant(o)
====
