----------------------------- MODULE MCHttpProxy -----------------------------
(* Small instances of HttpProxy for TLC, and the checks of the access log. *)
EXTENDS HttpProxy, AccessLog

CONSTANTS a, b      \* upstreams

Host(labels) == [labels |-> labels, port |-> FALSE]
Get(host, sni, path) ==
    [host |-> host, sni |-> sni, path |-> path, method |-> "GET", headers |-> {}]

\* Over TLS under the name asked for, with and without a final dot, and under
\* another; without TLS; and a path only the catch-all takes.
TheAsked ==
    {Get(Host(<<"x", "com">>), Host(<<"x", "com">>), <<"/", "p", "/", "q">>),
     Get(Host(<<"x", "com", "">>), Host(<<"x", "com">>), <<"/", "p">>),
     Get([labels |-> <<"x", "com">>, port |-> TRUE], Host(<<"y", "com">>), <<"/", "p">>),
     Get(Host(<<"y", "com">>), Absent, <<"/", "p">>),
     Get(Absent, Absent, <<"/">>)}

\* x.com below /p, with the prefix taken off; everything else, or nothing.
Named(u) == [RouteConfig("named", RouteMatch(<<"x", "com">>, Absent, <<"/", "p", "/">>, {}, {}), u)
             EXCEPT !.filters = UrlRewrite(FALSE, <<"/", "p">>)]
Wild(u)  == RouteConfig(Absent, RouteMatch(<<"*", "com">>, Absent, Absent, {}, {}), u)
Every(u) == RouteConfig("any", RouteMatch(Absent, Absent, <<"/">>, {"GET"}, {}), u)
Bad(u)   == RouteConfig("bad", RouteMatch(<<"x", "*">>, Absent, Absent, {}, {}), u)
Reads(u) == RouteConfig("headed", RouteMatch(Absent, <<"/">>, Absent, {}, {<<"X-Env", "dev">>}), u)

With(routes, clusters) == [DefaultConfig EXCEPT !.routes = routes, !.upstreams = clusters]

\* Upstream a moves to another backend and is dropped; b comes in; version 1
\* has a backend, version 2 a host, that cannot be built.
TheConfigs ==
    [v \in Versions |->
       CASE v = 0 -> With(<<Named(a), Wild(a)>>, a :> <<1, 2>>)
         [] v = 1 -> With(<<Named(a), Every(b)>>, a :> <<1>> @@ b :> <<Unresolvable>>)
         [] v = 2 -> With(<<Named(b), Bad(b)>>, b :> <<3>>)
         [] v = 3 -> With(<<Reads(a), Wild(a)>>, a :> <<3>>)
         [] OTHER -> With(<<Named(b), Every(b)>>, b :> <<2>>)]

-----------------------------------------------------------------------------
Fields == BoundedSeq({"\\", "quote", "newline", "tab", "n", "x"}, 3)

\* What a reader of the log makes of an escaped text.
unescape(text) ==
    LET plain == [n |-> "newline", r |-> "return", t |-> "tab"]
        from[i \in 1 .. Len(text) + 2] ==
            IF i > Len(text) THEN <<>>
            ELSE IF text[i] # "\\" THEN <<text[i]>> \o from[i + 1]
            ELSE <<IF text[i + 1] \in DOMAIN plain THEN plain[text[i + 1]] ELSE text[i + 1]>> \o from[i + 2]
    IN from[1]

\* Whatever a client sends, an entry is one line, no field ends early, and
\* a reader gets every field back.
ASSUME FieldsReadBack ==
    \A f \in Fields :
        LET e == escape(f)
        IN /\ ToSet(e) \cap {"newline", "return", "tab"} = {}
           /\ \A i \in DOMAIN e : e[i] = "quote" => i > 1 /\ e[i - 1] = "\\"
           /\ unescape(e) = f

\* Whatever a client sends, its entry is one line, and the quotes that are
\* not escaped are the ones the format has.
ASSUME OneLinePerEntry ==
    \A f, g \in BoundedSeq({"\\", "quote", "newline"}, 2), format \in {"combined", "json"} :
        LET line == write(format, [remote |-> <<"c">>, request |-> <<f, g>>, named |-> <<g, f>>])
            open[i \in 0 .. Len(line)] ==     \* characters up to i that are escapes
                IF i = 0 THEN {} ELSE open[i - 1] \cup IF line[i] = "\\" /\ i \notin open[i - 1] THEN {i + 1} ELSE {}
        IN /\ {i \in DOMAIN line : line[i] = "newline"} = {Len(line)}
           /\ Cardinality({i \in DOMAIN line : line[i] = "quote"} \ open[Len(line)])
                  = IF format = "combined" THEN 6 ELSE 10

\* A configuration that validates and asks for the access log gets one.
ASSUME LogWhenAsked ==
    \A l \in [access : BOOLEAN, files : BOOLEAN, unnamed : BOOLEAN] :
        LoggingValid(l) /\ l.access => from_config(l)
=============================================================================
