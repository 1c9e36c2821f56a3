--------------------------- MODULE RouteVerdicts ---------------------------
(***************************************************************************)
(* The Accepted condition a route reconciler gives a parentRef, and the    *)
(* listener status the Gateway reconciler reports.                         *)
(*                                                                         *)
(* Three reconcilers have the same code for three kinds: one operator says *)
(* what they share and the operators named after the source say how they   *)
(* differ.  A verdict is the reason of the condition; one for which        *)
(* IsAttached holds is Accepted = True.                                    *)
(***************************************************************************)
EXTENDS ResourceStore

\* The listener a sectionName names, as the Gateway's own spec has it.
FromSpec(kind, g, p) ==
    LET named == SelectSeq(g.listeners, LAMBDA l : l.name = p.section)
    IN IF named = <<>> THEN "NoMatchingParent"
       ELSE IF ~protocol_compatible(kind, named[1].protocol) THEN "NotAllowedByListenerProtocol"
       ELSE IF p.port \notin {Absent, named[1].port} THEN "NoMatchingParent"
       ELSE "Attached"

http_only_condition_from_spec(g, p) == FromSpec("HTTPRoute", g, p)
tcp_only_condition_from_spec(g, p)  == FromSpec("TCPRoute", g, p)
tls_only_condition_from_spec(g, p)  == FromSpec("TLSRoute", g, p)

\* The planner's result for the parentRef, when it has one; the snapshot may
\* hold an older copy of the route and of the Gateway.
Planned(snap, g, r, p) ==
    LET held == {x \in snap.gateways : KeyOf(x) = KeyOf(g)}
    IN IF snap = Absent \/ held = {} THEN Absent
       ELSE ResultFor(RouteResults(snap, CHOOSE x \in held : TRUE), r, p)

\* An HTTPRoute keeps the reason an attached route's backend is missing.
http_condition_from_plan(snap, g, r, p) ==
    LET result == Planned(snap, g, r, p)
    IN IF result = Absent THEN http_only_condition_from_spec(g, p) ELSE result.status

\* TCPRoutes and TLSRoutes say "Attached" whatever becomes of the backends.
Flattened(status) == IF IsAttached(status) THEN "Attached" ELSE status

tcp_condition_from_plan(snap, g, r, p) ==
    LET result == Planned(snap, g, r, p)
    IN IF result = Absent THEN tcp_only_condition_from_spec(g, p) ELSE Flattened(result.status)

tls_condition_from_plan(snap, g, r, p) ==
    LET result == Planned(snap, g, r, p)
    IN IF result = Absent THEN tls_only_condition_from_spec(g, p) ELSE Flattened(result.status)

\* A parentRef without a sectionName: some listener's protocol and port fit.
SomeListenerFits(kind, g, p) ==
    \E i \in DOMAIN g.listeners :
        protocol_compatible(kind, g.listeners[i].protocol) /\ p.port \in {Absent, g.listeners[i].port}

http_route_gateway_wide_condition_from_spec(g, p) ==
    IF SomeListenerFits("HTTPRoute", g, p) THEN "Attached" ELSE "NoMatchingParent"

\* TCPRoutes and TLSRoutes give another reason.
tcp_gateway_wide(g, p) ==
    IF SomeListenerFits("TCPRoute", g, p) THEN "Attached" ELSE "NoMatchingListener"

tls_gateway_wide(g, p) ==
    IF SomeListenerFits("TLSRoute", g, p) THEN "Attached" ELSE "NoMatchingListener"

\* gw is the Gateway in the API server, or Absent for one that is missing,
\* or not of a Wicket class.
ParentVerdict(snap, gw, r, p) ==
    LET wide == p.section = Absent
    IN CASE gw = Absent -> "InvalidParentRef"
         [] gw # Absent /\ r.kind = "HTTPRoute" ->
               IF wide THEN http_route_gateway_wide_condition_from_spec(gw, p)
               ELSE http_condition_from_plan(snap, gw, r, p)
         [] gw # Absent /\ r.kind = "TCPRoute" ->
               IF wide THEN tcp_gateway_wide(gw, p) ELSE tcp_condition_from_plan(snap, gw, r, p)
         [] gw # Absent /\ r.kind = "TLSRoute" ->
               IF wide THEN tls_gateway_wide(gw, p) ELSE tls_condition_from_plan(snap, gw, r, p)

----------------------------------------------------------------------------
(* Listener status.                                                        *)

\* A certificateRef that names no Secret the store knows to be valid.
listener_certificate_refs_invalid(snap, g, l) ==
    \E i \in DOMAIN l.certs : <<NamespaceOr(l.certs[i].ns, g.ns), l.certs[i].name>> \notin snap.secrets

\* build_managed_runtime_status; without a snapshot nothing is attached.
ListenerStatuses(snap, g) ==
    LET results == IF snap = Absent THEN {} ELSE RouteResults(snap, g)
        plain(l) == listener_status(results, l)
    IN [i \in DOMAIN g.listeners |->
          LET l == g.listeners[i]
          IN IF /\ snap # Absent
                /\ plain(l).refs = "ResolvedRefs"
                /\ listener_certificate_refs_invalid(snap, g, l)
             THEN [plain(l) EXCEPT !.refs = "InvalidCertificateRef"]
             ELSE plain(l)]
=============================================================================
