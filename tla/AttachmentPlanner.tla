------------------------- MODULE AttachmentPlanner -------------------------
(***************************************************************************)
(* Which routes attach to which listeners of a Gateway, and why not: the   *)
(* pure planner, as operators on a snapshot of the shared store.           *)
(*                                                                         *)
(* Data abstraction.  A host name is the sequence of its labels, a         *)
(* wildcard one whose first label is "*".  A parentRef's or a backendRef's *)
(* group and kind are kept as one Boolean: it names a Gateway, or a core   *)
(* Service.  Absent stands for an optional field left out.                 *)
(*                                                                         *)
(* A snapshot is [gateways, routes, present, grants, labels, endpoints]:   *)
(* sets of Gateways, routes and ReferenceGrants, the <<namespace, name>>   *)
(* of the known Services, the labels of namespaces and the endpoints of    *)
(* Services, both functions on what is known.                              *)
(***************************************************************************)
EXTENDS Naturals, Sequences, FiniteSets, SequencesExt

CONSTANT Absent     \* an optional field without a value

RouteKinds == <<"HTTPRoute", "TCPRoute", "TLSRoute">>

\* An optional namespace defaults to that of the object which holds it.
NamespaceOr(ns, own) == IF ns = Absent THEN own ELSE ns

----------------------------------------------------------------------------
(* Host names.                                                             *)

IsWildcard(h) == Head(h) = "*"

\* One label in place of the star, no more and no fewer.
Covers(pattern, h) ==
    IsWildcard(pattern) /\ ~IsWildcard(h) /\ Len(pattern) = Len(h) /\ Tail(pattern) = Tail(h)

hostname_intersects(a, b) == a = b \/ Covers(a, b) \/ Covers(b, a)

hostnames_compatible(listener, hosts) ==
    \/ listener = Absent
    \/ hosts = <<>>
    \/ \E i \in DOMAIN hosts : hostname_intersects(listener, hosts[i])

----------------------------------------------------------------------------
(* What a listener allows.                                                 *)

KindFor(protocol) ==
    CASE protocol \in {"HTTP", "HTTPS"} -> "HTTPRoute"
      [] protocol = "TCP" -> "TCPRoute"
      [] protocol = "TLS" -> "TLSRoute"
      [] protocol = "UDP" -> Absent

protocol_compatible(kind, protocol) == KindFor(protocol) = kind

\* One requirement of matchExpressions; an unknown operator denies.
Satisfies(labels, req) ==
    CASE req.op = "In" -> req.key \in DOMAIN labels /\ labels[req.key] \in req.values
      [] req.op = "NotIn" -> req.key \in DOMAIN labels => labels[req.key] \notin req.values
      [] req.op = "Exists" -> req.key \in DOMAIN labels
      [] req.op = "DoesNotExist" -> req.key \notin DOMAIN labels
      [] OTHER -> FALSE

label_selector_matches(selector, labels) ==
    /\ \A k \in DOMAIN selector.labels :
          k \in DOMAIN labels /\ labels[k] = selector.labels[k]
    /\ \A req \in selector.expressions : Satisfies(labels, req)

\* Every namespace carries its own name as a label, known or not.
LabelsOf(known, ns) ==
    LET own == IF ns \in DOMAIN known THEN known[ns] ELSE <<>>
    IN [k \in DOMAIN own \cup {"name"} |-> IF k = "name" THEN ns ELSE own[k]]

namespace_allowed(l, gatewayNs, routeNs, known) ==
    CASE l.from = "All" -> TRUE
      [] l.from = "Same" -> routeNs = gatewayNs
      [] l.from = "Selector" ->
            l.selector # Absent /\ label_selector_matches(l.selector, LabelsOf(known, routeNs))

kind_allowed(l, kind) == l.kinds = {} \/ kind \in l.kinds

----------------------------------------------------------------------------
(* What a route asks for.                                                  *)

parent_ref_targets_gateway(r, p, g) ==
    p.gateway /\ NamespaceOr(p.ns, r.ns) = g.ns /\ p.name = g.name

ParentsAt(r, g) == {p \in r.parents : parent_ref_targets_gateway(r, p, g)}

routes_for_gateway(s, g) == {r \in s.routes : ParentsAt(r, g) # {}}

\* The backendRefs of all rules, in order.
BackendRefs(r) == FlattenSeq([i \in DOMAIN r.rules |-> r.rules[i].backends])

\* ReferenceGrant::allows_reference, of a grant in the target's namespace.
allows_reference(grant, kind, fromNs, toKind, toName) ==
    /\ \E f \in grant.from : f.kind = kind /\ f.ns = fromNs
    /\ \E t \in grant.to : t.kind = toKind /\ t.name \in {Absent, toName}

Granted(s, kind, fromNs, toKind, toNs, toName) ==
    \E grant \in s.grants : grant.ns = toNs /\ allows_reference(grant, kind, fromNs, toKind, toName)

\* A Service of the route's own namespace must exist, one of another
\* namespace must be granted; what is not a core Service is not looked at.
RefStatus(s, r, b) ==
    LET ns == NamespaceOr(b.ns, r.ns)
    IN CASE ~b.core -> "Attached"
         [] b.core /\ ns = r.ns ->
               IF <<ns, b.name>> \in s.present THEN "Attached" ELSE "BackendNotFound"
         [] b.core /\ ns # r.ns ->
               IF Granted(s, r.kind, r.ns, "Service", ns, b.name) THEN "Attached"
               ELSE "RefNotPermitted"

\* The first backendRef that does not resolve decides.
first_unresolved_backend_ref(s, r) ==
    LET refs == BackendRefs(r)
        bad == SelectSeq(refs, LAMBDA b : RefStatus(s, r, b) # "Attached")
    IN IF bad = <<>> THEN "Attached" ELSE RefStatus(s, r, Head(bad))

----------------------------------------------------------------------------
(* The verdicts.                                                           *)

IsAttached(status) == status \in {"Attached", "RefNotPermitted", "BackendNotFound"}

\* The listeners a parentRef is about: one by name, or all of them.
ListenersFor(g, p) ==
    LET byPort(ls) == SelectSeq(ls, LAMBDA l : p.port \in {Absent, l.port})
        byName == SelectSeq(g.listeners, LAMBDA l : l.name = p.section)
    IN IF p.section = Absent THEN byPort(g.listeners)
       ELSE IF byName = <<>> THEN <<>>
       ELSE byPort(<<Head(byName)>>)

\* The checks in the order they are made; the first that fails is the reason.
Verdict(s, g, l, r) ==
    LET checks == <<
            [ok |-> protocol_compatible(r.kind, l.protocol),
             otherwise |-> "NotAllowedByListenerProtocol"],
            [ok |-> namespace_allowed(l, g.ns, r.ns, s.labels),
             otherwise |-> "NotAllowedByListenerNamespacePolicy"],
            [ok |-> kind_allowed(l, r.kind),
             otherwise |-> "NotAllowedByListenerKindPolicy"],
            [ok |-> r.kind = "TCPRoute" \/ hostnames_compatible(l.hostname, r.hostnames),
             otherwise |-> "NoMatchingListenerHostname"]>>
        failed == SelectSeq(checks, LAMBDA c : ~c.ok)
    IN IF failed = <<>> THEN first_unresolved_backend_ref(s, r) ELSE Head(failed).otherwise

Result(r, p, listener, status) ==
    [kind |-> r.kind, ns |-> r.ns, name |-> r.name, listener |-> listener,
     section |-> p.section, port |-> p.port, status |-> status]

\* evaluate_route_attachment_inner, for one parentRef of a route.
evaluate_route_attachment(s, g, r, p) ==
    LET ls == ToSet(ListenersFor(g, p))
    IN IF ls = {} THEN {Result(r, p, p.section, "NoMatchingParent")}
       ELSE {Result(r, p, l.name, Verdict(s, g, l, r)) : l \in ls}

\* AttachmentPlanner::plan
RouteResults(s, g) ==
    UNION {UNION {evaluate_route_attachment(s, g, r, p) : p \in ParentsAt(r, g)} : r \in s.routes}

\* The number of routes attached to a listener, each name counted once.
AttachedRoutes(results, listener) ==
    Cardinality({<<x.ns, x.name>> : x \in {y \in results : y.listener = listener /\ IsAttached(y.status)}})

\* AttachmentPlan::result_for_route_parent_ref.  The results are sorted by
\* namespace, name, kind and listener, and the first that fits is returned;
\* the kind is not asked for.
ResultFor(results, r, p) ==
    LET fits == {x \in results : /\ x.ns = r.ns /\ x.name = r.name
                                 /\ x.section = p.section /\ x.port = p.port}
        first == CHOOSE i \in DOMAIN RouteKinds :
                    /\ \E x \in fits : x.kind = RouteKinds[i]
                    /\ \A j \in 1..(i - 1) : \A x \in fits : x.kind # RouteKinds[j]
    IN IF fits = {} THEN Absent ELSE CHOOSE x \in fits : x.kind = RouteKinds[first]
=============================================================================
