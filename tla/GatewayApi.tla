----------------------------- MODULE GatewayApi -----------------------------
(***************************************************************************)
(* The resources of the Gateway API as the controller reads them, and the  *)
(* values its planners return.  A name is the sequence of the parts        *)
(* between its dashes, a host name that of its labels, a path that of its  *)
(* characters.                                                             *)
(***************************************************************************)
EXTENDS Naturals, Sequences

CONSTANT Absent     \* an optional field without a value

Optional(S) == {Absent} \cup S

Name     == Seq(STRING)
Hostname == Seq(STRING)
Port     == Nat \ {0}   \* up to 65535

----------------------------------------------------------------------------
(* References.                                                             *)

\* Group and kind are kept as "is a Gateway" and "is a core Service".
ParentReference ==
    [gateway : BOOLEAN, ns : Optional(Name), name : Name,
     section : Optional(STRING), port : Optional(Port)]

BackendRef == [core : BOOLEAN, ns : Optional(Name), name : Name]

SecretObjectReference == [ns : Optional(Name), name : Name]

\* The reasons of the Accepted and ResolvedRefs conditions of a parentRef.
RouteConditions ==
    {"Attached", "RefNotPermitted", "BackendNotFound", "NoMatchingParent", "NoMatchingListener",
     "InvalidParentRef", "NotAllowedByListenerProtocol", "NotAllowedByListenerNamespacePolicy",
     "NotAllowedByListenerKindPolicy", "NoMatchingListenerHostname"}

RouteParentStatus(status) ==
    \A p \in DOMAIN status : p \in ParentReference /\ status[p] \in RouteConditions

----------------------------------------------------------------------------
(* Routes.                                                                 *)

HTTPMethod == {"GET", "HEAD", "POST", "PUT", "DELETE", "CONNECT", "OPTIONS", "TRACE", "PATCH"}

HTTPPathMatch == [type : {"Exact", "PathPrefix", "RegularExpression"}, value : Seq(STRING)]

\* Headers are pairs of a name and a value.
HTTPRouteMatch ==
    [path : Optional(HTTPPathMatch), methods : SUBSET HTTPMethod, headers : SUBSET (STRING \X STRING)]

HTTPRouteTimeouts == [num : Nat, unit : STRING]

HTTPRouteRule ==
    [backends : Seq(BackendRef), matches : Seq(HTTPRouteMatch), timeout : Optional(HTTPRouteTimeouts)]

L4RouteRule == [backends : Seq(BackendRef), matches : {<<>>}, timeout : {Absent}]

RouteMetadata(r) ==
    /\ r.ns \in Name /\ r.name \in Name /\ r.leaving \in BOOLEAN
    /\ r.parents \subseteq ParentReference
    /\ RouteParentStatus(r.status)

HTTPRoute(r) ==
    RouteMetadata(r) /\ r.hostnames \in Seq(Hostname) /\ r.rules \in Seq(HTTPRouteRule)
TCPRoute(r) ==
    RouteMetadata(r) /\ r.hostnames = <<>> /\ r.rules \in Seq(L4RouteRule)
TLSRoute(r) ==
    RouteMetadata(r) /\ r.hostnames \in Seq(Hostname) /\ r.rules \in Seq(L4RouteRule)

----------------------------------------------------------------------------
(* Gateways.                                                               *)

ProtocolType == {"HTTP", "HTTPS", "TLS", "TCP", "UDP"}

LabelSelectorRequirement == [key : STRING, op : STRING, values : SUBSET STRING]

\* allowedRoutes: which namespaces, by which labels, and which kinds.
AllowedRoutes(l) ==
    /\ l.from \in {"All", "Same", "Selector"}
    /\ l.selector # Absent => l.selector.expressions \subseteq LabelSelectorRequirement
    /\ l.kinds \subseteq STRING

Listener(l) ==
    /\ l.name \in STRING /\ l.hostname \in Optional(Hostname) /\ l.port \in Port
    /\ l.protocol \in ProtocolType
    /\ l.certs \in Seq(SecretObjectReference)
    /\ AllowedRoutes(l)

\* ListenerStatusIntent of the planner and ListenerStatus of the resource.
ListenerStatus ==
    [accepted : BOOLEAN, kinds : SUBSET STRING, attached : Nat,
     refs : {"ResolvedRefs", "InvalidRouteKinds", "RefNotPermitted", "InvalidCertificateRef"}]

Gateway(g) ==
    /\ g.ns \in Name /\ g.name \in Name /\ g.class \in Name /\ g.leaving \in BOOLEAN
    /\ \A i \in DOMAIN g.listeners : Listener(g.listeners[i])
    /\ g.status \in Seq(ListenerStatus)

\* accepted: the status conditions name the present generation.
GatewayClass(c) ==
    c \in [kind : {"GatewayClass"}, ns : Name, name : Name, controller : {"wicket", "other"},
           accepted : BOOLEAN, leaving : BOOLEAN]

\* GatewayClass::is_wicket_managed
is_wicket_managed(c) == c.controller = "wicket"

ReferenceGrant(g) ==
    /\ g.ns \in Name /\ g.name \in Name /\ g.leaving \in BOOLEAN
    /\ g.from \subseteq [kind : STRING, ns : Name]
    /\ g.to \subseteq [kind : STRING, name : Optional(Name)]

----------------------------------------------------------------------------
(* What the runtime planner returns and the applier writes.                *)

ServicePorts == Seq(Port)

TlsSecretMount == [secret : Name \X Name, dir : Name]

GatewayRuntimePlan(p) ==
    /\ DOMAIN p = {"config", "ports", "mounts"}
    /\ p.ports \in ServicePorts /\ \A i, j \in DOMAIN p.ports : i # j => p.ports[i] # p.ports[j]
    /\ p.mounts \subseteq TlsSecretMount
=============================================================================
