--------------------------- MODULE ResourceStore ---------------------------
(***************************************************************************)
(* The store the controllers share, as a value, with its two indices.      *)
(*                                                                         *)
(* A store is [objects, present, endpoints, secrets, listed]: the          *)
(* GatewayClasses, Gateways, routes and ReferenceGrants by id, the known   *)
(* Services, the endpoints of Services, the Secrets with a valid pair on   *)
(* disk, and the kinds whose initial list is done.  Both indices are       *)
(* rebuilt under the store's lock by every write of a route or a Gateway,  *)
(* so they are functions of the store.                                     *)
(***************************************************************************)
EXTENDS ConfigGenerator

ResourceKinds ==
    {"GatewayClass", "ReferenceGrant", "Gateway", "HTTPRoute", "TCPRoute", "TLSRoute",
     "Service", "EndpointSlice", "Secret"}

IdOf(o) == [kind |-> o.kind, ns |-> o.ns, name |-> o.name]

IsRoute(o) == o.kind \in ToSet(RouteKinds)

EmptyStore ==
    [objects |-> <<>>, present |-> {}, endpoints |-> <<>>, secrets |-> {}, listed |-> {}]

Held(s, kind) == {s.objects[id] : id \in {x \in DOMAIN s.objects : x.kind = kind}}

HeldRoutes(s) == UNION {Held(s, kind) : kind \in ToSet(RouteKinds)}

----------------------------------------------------------------------------
(* Writes.                                                                 *)

\* A map after an insert, after those of another map, and after a removal.
With(f, x, v) == [y \in DOMAIN f \cup {x} |-> IF y = x THEN v ELSE f[y]]

Overlay(f, g) == [y \in DOMAIN f \cup DOMAIN g |-> IF y \in DOMAIN g THEN g[y] ELSE f[y]]

Without(f, x) == [y \in DOMAIN f \ {x} |-> f[y]]

upsert(s, o) == [s EXCEPT !.objects = With(@, IdOf(o), o)]

remove(s, id) == [s EXCEPT !.objects = Without(@, id)]

upsert_service_presence(s, key) == [s EXCEPT !.present = @ \cup {key}]

\* Mutant: the last addresses are kept.
upsert_endpoints_if_any(s, key, addrs) ==
    [s EXCEPT !.endpoints = IF addrs = <<>> THEN @ ELSE With(@, key, addrs)]

\* No address left: the entry goes, and the Service's DNS name is used.
upsert_endpoints(s, key, addrs) ==
    [s EXCEPT !.endpoints = IF addrs = <<>> THEN Without(@, key) ELSE With(@, key, addrs)]

upsert_tls_secret(s, key) == [s EXCEPT !.secrets = @ \cup {key}]
remove_tls_secret(s, key) == [s EXCEPT !.secrets = @ \ {key}]

mark_listed(s, kinds) == [s EXCEPT !.listed = @ \cup kinds]

----------------------------------------------------------------------------
(* Reads.                                                                  *)

is_complete(s) == s.listed = ResourceKinds

\* What the planners see; the labels of namespaces are never filled in.
to_planner_snapshot(s) ==
    [gateways |-> Held(s, "Gateway"), routes |-> HeldRoutes(s), present |-> s.present,
     grants |-> Held(s, "ReferenceGrant"), labels |-> <<>>, endpoints |-> s.endpoints,
     secrets |-> s.secrets]

\* SnapshotResult: Absent for NotReady.
planner_snapshot(s) == IF is_complete(s) THEN to_planner_snapshot(s) ELSE Absent

get_gateway_class(s, name) ==
    LET found == {c \in Held(s, "GatewayClass") : c.name = name}
    IN IF "GatewayClass" \notin s.listed \/ found = {} THEN Absent ELSE CHOOSE c \in found : TRUE

\* The core Services that the rules of a route name.
CoreServices(r) ==
    {<<NamespaceOr(b.ns, r.ns), b.name>> : b \in {x \in ToSet(BackendRefs(r)) : x.core}}

\* rebuild_service_index
service_ref_index(s) == UNION {CoreServices(r) : r \in HeldRoutes(s)}

----------------------------------------------------------------------------
(* The reverse index: which Gateways an object matters to.                 *)

route_parent_gateways(r) ==
    {<<NamespaceOr(p.ns, r.ns), p.name>> : p \in {x \in r.parents : x.gateway}}

gateways_for_service(s, key) ==
    UNION {route_parent_gateways(r) : r \in {x \in HeldRoutes(s) : key \in CoreServices(x)}}

gateways_for_secret(s, key) == {KeyOf(g) : g \in {x \in Held(s, "Gateway") : key \in CertRefs(x)}}

\* The entry for grants has the namespace and the name of what is referred
\* to across namespaces, and is asked for the grant's own name.
gateways_for_reference_grant(s, key) ==
    {KeyOf(g) : g \in {x \in Held(s, "Gateway") : key \in CertRefs(x) /\ key[1] # x.ns}}
    \cup UNION {route_parent_gateways(r) :
                  r \in {x \in HeldRoutes(s) : key \in CoreServices(x) /\ key[1] # x.ns}}
=============================================================================
