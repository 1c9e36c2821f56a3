--------------------------- MODULE RuntimeObjects ---------------------------
(***************************************************************************)
(* The four Kubernetes objects runtime_applier makes of a plan, and the    *)
(* revision of their shape, spec_hash_of.                                  *)
(*                                                                         *)
(* Source: crates/wicket-controller/src/reconcilers/runtime_applier.rs and *)
(* runtime_plan.rs.  A plan is [ns, gateway, uid, base, image, replicas,   *)
(* resources, selector, type, ports, mounts, spec, config]: resources is a *)
(* function from keys to quantities, ports a sequence of [name, port], a   *)
(* mount [secret, ns, dir], spec and config the two hashes.  Names are     *)
(* sequences of characters, as in GatewayStatus; a hash is the value that  *)
(* was hashed.  Fixed values (the user of the container, the read-only     *)
(* root) are the same for every plan and are named, not spelled out.       *)
(***************************************************************************)
EXTENDS GatewayStatus, Functions

managed_labels(p) ==
    [managedBy |-> "wicket-controller", component |-> "gateway-runtime", app |-> "wicket",
     instance |-> p.gateway, gatewayNamespace |-> p.ns, gatewayName |-> p.gateway]

\* No revision among them: a config-only change must not touch the template.
pod_template_labels(p) == managed_labels(p)

gateway_owner_ref(p) == [kind |-> "Gateway", name |-> p.gateway, uid |-> p.uid, controller |-> TRUE]

owned_object_meta(name, p, annotations) ==
    [name |-> name, ns |-> p.ns, labels |-> managed_labels(p), annotations |-> annotations,
     owners |-> <<gateway_owner_ref(p)>>]

\* labels is Absent for an object that has none.
is_managed_by_controller(labels) ==
    labels # Absent /\ "managedBy" \in DOMAIN labels /\ labels.managedBy = "wicket-controller"

ServiceAccount(p) == [metadata |-> owned_object_meta(service_account_name(p.base), p, Absent)]

ConfigMap(p, toml) ==
    [metadata |-> owned_object_meta(config_map_name(p.base), p, [config |-> p.config]), data |-> toml]

ServiceSpec(p) ==
    [type |-> p.type, selector |-> managed_labels(p),
     ports |-> [i \in DOMAIN p.ports |->
                  [name |-> p.ports[i].name, port |-> p.ports[i].port,
                   target |-> p.ports[i].port, protocol |-> "TCP"]]]

Service(p) ==
    [metadata |-> owned_object_meta(service_name(p.base), p, Absent), spec |-> ServiceSpec(p)]

\* A volume's name has at most 63 characters; of two Secrets whose volumes
\* get the same name only the first is mounted.
VolumeName(mount) ==
    LET raw == <<"t", "l", "s", "-">> \o mount.secret
    IN IF Len(raw) > 63 THEN SubSeq(raw, 1, 63) ELSE raw

ConfigVolume(p) == [name |-> <<"c">>, source |-> config_map_name(p.base), dir |-> <<"config">>]

build_pod_volumes_and_mounts(p) ==
    LET first(i) == \A j \in 1..(i - 1) : VolumeName(p.mounts[j]) # VolumeName(p.mounts[i])
        kept == SelectSeq([i \in DOMAIN p.mounts |-> i], first)
    IN <<ConfigVolume(p)>> \o
       [i \in DOMAIN kept |->
          LET m == p.mounts[kept[i]]
          IN [name |-> VolumeName(m), source |-> m.secret, dir |-> m.dir]]

managed_runtime_security_context == [user |-> 65532, group |-> 65532, nonRoot |-> TRUE]

ResourceKeys == {"requests.cpu", "requests.memory", "limits.cpu", "limits.memory"}

\* Keys it does not know are passed over.
build_resource_requirements(resources) == Restrict(resources, DOMAIN resources \cap ResourceKeys)

\* The pod knows its own revision.
Container(p) ==
    [image |-> p.image, ports |-> [i \in DOMAIN p.ports |-> p.ports[i].port],
     revision |-> p.spec, resources |-> build_resource_requirements(p.resources),
     security |-> managed_runtime_security_context]

pod_template(p) ==
    [labels |-> pod_template_labels(p), annotations |-> [spec |-> p.spec],
     account |-> service_account_name(p.base), volumes |-> build_pod_volumes_and_mounts(p),
     nodes |-> IF p.selector = <<>> THEN Absent ELSE p.selector,
     containers |-> <<Container(p)>>, security |-> managed_runtime_security_context]

Deployment(p) ==
    [metadata |-> owned_object_meta(deployment_name(p.base), p, [spec |-> p.spec, config |-> p.config]),
     spec |-> [replicas |-> p.replicas, selector |-> managed_labels(p), template |-> pod_template(p)]]

\* Everything the shape of the Service and of the Deployment depends on.
spec_hash_of(p) ==
    LET shape == [image |-> p.image, replicas |-> p.replicas, resources |-> p.resources,
                  selector |-> p.selector, type |-> p.type, ports |-> p.ports]
    IN IF p.mounts = <<>> THEN shape ELSE [mounts |-> p.mounts] @@ shape

\* tls_secret_mounts: each Secret once, sorted by namespace and name, names
\* being all names in string order; a Secret's directory has only its name.
TlsMounts(refs, names) ==
    LET before(a, b) == \E i, j \in DOMAIN names : i < j /\ names[i] = a /\ names[j] = b
        order(x, y) == before(x.ns, y.ns) \/ (x.ns = y.ns /\ before(x.secret, y.secret))
    IN SetToSortSeq({[secret |-> r.secret, ns |-> r.ns, dir |-> r.secret] : r \in refs}, order)

\* RuntimeApplyResult: what apply_runtime_plan says it has done, from what the
\* preflights have seen and the plan's two change signals.
RuntimeApplyResult(existed, configChanged, specChanged) ==
    [service_account_created |-> ~existed.sa,
     config_result |-> IF configChanged THEN "Updated" ELSE "NoOp",
     service_changed |-> ~existed.svc \/ specChanged,
     deployment_changed |-> ~existed.dep \/ specChanged,
     rollout_triggered |-> specChanged]
=============================================================================
