-------------------------- MODULE MCGatewayRuntime --------------------------
(* Small instances of GatewayRuntime for TLC. *)
EXTENDS GatewayRuntime

CONSTANTS a, b

\* Two shapes, and two specs that differ only in what is rendered.
TheSpecs == {[shape |-> a, conf |-> 1], [shape |-> a, conf |-> 2], [shape |-> b, conf |-> 1]}

TheNodes == <<<<[type |-> "InternalIP", value |-> 3], [type |-> "ExternalIP", value |-> 2]>>>>

TwoShapes == {[shape |-> a, conf |-> 1], [shape |-> b, conf |-> 1]}

-----------------------------------------------------------------------------
(* The pure parts of a reconcile, over small inputs. *)

\* What the Deployment controller reports of n replicas asked for, with so
\* many old and new pods of which so many are ready.
Rollout(n, old, oldReady, new, newReady) ==
    observe_deployment(
        [annotation |-> a, template |-> Absent, generation |-> 2, replicas |-> n,
         status |-> [observed |-> 2, ready |-> oldReady + newReady, updated |-> new,
                     available |-> oldReady + newReady]])

\* A rollout that counts as converged has all its new pods, and some pod is
\* ready; once the old pods are gone that is a new one.
ASSUME ConvergedIsRolledOut ==
    \A n \in 1..3, old, new \in 0..3 : \A oldReady \in 0..old, newReady \in 0..new :
        is_rollout_converged(Rollout(n, old, oldReady, new, newReady)) =>
            new >= n /\ oldReady + newReady > 0 /\ (old = 0 => newReady > 0)

\* A Deployment that has no status yet is never converged, whatever the
\* generation, unless it was made by hand for no replicas and says so.
ASSUME NoStatusNotConverged ==
    \A n \in {Absent, 0, 1}, missing \in {"observed", "ready", "updated", "available"} :
        ~is_rollout_converged([observe_deployment(
            [annotation |-> Absent, template |-> Absent, generation |-> 1, replicas |-> n,
             status |-> [observed |-> 1, ready |-> 1, updated |-> 1, available |-> 1]]) EXCEPT ![missing] = Absent])

Inputs ==
    [is : {"Applied"}, converged : BOOLEAN, mutated : BOOLEAN]
    \cup [is : {"StoreNotReady"}, converged : BOOLEAN] \cup [is : {"ObservationFault"}]

Intents == [accepted : BOOLEAN, refs : {"ResolvedRefs", "InvalidRouteKinds"}]

\* A listener is never programmed when the Gateway is not, the two give the
\* same reason, and every condition names the generation that was read.
ASSUME ListenersFollowGateway ==
    \A input \in Inputs, store \in BOOLEAN, intent \in Intents :
        LET o == resolve_managed_status_outcome(input, store, 7)
            g == build_gateway_conditions(o)
            l == ListenerConditions(o, intent)
        IN /\ l[2].status => g[2].status /\ l[1].status
           /\ intent.accepted => l[2] = g[2]
           /\ ~g[2].status => l[2] = g[2]
           /\ \A i \in DOMAIN l : l[i].gen = 7

Conds(times) ==
    {<<[type |-> "Accepted", status |-> x, reason |-> "r", gen |-> gen, at |-> t],
       [type |-> "Programmed", status |-> y, reason |-> IF y THEN "r" ELSE why, gen |-> gen, at |-> u]>> :
        x, y \in BOOLEAN, why \in {"r", "s"}, gen \in {1, 2}, t, u \in times}

Statuses(times) ==
    {[addresses |-> <<>>, conditions |-> c, listeners |-> <<[name |-> n, kinds |-> {}, attached |-> 0, conditions |-> c]>>] :
        c \in Conds(times), n \in {"l", "m"}}

\* A status that says nothing new is, once the old times are carried over,
\* the old status to the letter; one that does say something new still is
\* different then.  A condition whose status flips gets its new time.
ASSUME RestampingIsIdempotent ==
    \A old \in Statuses({1, 2}), new \in Statuses({3}) :
        LET kept == preserve_gateway_status_timestamps(new, old)
        IN /\ gateway_status_semantically_equal(old, kept) <=> kept = old
           /\ gateway_status_semantically_equal(old, kept) <=> gateway_status_semantically_equal(old, new)
           /\ \A i \in DOMAIN kept.conditions :
                 kept.conditions[i].at = 3 <=> kept.conditions[i].status # old.conditions[i].status

NodeKinds == {Absent, <<>>, TheNodes[1], <<[type |-> "InternalIP", value |-> 1]>>,
              <<[type |-> "Hostname", value |-> 9]>>, <<[type |-> "InternalIP", value |-> 2]>>}

\* The addresses do not depend on the order in which the nodes are listed,
\* and name every node that has an IP at most once.
ASSUME NodeOrderIsNoMatter ==
    \A x, y, z \in NodeKinds :
        LET addrs == node_addresses_from_nodes(<<x, y, z>>)
        IN /\ addrs = node_addresses_from_nodes(<<z, x, y>>)
           /\ \A i, j \in DOMAIN addrs : i < j => addrs[i] < addrs[j]
           /\ 9 \notin ToSet(addrs)

Balancers == [type : {"LoadBalancer"}, external : {<<>>, <<5>>},
              ingress : {<<>>, <<[ip |-> 4, hostname |-> Absent]>>, <<[ip |-> 4, hostname |-> 6]>>}]
Services  == {Absent} \cup Balancers \cup [type : {"ClusterIP", "NodePort"}, cluster : {Absent, 8}]

\* The Gateway's own addresses show only while the Service has none; a
\* node's address only while a load balancer has none of its own.
ASSUME AddressesInOrder ==
    \A s \in Services, nodes \in {Absent, <<>>, TheNodes}, spec \in {<<>>, <<11>>} :
        LET addrs == get_gateway_addresses(s, nodes, spec)
        IN /\ 11 \in ToSet(addrs) => ServiceAddresses(s, nodes) = <<>>
           /\ 2 \in ToSet(addrs) => s \in Balancers /\ s.ingress = <<>> /\ s.external = <<>>
           /\ addrs = <<>> => spec = <<>>

LongName(n, c) == [i \in 1..n |-> IF i = n THEN c ELSE "x"]
GatewayNames == {LongName(n, c) : n \in {1, 35, 41, 42, 43, 60}, c \in {"x", "y"}} \cup {<<"x", "-", "s", "v", "c">>}

\* The objects of two Gateways never share a name, and a name leaves room
\* for the longest suffix.
ASSUME OwnedNamesDiffer ==
    \A g, h \in GatewayNames :
        LET x == owned_object_base_name(g)
            y == owned_object_base_name(h)
        IN /\ Len(config_map_name(x)) <= 63 /\ Len(deployment_name(x)) <= 63
           /\ g # h => /\ x # y
                       /\ config_map_name(x) # config_map_name(y) /\ deployment_name(x) # deployment_name(y)
                       /\ service_name(x) # service_name(y) /\ service_account_name(x) # service_account_name(y)
           /\ Cardinality({config_map_name(x), deployment_name(x), service_name(x), service_account_name(x)}) = 4

\* The replicas the controller may be started with are never none, and fit
\* the i32 of the Kubernetes API.
ASSUME ReplicasFit ==
    \A n \in {0, 1, 2, 2147483646, 2147483647} :
        ReplicasAccepted(n) => observe_deployment(
            [annotation |-> a, template |-> Absent, generation |-> 1, replicas |-> n,
             status |-> [observed |-> 1, ready |-> 1, updated |-> 1, available |-> 1]]).desired >= 1

\* The count of every namespace and class that has Gateways is right, and
\* no other count changes.
ASSUME MetricsOfTheListed ==
    \A gws \in SUBSET [ns : {1, 2}, class : {1, 2}, name : {1}] :
        LET after == update_gateway_metrics([p \in {<<1, 1>>, <<1, 2>>} |-> 5], gws)
        IN \A p \in DOMAIN after :
              after[p] = IF \E g \in gws : <<g.ns, g.class>> = p THEN 1 ELSE 5
-----------------------------------------------------------------------------
(* The objects made of a plan. *)

Plan1 == [ns |-> <<"n">>, gateway |-> <<"g">>, uid |-> 1, base |-> owned_object_base_name(<<"g">>),
          image |-> 1, replicas |-> 1, resources |-> <<>>, selector |-> <<>>, type |-> "LoadBalancer",
          ports |-> <<[name |-> "l", port |-> 80]>>, mounts |-> <<>>, config |-> 1]

Mount(name) == [secret |-> name, ns |-> <<"n">>, dir |-> name]
Hashed(p) == p @@ [spec |-> spec_hash_of(p)]

\* Every field may change; one resource key is unknown.
Plans ==
    {Hashed([Plan1 EXCEPT !.image = i, !.resources = r, !.type = t, !.mounts = m, !.replicas = n,
                          !.config = c, !.ports[1].port = q]) :
        i, n, c \in {1, 2}, t \in {"LoadBalancer", "ClusterIP"}, q \in {80, 81},
        r \in {<<>>, [k \in {"limits.cpu"} |-> 1], [k \in {"limits.gpu"} |-> 1]},
        m \in {<<>>, <<Mount(<<"s">>)>>}}

\* The revision covers the shape: two plans of one Gateway have the same
\* revision exactly when their pods and Services are the same, so that what
\* is not counted as a change starts no rollout (runtime_plan.rs:521-530).
ASSUME RevisionCoversShape ==
    \A p, q \in Plans :
        p.spec = q.spec <=> /\ Deployment(p).spec = Deployment(q).spec
                            /\ Service(p).spec = Service(q).spec

\* A Deployment's selector can never be changed: no two plans of a Gateway
\* ask for different ones, and every template and the Service carry it.
ASSUME SelectorsNeverChange ==
    \A p, q \in Plans :
        /\ Deployment(p).spec.selector = Deployment(q).spec.selector
        /\ Deployment(p).spec.template.labels = Deployment(q).spec.selector
        /\ Service(p).spec.selector = Deployment(q).spec.template.labels

\* What the controller has made it recognises as its own.
ASSUME OwnIsRecognised ==
    /\ \A p \in Plans : \A o \in {Deployment(p), Service(p), ServiceAccount(p), ConfigMap(p, 1)} :
          is_managed_by_controller(o.metadata.labels) /\ o.metadata.owners[1].uid = p.uid
    /\ \A l \in {Absent, <<>>, [managedBy |-> "helm"]} : ~is_managed_by_controller(l)

\* In string order: those of x alone by length, the others the other way round.
SortedSecrets ==
    LET lengths == <<1, 58, 59, 60, 61>>
    IN [i \in 1..5 |-> LongName(lengths[i], "x")] \o [i \in 1..5 |-> LongName(lengths[6 - i], "y")]
Secrets == ToSet(SortedSecrets)

\* Every directory the proxy's configuration names is mounted, and every
\* volume's name is used once, as long as the Secrets' names differ within
\* their first 59 characters (runtime_applier.rs:818-827).
ASSUME EverySecretMounted ==
    \A one, two \in Secrets, ns \in {<<"x">>, <<"y">>} :
        LET refs == {[secret |-> one, ns |-> <<"x">>], [secret |-> two, ns |-> ns]}
            vols == build_pod_volumes_and_mounts([Plan1 EXCEPT !.mounts = TlsMounts(refs, SortedSecrets)])
            cut(name) == SubSeq(name, 1, IF Len(name) < 59 THEN Len(name) ELSE 59)
        IN /\ \A i, j \in DOMAIN vols : vols[i].name = vols[j].name => i = j
           /\ \A i \in DOMAIN vols : Len(vols[i].name) <= 63
           /\ cut(one) # cut(two) \/ one = two => {one, two} \subseteq {vols[i].dir : i \in DOMAIN vols}
=============================================================================
