---------------------------- MODULE GatewayStatus ----------------------------
(***************************************************************************)
(* What reconcile_gateway makes of what it has read: whether a rollout is  *)
(* over, the conditions and addresses of the Gateway's status, whether a   *)
(* status says anything new, and the names of the objects it owns.         *)
(*                                                                         *)
(* Source: crates/wicket-controller/src/reconcilers/gateway.rs,            *)
(* status_helpers.rs and runtime_plan.rs.  A condition is [type, status,   *)
(* reason, gen, at]: its message follows from its reason, at is its        *)
(* lastTransitionTime.                                                     *)
(***************************************************************************)
EXTENDS Naturals, Sequences, SequencesExt, FiniteSets

CONSTANT Absent     \* an optional value that is not there

----------------------------------------------------------------------------
(* The rollout.                                                            *)

Or(value, default) == IF value = Absent THEN default ELSE value

\* Of a Deployment: the annotation on itself or else on its pods' template,
\* the generations and the replica counts.  Negative counts are dropped.
Count(n) == IF n = Absent \/ n < 0 THEN Absent ELSE n

observe_deployment(d) ==
    [hash |-> Or(d.annotation, d.template), generation |-> d.generation,
     observed |-> d.status.observed, ready |-> Count(d.status.ready),
     updated |-> Count(d.status.updated), available |-> Count(d.status.available),
     desired |-> Or(Count(d.replicas), 1)]

\* DeployObservation::default, for a Deployment that does not exist.
NoDeployment ==
    [hash |-> Absent, generation |-> Absent, observed |-> Absent, ready |-> Absent,
     updated |-> Absent, available |-> Absent, desired |-> Absent]

\* Mutant: the counts are believed although they may be of an older spec.
ConvergedUnobserved(obs) ==
    /\ Absent \notin {obs.observed, obs.generation, obs.updated, obs.available, obs.desired, obs.ready}
    /\ obs.updated >= obs.desired
    /\ obs.desired = 0 \/ (obs.available >= 1 /\ obs.ready >= 1)

is_rollout_converged(obs) ==
    /\ Absent \notin {obs.observed, obs.generation, obs.updated, obs.available, obs.desired, obs.ready}
    /\ obs.observed >= obs.generation
    /\ obs.updated >= obs.desired
    /\ obs.desired = 0 \/ (obs.available >= 1 /\ obs.ready >= 1)

----------------------------------------------------------------------------
(* Conditions.                                                             *)

Condition(type, status, reason, gen) ==
    [type |-> type, status |-> status, reason |-> reason, gen |-> gen]

\* ManagedRuntimeInput: [is, converged, mutated].  mutated: the apply has
\* created the Deployment or triggered a rollout, what was observed before
\* it is stale.
resolve_managed_status_outcome(input, storeReady, gen) ==
    LET fault == input.is = "ObservationFault"
        stale == input.is = "Applied" /\ input.mutated
        programmed == ~fault /\ ~stale /\ input.converged
    IN [programmed |-> programmed, warming |-> ~fault /\ ~stale /\ ~programmed /\ ~storeReady,
        fault |-> fault, gen |-> gen]

\* The Programmed condition, of the Gateway and of its listeners.
ProgrammedCondition(outcome, programmed) ==
    Condition("Programmed", programmed,
              CASE programmed      -> "Programmed"
                [] outcome.fault   -> "ObservationFault"
                [] outcome.warming -> "ControllerStoreNotReady"
                [] OTHER           -> "DeploymentNotReady",
              outcome.gen)

build_gateway_conditions(outcome) ==
    <<Condition("Accepted", TRUE, "Accepted", outcome.gen),
      ProgrammedCondition(outcome, outcome.programmed)>>

\* Of an intent [accepted, refs] of the planner.
listener_resolved_refs_condition(refs, gen) ==
    Condition("ResolvedRefs", refs = "ResolvedRefs", refs, gen)

ListenerConditions(outcome, intent) ==
    <<Condition("Accepted", intent.accepted,
                IF intent.accepted THEN "Accepted" ELSE "ListenerProtocolConflict", outcome.gen),
      ProgrammedCondition(outcome, outcome.programmed /\ intent.accepted),
      listener_resolved_refs_condition(intent.refs, outcome.gen)>>

----------------------------------------------------------------------------
(* Is a status new?  A status is [addresses, conditions, listeners], a     *)
(* listener's [name, kinds, attached, conditions].                         *)

Timeless(cond) == <<cond.type, cond.status, cond.reason, cond.gen>>

conditions_semantically_equal(a, b) ==
    Len(a) = Len(b) /\ \A i \in DOMAIN a : Timeless(a[i]) = Timeless(b[i])

\* The first condition of that type decides.
preserve_condition_timestamps(new, old) ==
    [i \in DOMAIN new |->
        LET same == SelectSeq(old, LAMBDA c : c.type = new[i].type)
        IN IF same # <<>> /\ Head(same).status = new[i].status
           THEN [new[i] EXCEPT !.at = Head(same).at] ELSE new[i]]

preserve_gateway_status_timestamps(new, old) ==
    [new EXCEPT
       !.conditions = preserve_condition_timestamps(@, old.conditions),
       !.listeners = [i \in DOMAIN new.listeners |->
            LET l == new.listeners[i]
                same == SelectSeq(old.listeners, LAMBDA x : x.name = l.name)
            IN IF same = <<>> THEN l
               ELSE [l EXCEPT !.conditions = preserve_condition_timestamps(@, Head(same).conditions)]]]

gateway_status_semantically_equal(a, b) ==
    /\ a.addresses = b.addresses
    /\ conditions_semantically_equal(a.conditions, b.conditions)
    /\ Len(a.listeners) = Len(b.listeners)
    /\ \A i \in DOMAIN a.listeners :
          LET x == a.listeners[i]
              y == b.listeners[i]
          IN /\ x.name = y.name /\ x.kinds = y.kinds /\ x.attached = y.attached
             /\ conditions_semantically_equal(x.conditions, y.conditions)

----------------------------------------------------------------------------
(* Addresses.                                                              *)

\* One address of every node, external before internal, each once, in order.
node_addresses_from_nodes(nodes) ==
    LET of(node, type) == SelectSeq(node, LAMBDA x : x.type = type)
        best(node) == of(node, "ExternalIP") \o of(node, "InternalIP")
        named == {n \in ToSet(nodes) \ {Absent} : best(n) # <<>>}
    IN SetToSortSeq({Head(best(n)).value : n \in named}, <)

\* The addresses of a load balancer that has some; an entry may have both.
IngressAddresses(ingress) ==
    FlattenSeq([i \in DOMAIN ingress |->
        SelectSeq(<<ingress[i].ip, ingress[i].hostname>>, LAMBDA a : a # Absent)])

\* The Service of the owned name, whoever made it; nodes is Absent when they
\* cannot be listed, as service is when it cannot be read.  The cluster
\* address of a headless Service, "None", is as good as none.
ServiceAddresses(service, nodes) ==
    CASE service = Absent -> <<>>
      [] service.type = "LoadBalancer" ->
            IF IngressAddresses(service.ingress) # <<>> THEN IngressAddresses(service.ingress)
            ELSE IF service.external # <<>> THEN service.external
            ELSE IF nodes = Absent THEN <<>> ELSE node_addresses_from_nodes(nodes)
      [] service.type = "ClusterIP" ->
            IF service.cluster = Absent THEN <<>> ELSE <<service.cluster>>
      [] OTHER -> <<>>

get_gateway_addresses(service, nodes, spec) ==
    IF ServiceAddresses(service, nodes) # <<>> THEN ServiceAddresses(service, nodes) ELSE spec

----------------------------------------------------------------------------
(* Names of owned objects; a name is the sequence of its characters.       *)

OBJECT_NAME_PREFIX == <<"w", "i", "c", "k", "e", "t", "-", "g", "w", "-">>
MAX_BASE_NAME_LEN  == 52

\* Six characters that differ for different texts.
hex6(text) == [i \in 1..6 |-> <<i, text>>]

owned_object_base_name(gateway) ==
    LET full == OBJECT_NAME_PREFIX \o gateway
        room == MAX_BASE_NAME_LEN - 7 - Len(OBJECT_NAME_PREFIX)
    IN IF Len(full) <= MAX_BASE_NAME_LEN THEN full
       ELSE OBJECT_NAME_PREFIX \o SubSeq(gateway, 1, room) \o <<"-">> \o hex6(full)

config_map_name(base)      == base \o <<"-", "c", "o", "n", "f", "i", "g">>
deployment_name(base)      == base \o <<"-", "d", "e", "p", "l", "o", "y">>
service_name(base)         == base \o <<"-", "s", "v", "c">>
service_account_name(base) == base \o <<"-", "s", "a">>

\* ControllerConfig::new: the replicas a managed Deployment may be given.
ReplicasAccepted(n) == n # 0 /\ n <= 2147483647

----------------------------------------------------------------------------
\* update_gateway_metrics: pairs of a namespace and a class are counted; a
\* pair that has no Gateway any more keeps its last count.
update_gateway_metrics(gauges, gateways) ==
    LET pairs == {<<g.ns, g.class>> : g \in gateways}
    IN [p \in pairs \cup DOMAIN gauges |->
          IF p \in pairs THEN Cardinality({g \in gateways : <<g.ns, g.class>> = p}) ELSE gauges[p]]
=============================================================================
