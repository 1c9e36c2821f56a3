--------------------------- MODULE GatewayRuntime ---------------------------
(***************************************************************************)
(* The managed runtime of one Gateway: reconcile_gateway and the           *)
(* ServiceAccount, ConfigMap, Service and Deployment it owns, beside the   *)
(* Deployment controller, people who edit or create such objects by hand,  *)
(* failing API calls and restarts of the controller.                       *)
(*                                                                         *)
(* A reconcile observes the ConfigMap's and the Deployment's revision      *)
(* annotations, plans from a snapshot of the store, applies the four       *)
(* objects in order, each with an ownership check and then a forced        *)
(* server-side apply, and writes the Gateway's status from what it had     *)
(* observed.  Every one of these is a call to the API server, with the     *)
(* world free to move before the next.                                     *)
(*                                                                         *)
(* Data abstraction.  A Gateway's spec is [shape, conf]: shape is all that *)
(* spec_hash covers (ports, mounts, image), conf the rest of what is       *)
(* rendered (RuntimeObjects has the objects in full, and MCGatewayRuntime  *)
(* checks that the hash does cover them).  A config is the pair of a spec  *)
(* and a version of the routes.                                            *)
(* Hashes are taken to be injective, so a revision annotation is the very  *)
(* shape or config it was made from.  Of the Deployment's generations only *)
(* "observedGeneration has caught up" is kept (seen).  One replica is      *)
(* asked for and the Service is a load balancer, to which the cloud gives  *)
(* an address some time after it was made.  Listeners' statuses are in     *)
(* ControlPlane.  Watch events reach the queue at once (the lag of a watch *)
(* is in RouteReconciler), and one Gateway is reconciled by one task at a  *)
(* time, as kube-runtime guarantees.  The reconcile puts the Gateway it    *)
(* was called with into the store before it plans, so the plan is always   *)
(* about that object and the store's own copy need not be kept here.       *)
(***************************************************************************)
EXTENDS RuntimeObjects

CONSTANTS
    Specs,          \* the specs the Gateway may be given: [shape, conf]
    Nodes,          \* the cluster's nodes, each the sequence of its addresses
    Cloud,          \* the address the cloud gives to a load balancer
    Drifts,         \* what people do: SUBSET {"data", "template", "delete", "foreign"}
    MaxEdits,       \* bound: edits of the Gateway's spec
    MaxRoutes,      \* bound: edits of its routes
    MaxDrifts,      \* bound: changes people make to the owned objects
    MaxFaults,      \* bound: API calls that fail
    MaxPodFailures, \* bound: pods that stop being ready
    MaxRestarts,    \* bound: restarts of the controller
    MaxTroubles     \* bound: all of these together

ASSUME DriftAssumption == Drifts \subseteq {"data", "template", "delete", "foreign"}
ASSUME BoundAssumption ==
    /\ MaxEdits \in Nat /\ MaxRoutes \in Nat /\ MaxDrifts \in Nat
    /\ MaxFaults \in Nat /\ MaxPodFailures \in Nat /\ MaxRestarts \in Nat
    /\ MaxTroubles \in Nat

VARIABLES
    specs,      \* the Gateway's specs so far, one per generation
    status,     \* the Gateway's status: [addresses, conditions], or Absent
    route,      \* version of the routes in the API server
    judged,     \* version their status was written for
    stored,     \* version in the shared store
    ready,      \* every resource class has been listed into the store
    started,    \* the Gateway controller watches
    queue,      \* a reconcile of the Gateway is queued
    timer,      \* a requeue is armed: "none", "resync" (300 s), "retry" (5 s)
    rec,        \* the reconcile under way
    copy,       \* the status in the Gateway object it was called with
    owned,      \* the four objects
    pods,       \* the Deployment's pods: a set of [shape, ready]
    left        \* what is left of the bounds

vars == <<specs, status, route, judged, stored, ready, started, queue, timer,
          rec, copy, owned, pods, left>>

cluster == <<specs, status, route, judged>>
controller == <<ready, started, queue, timer, rec, copy>>

Order == <<"sa", "cm", "svc", "dep">>
Kinds == {"sa", "cm", "svc", "dep"}

Generation == Len(specs)
Desired == specs[Generation]

Idle == [pc |-> "idle"]
Foreign == [by |-> "foreign"]
Mine(o) == o # Absent /\ o.by = "wicket"

Config(spec, routes) == <<spec, routes>>

\* A Deployment as the API server has it, with generation 2 for the latest.
DeploymentObject(d) ==
    LET count(b) == IF b THEN 1 ELSE 0
    IN [annotation |-> d.revision, template |-> Absent, generation |-> 2, replicas |-> 1,
        status |-> [observed |-> IF d.seen THEN 2 ELSE 1, updated |-> count(d.updated),
                    available |-> count(d.available), ready |-> count(d.available)]]

Converged(d) ==
    is_rollout_converged(IF d = Absent THEN NoDeployment ELSE observe_deployment(DeploymentObject(d)))

\* A Service as the API server has it; a stranger's has an address of its own.
ServiceObject(o) ==
    CASE o = Absent -> Absent
      [] o = Foreign -> [type |-> "ClusterIP", cluster |-> 0]
      [] OTHER -> [type |-> "LoadBalancer", external |-> <<>>,
                   ingress |-> IF o.addr = Absent THEN <<>> ELSE <<[ip |-> o.addr, hostname |-> Absent]>>]

\* The revision an owned object is annotated with.
Revision(o) == IF Mine(o) THEN o.revision ELSE Absent

----------------------------------------------------------------------------
Init ==
    /\ \E s \in Specs : specs = <<s>>
    /\ status = Absent
    /\ route = 0 /\ judged = 0 /\ stored = 0
    /\ ready = FALSE /\ started = FALSE /\ queue = FALSE /\ timer = "none"
    /\ rec = Idle /\ copy = Absent
    /\ owned = [k \in Kinds |-> Absent]
    /\ pods = {}
    /\ left = [edits |-> MaxEdits, drifts |-> MaxDrifts, faults |-> MaxFaults,
               failures |-> MaxPodFailures, restarts |-> MaxRestarts,
               routes |-> MaxRoutes, all |-> MaxTroubles]

Spend(what) ==
    /\ left[what] > 0 /\ left.all > 0
    /\ left' = [left EXCEPT ![what] = @ - 1, !.all = @ - 1]

----------------------------------------------------------------------------
(* The Gateway and its routes.                                             *)

EditGateway(s) ==
    /\ Spend("edits")
    /\ s # Desired
    /\ specs' = Append(specs, s)
    /\ queue' = (queue \/ started)
    /\ UNCHANGED <<status, route, judged, stored, copy, ready, started, timer, rec, owned, pods>>

\* A route's change reaches the Gateway's queue through its own watch ...
EditRoute ==
    /\ Spend("routes")
    /\ route' = route + 1
    /\ queue' = (queue \/ started)
    /\ UNCHANGED <<specs, status, judged, stored, copy, ready, started, timer, rec, owned, pods>>

\* ... so does the status its reconciler writes ...
JudgeRoute ==
    /\ ready /\ judged < route
    /\ judged' = route
    /\ queue' = (queue \/ started)
    /\ UNCHANGED <<specs, status, route, stored, copy, ready, started, timer, rec, owned, pods, left>>

\* ... but not the write to the store that follows.
StoreRoute ==
    /\ ready /\ stored < judged
    /\ stored' = judged
    /\ UNCHANGED <<cluster, controller, owned, pods, left>>

----------------------------------------------------------------------------
(* Start-up.                                                               *)

\* The Gateways have been listed and the watch begins: all are queued.
Start ==
    /\ ~started
    /\ started' = TRUE
    /\ queue' = TRUE
    /\ UNCHANGED <<cluster, stored, copy, ready, timer, rec, owned, pods, left>>

\* The last of the resource classes has been listed.  A listed route is
\* stored as it is, and is rendered if its status says it was accepted.
WarmUp ==
    /\ ~ready
    /\ ready' = TRUE
    /\ stored' = IF judged = 0 THEN 0 ELSE route
    /\ UNCHANGED <<cluster, copy, started, queue, timer, rec, owned, pods, left>>

Restart ==
    /\ Spend("restarts")
    /\ ready' = FALSE /\ started' = FALSE /\ queue' = FALSE /\ timer' = "none"
    /\ rec' = Idle /\ stored' = 0
    /\ UNCHANGED <<cluster, copy, owned, pods>>

TimerFires ==
    /\ timer # "none"
    /\ timer' = "none"
    /\ queue' = TRUE
    /\ UNCHANGED <<cluster, stored, copy, ready, started, rec, owned, pods, left>>

----------------------------------------------------------------------------
(* reconcile_gateway                                                       *)

\* The class is Wicket's and the Gateway goes into the store.  The reconcile
\* was called with a copy of the Gateway, its status included.
Begin ==
    /\ queue /\ rec.pc = "idle"
    /\ queue' = FALSE
    /\ timer' = "none"
    /\ rec' = [pc |-> "cm", gen |-> Generation, spec |-> Desired]
    /\ copy' = status
    /\ UNCHANGED <<cluster, stored, ready, started, owned, pods, left>>

\* The reconcile ends in an error: error_policy_gateway.
Fail ==
    /\ rec' = Idle
    /\ timer' = "retry"

\* The class is looked up in the API server while it is not in the store.
ClassNotFound ==
    /\ rec.pc = "cm" /\ ~ready
    /\ Spend("faults")
    /\ Fail
    /\ UNCHANGED <<cluster, stored, copy, ready, started, queue, owned, pods>>

\* observe_runtime_state: first the ConfigMap, then the Deployment.
ObserveConfigMap ==
    /\ rec.pc = "cm"
    /\ rec' = [pc |-> "dep", gen |-> rec.gen, spec |-> rec.spec,
               config |-> Revision(owned.cm)]
    /\ UNCHANGED <<cluster, stored, copy, ready, started, queue, timer, owned, pods, left>>

\* A stranger's Deployment may look converged or not.
ObserveDeployment ==
    /\ rec.pc = "dep"
    /\ \E c \in IF owned.dep = Foreign THEN BOOLEAN ELSE {Converged(owned.dep)} :
         rec' = [pc |-> "plan", gen |-> rec.gen, spec |-> rec.spec, config |-> rec.config,
                 shape |-> Revision(owned.dep), converged |-> c]
    /\ UNCHANGED <<cluster, stored, copy, ready, started, queue, timer, owned, pods, left>>

\* The outcome is known; the addresses are read and the status is written.
Report(input, rolls) ==
    [pc |-> "address", rolls |-> rolls,
     outcome |-> resolve_managed_status_outcome(input, input.is = "Applied", rec.gen)]

\* Mutant: the ConfigMap is written only when it is not there.
PlanOnce ==
    /\ rec.pc = "plan"
    /\ rec' = IF ready
              THEN [pc |-> "check", at |-> 1, gen |-> rec.gen, converged |-> rec.converged,
                    want |-> Config(rec.spec, stored),
                    configChanged |-> rec.config = Absent,
                    specChanged |-> rec.shape # rec.spec.shape]
              ELSE Report([is |-> "StoreNotReady", converged |-> rec.converged], FALSE)
    /\ UNCHANGED <<cluster, stored, copy, ready, started, queue, timer, owned, pods, left>>

\* GatewayRuntimePlanner::plan, from the store as it is now; or, while the
\* store is warming up, no plan and a status from the observation alone.
Plan ==
    /\ rec.pc = "plan"
    /\ rec' = IF ready
              THEN [pc |-> "check", at |-> 1, gen |-> rec.gen, converged |-> rec.converged,
                    want |-> Config(rec.spec, stored),
                    configChanged |-> rec.config # Config(rec.spec, stored),
                    specChanged |-> rec.shape # rec.spec.shape]
              ELSE Report([is |-> "StoreNotReady", converged |-> rec.converged], FALSE)
    /\ UNCHANGED <<cluster, stored, copy, ready, started, queue, timer, owned, pods, left>>

\* The planner gives no plan, for want of a field of the Gateway's.
PlanFails ==
    /\ rec.pc = "plan" /\ ready
    /\ Spend("faults")
    /\ Fail
    /\ UNCHANGED <<cluster, stored, copy, ready, started, queue, owned, pods>>

\* preflight_*: the object of this step is absent or carries our label.
Preflight ==
    /\ rec.pc = "check"
    /\ LET o == owned[Order[rec.at]]
       IN IF o = Foreign
          THEN Fail
          ELSE rec' = [pc |-> "write", at |-> rec.at, gen |-> rec.gen,
                       converged |-> rec.converged, want |-> rec.want,
                       configChanged |-> rec.configChanged, specChanged |-> rec.specChanged,
                       existed |-> o # Absent]
               /\ timer' = timer
    /\ UNCHANGED <<cluster, stored, copy, ready, started, queue, owned, pods, left>>

NewService == [by |-> "wicket", shape |-> rec.want[1].shape, addr |-> Absent]

\* Mutant: a Service that exists already is left as it is.
AppliedOnce(k) ==
    CASE k = "sa"  -> [by |-> "wicket"]
      [] k = "cm"  -> IF rec.configChanged
                      THEN [by |-> "wicket", data |-> rec.want, revision |-> rec.want]
                      ELSE owned.cm
      [] k = "svc" -> IF rec.existed THEN owned.svc
                      ELSE NewService
      [] k = "dep" -> IF Mine(owned.dep)
                      THEN [owned.dep EXCEPT !.shape = rec.want[1].shape,
                                             !.revision = rec.want[1].shape,
                                             !.seen = @ /\ owned.dep.shape = rec.want[1].shape]
                      ELSE [by |-> "wicket", shape |-> rec.want[1].shape,
                            revision |-> rec.want[1].shape,
                            seen |-> FALSE, updated |-> FALSE, available |-> FALSE]

\* What the forced apply makes of the object.  A Deployment whose template
\* changes has yet to be seen by its controller.
Applied(k) ==
    CASE k = "sa"  -> [by |-> "wicket"]
      [] k = "cm"  -> IF rec.configChanged
                      THEN [by |-> "wicket", data |-> rec.want, revision |-> rec.want]
                      ELSE owned.cm
      [] k = "svc" -> IF Mine(owned.svc) THEN [owned.svc EXCEPT !.shape = rec.want[1].shape]
                      ELSE NewService
      [] k = "dep" -> IF Mine(owned.dep)
                      THEN [owned.dep EXCEPT !.shape = rec.want[1].shape,
                                             !.revision = rec.want[1].shape,
                                             !.seen = @ /\ owned.dep.shape = rec.want[1].shape]
                      ELSE [by |-> "wicket", shape |-> rec.want[1].shape,
                            revision |-> rec.want[1].shape,
                            seen |-> FALSE, updated |-> FALSE, available |-> FALSE]

\* Mutant: the observation is trusted although the apply made it stale.
OutcomeStale ==
    Report([is |-> "Applied", converged |-> rec.converged, mutated |-> FALSE],
           ~Mine(owned.dep) \/ owned.dep.shape # rec.want[1].shape)

\* After the Deployment the outcome is known: not programmed when the plan
\* changed the Deployment, otherwise what the observation said.
Outcome ==
    LET result == RuntimeApplyResult([sa |-> TRUE, svc |-> TRUE, dep |-> rec.existed],
                                     rec.configChanged, rec.specChanged)
        mutated == result.rollout_triggered \/ result.deployment_changed
        rolls == ~Mine(owned.dep) \/ owned.dep.shape # rec.want[1].shape
    IN Report([is |-> "Applied", converged |-> rec.converged, mutated |-> mutated], rolls)

Write ==
    /\ rec.pc = "write"
    /\ LET k == Order[rec.at]
       IN /\ owned' = [owned EXCEPT ![k] = Applied(k)]
          /\ rec' = IF k = "dep" THEN Outcome
                    ELSE [pc |-> "check", at |-> rec.at + 1, gen |-> rec.gen,
                          converged |-> rec.converged, want |-> rec.want,
                          configChanged |-> rec.configChanged,
                          specChanged |-> rec.specChanged]
    /\ UNCHANGED <<cluster, stored, copy, ready, started, queue, timer, pods, left>>

\* The Service is read again, whoever it belongs to.
Patch(service) ==
    [pc |-> "patch", rolls |-> rec.rolls, outcome |-> rec.outcome,
     addresses |-> get_gateway_addresses(service, Nodes, <<>>)]

ReadAddresses ==
    /\ rec.pc = "address"
    /\ rec' = Patch(ServiceObject(owned.svc))
    /\ UNCHANGED <<cluster, stored, copy, ready, started, queue, timer, owned, pods, left>>

NewStatus ==
    [addresses |-> rec.addresses, conditions |-> build_gateway_conditions(rec.outcome),
     listeners |-> <<>>]

\* The copy has no status, or one that says something else.
NeedsPatch == ~(copy # Absent /\ gateway_status_semantically_equal(copy, NewStatus))

\* The status is patched if it says something new, which queues the Gateway
\* again; an observation fault then ends the reconcile as an error.
PatchStatus ==
    /\ rec.pc = "patch"
    /\ status' = IF NeedsPatch THEN NewStatus ELSE status
    /\ queue' = (queue \/ NeedsPatch)
    /\ rec' = Idle
    /\ timer' = IF rec.outcome.programmed THEN "resync" ELSE "retry"
    /\ UNCHANGED <<specs, route, judged, stored, copy, ready, started, owned, pods, left>>

\* A call of the reconcile fails.  While observing, the fault is reported in
\* the status first; without the Service there is no address; anywhere else
\* the reconcile ends at once.
ApiFault ==
    /\ rec.pc # "idle" /\ rec.pc # "plan"
    /\ rec.pc = "patch" => NeedsPatch
    /\ Spend("faults")
    /\ CASE rec.pc \in {"cm", "dep"} -> rec' = Report([is |-> "ObservationFault"], FALSE) /\ timer' = timer
         [] rec.pc = "address" -> rec' = Patch(Absent) /\ timer' = timer
         [] OTHER -> Fail
    /\ UNCHANGED <<cluster, stored, copy, ready, started, queue, owned, pods>>

----------------------------------------------------------------------------
(* The Deployment controller, with a rolling update that surges.           *)

New(d) == {p \in pods : p.shape = d.shape}

SyncDeployment ==
    /\ Mine(owned.dep)
    /\ LET d == [owned.dep EXCEPT !.seen = TRUE, !.updated = New(owned.dep) # {},
                                  !.available = \E p \in pods : p.ready]
       IN d # owned.dep /\ owned' = [owned EXCEPT !.dep = d]
    /\ UNCHANGED <<cluster, stored, controller, pods, left>>

\* A pod of the current template is created beside the old ones.
Surge ==
    /\ Mine(owned.dep) /\ owned.dep.seen
    /\ New(owned.dep) = {}
    /\ pods' = pods \cup {[shape |-> owned.dep.shape, ready |-> FALSE]}
    /\ UNCHANGED <<cluster, stored, controller, owned, left>>

PodReady ==
    /\ \E p \in pods : ~p.ready /\ pods' = (pods \ {p}) \cup {[p EXCEPT !.ready = TRUE]}
    /\ UNCHANGED <<cluster, stored, controller, owned, left>>

\* Old pods go once a new one is ready.
RetireOld ==
    /\ Mine(owned.dep)
    /\ \E p \in New(owned.dep) : p.ready
    /\ pods # New(owned.dep)
    /\ pods' = New(owned.dep)
    /\ UNCHANGED <<cluster, stored, controller, owned, left>>

PodFails ==
    /\ Spend("failures")
    /\ \E p \in pods : p.ready /\ pods' = (pods \ {p}) \cup {[p EXCEPT !.ready = FALSE]}
    /\ UNCHANGED <<cluster, stored, controller, owned>>

\* The cloud has made the load balancer.
AssignAddress ==
    /\ Mine(owned.svc) /\ owned.svc.addr = Absent
    /\ owned' = [owned EXCEPT !.svc.addr = Cloud]
    /\ UNCHANGED <<cluster, stored, controller, pods, left>>

----------------------------------------------------------------------------
(* What people do to the objects by hand.                                  *)

DriftData ==
    /\ "data" \in Drifts /\ Spend("drifts")
    /\ Mine(owned.cm) /\ owned.cm.data # Absent
    /\ owned' = [owned EXCEPT !.cm.data = Absent]
    /\ UNCHANGED <<cluster, stored, controller, pods>>

DriftTemplate(s) ==
    /\ "template" \in Drifts /\ Spend("drifts")
    /\ Mine(owned.dep) /\ owned.dep.shape # s.shape
    /\ owned' = [owned EXCEPT !.dep.shape = s.shape, !.dep.seen = FALSE]
    /\ UNCHANGED <<cluster, stored, controller, pods>>

DriftDelete(k) ==
    /\ "delete" \in Drifts /\ Spend("drifts")
    /\ Mine(owned[k])
    /\ owned' = [owned EXCEPT ![k] = Absent]
    /\ pods' = IF k = "dep" THEN {} ELSE pods
    /\ UNCHANGED <<cluster, stored, controller>>

\* Somebody else creates an object of that name, and takes it away again.
ForeignCreates(k) ==
    /\ "foreign" \in Drifts /\ Spend("drifts")
    /\ owned[k] = Absent
    /\ owned' = [owned EXCEPT ![k] = Foreign]
    /\ UNCHANGED <<cluster, stored, controller, pods>>

ForeignLeaves(k) ==
    /\ owned[k] = Foreign
    /\ owned' = [owned EXCEPT ![k] = Absent]
    /\ UNCHANGED <<cluster, stored, controller, pods, left>>

----------------------------------------------------------------------------
Reconcile ==
    \/ Begin \/ ObserveConfigMap \/ ObserveDeployment \/ Plan
    \/ Preflight \/ Write \/ ReadAddresses \/ PatchStatus
    \/ ApiFault \/ ClassNotFound \/ PlanFails

Kubernetes ==
    SyncDeployment \/ Surge \/ PodReady \/ RetireOld \/ PodFails \/ AssignAddress

People ==
    \/ \E s \in Specs : EditGateway(s) \/ DriftTemplate(s)
    \/ EditRoute \/ DriftData
    \/ \E k \in Kinds : DriftDelete(k) \/ ForeignCreates(k) \/ ForeignLeaves(k)

Next ==
    \/ People \/ Kubernetes \/ Reconcile
    \/ JudgeRoute \/ StoreRoute \/ Start \/ WarmUp \/ Restart \/ TimerFires

Spec == Init /\ [][Next]_vars

\* The controller's own steps and timers, its restart by Kubernetes, the
\* Deployment controller, the kubelet and the cloud go on; a stranger's object is
\* removed in the end (the manual resolution the design asks for).
Fairness ==
    /\ WF_vars(Begin) /\ WF_vars(ObserveConfigMap) /\ WF_vars(ObserveDeployment)
    /\ WF_vars(Plan) /\ WF_vars(Preflight) /\ WF_vars(Write)
    /\ WF_vars(ReadAddresses) /\ WF_vars(PatchStatus)
    /\ WF_vars(JudgeRoute) /\ WF_vars(StoreRoute)
    /\ WF_vars(Start) /\ WF_vars(WarmUp) /\ WF_vars(TimerFires)
    /\ WF_vars(SyncDeployment) /\ WF_vars(Surge) /\ WF_vars(PodReady) /\ WF_vars(RetireOld)
    /\ WF_vars(AssignAddress)
    /\ \A k \in Kinds : WF_vars(ForeignLeaves(k))

FairSpec == Spec /\ Fairness

----------------------------------------------------------------------------
Shapes == {s.shape : s \in Specs}
Configs == Specs \X (0..MaxRoutes)

\* What the controller makes of each kind.
Made(k) ==
    CASE k = "sa"  -> [by : {"wicket"}]
      [] k = "cm"  -> [by : {"wicket"}, data : Configs \cup {Absent}, revision : Configs]
      [] k = "svc" -> [by : {"wicket"}, shape : Shapes, addr : {Absent, Cloud}]
      [] k = "dep" -> [by : {"wicket"}, shape : Shapes, revision : Shapes,
                       seen : BOOLEAN, updated : BOOLEAN, available : BOOLEAN]

Objects(k) == {Absent, Foreign} \cup Made(k)

ASSUME AbsentAssumption == Absent # Foreign /\ \A k \in Kinds : Absent \notin Made(k)

Programmed == status # Absent /\ status.conditions[2].status
StatusGen  == status.conditions[2].gen

\* The types of the variables.
TypeOK ==
    /\ specs \in Seq(Specs) /\ Len(specs) \in 1..(MaxEdits + 1)
    /\ status # Absent => StatusGen \in 1..Generation
    /\ route \in 0..MaxRoutes /\ judged \in 0..route /\ stored \in 0..route
    /\ ready \in BOOLEAN /\ started \in BOOLEAN /\ queue \in BOOLEAN
    /\ timer \in {"none", "resync", "retry"}
    /\ rec.pc \in {"idle", "cm", "dep", "plan", "check", "write", "address", "patch"}
    /\ rec.pc \notin {"idle", "address", "patch"} => rec.gen \in 1..Generation
    /\ rec.pc \in {"check", "write"} => rec.at \in 1..Len(Order) /\ rec.want \in Configs
    /\ \A k \in Kinds : owned[k] \in Objects(k)
    /\ pods \subseteq [shape : Shapes, ready : BOOLEAN]

\* A Gateway that is reported Programmed has a pod of the shape its observed
\* generation, or a later one, asks for (gateway.rs:823-885).
ProgrammedIsBuilt ==
    Programmed =>
        \E i \in StatusGen..Generation, p \in pods : p.shape = specs[i].shape

\* ... and, as long as no pod fails, a ready one (runtime_plan.rs:226-228).
ProgrammedIsServing ==
    Programmed =>
        \E i \in StatusGen..Generation, p \in pods : p.ready /\ p.shape = specs[i].shape

\* A reconcile that has just sent the Deployment into a new rollout does not
\* report Programmed from what it saw before (gateway.rs:646-653).
NoOneCycleLie == rec.pc = "patch" /\ rec.outcome.programmed => ~rec.rolls

\* The controller goes to rest for 300 s only over a Service and a Deployment
\* that were made from the Gateway's latest spec.
RestsOnlyWhenBuilt ==
    started /\ ~queue /\ timer = "resync" /\ rec.pc = "idle" =>
        /\ StatusGen = Generation
        /\ Mine(owned.dep) /\ owned.dep.shape = Desired.shape
        /\ Mine(owned.svc) /\ owned.svc.shape = Desired.shape

\* The controller goes to rest for 300 s only when the ConfigMap has the
\* routes that are in the store.
RestsOnlyWhenRendered ==
    ready /\ started /\ ~queue /\ timer = "resync" /\ rec.pc = "idle" /\ judged = route /\ stored = judged =>
        Mine(owned.cm) /\ owned.cm.data = Config(Desired, stored)

\* An object the controller does not own is left alone (runtime_applier.rs:163-165).
NeverTakesOver ==
    [][\A k \in Kinds : owned[k] = Foreign => ~Mine(owned'[k])]_vars

\* Once people leave the cluster alone, all four objects are the ones the
\* latest spec and routes ask for, the pods run, and the status says so with
\* the address the Gateway has.
EventuallyProgrammed ==
    <>[](/\ \A k \in Kinds : Mine(owned[k])
         /\ owned.cm.data = Config(Desired, route)
         /\ owned.svc.shape = Desired.shape
         /\ owned.dep.shape = Desired.shape
         /\ pods = {[shape |-> Desired.shape, ready |-> TRUE]}
         /\ Programmed /\ StatusGen = Generation
         /\ status.addresses = <<Cloud>>)
=============================================================================
