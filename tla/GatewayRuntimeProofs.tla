------------------------ MODULE GatewayRuntimeProofs ------------------------
(***************************************************************************)
(* Proofs about GatewayRuntime, for any specs, any nodes and any number of *)
(* edits, faults and failing pods.                                         *)
(***************************************************************************)
EXTENDS GatewayRuntime, TLAPS

----------------------------------------------------------------------------
(* The owned objects.                                                      *)

MadeService == [by : {"wicket"}, shape : Shapes, addr : {Absent, Cloud}]

MadeDeployment ==
    [by : {"wicket"}, shape : Shapes, revision : Shapes,
     seen : BOOLEAN, updated : BOOLEAN, available : BOOLEAN]

(***************************************************************************)
(* The owned objects are a function, and the two that have a shape are     *)
(* absent, a stranger's, or as the controller makes them.                  *)
(***************************************************************************)
OwnedType ==
    /\ owned = [k \in Kinds |-> owned[k]]
    /\ owned.svc \in {Absent, Foreign} \cup MadeService
    /\ owned.dep \in {Absent, Foreign} \cup MadeDeployment

(***************************************************************************)
(* The controller's own objects are the made ones: they have a label, and  *)
(* are there.                                                              *)
(***************************************************************************)
LEMMA MineIsMade ==
    /\ ~Mine(Absent) /\ ~Mine(Foreign)
    /\ \A x \in MadeService : Mine(x)
    /\ \A x \in MadeDeployment : Mine(x)
<1>1. ~Mine(Absent) /\ ~Mine(Foreign)
  BY DEF Mine, Foreign
<1>2. ASSUME NEW x \in MadeService PROVE Mine(x)
  <2>1. Made("svc") = MadeService
    BY DEF Made, MadeService
  <2>2. x # Absent
    BY <2>1, AbsentAssumption DEF Kinds
  <2>3. x.by = "wicket"
    BY DEF MadeService
  <2> QED
    BY <2>2, <2>3 DEF Mine
<1>3. ASSUME NEW x \in MadeDeployment PROVE Mine(x)
  <2>1. Made("dep") = MadeDeployment
    BY DEF Made, MadeDeployment
  <2>2. x # Absent
    BY <2>1, AbsentAssumption DEF Kinds
  <2>3. x.by = "wicket"
    BY DEF MadeDeployment
  <2> QED
    BY <2>2, <2>3 DEF Mine
<1> QED
  BY <1>1, <1>2, <1>3

\* What is recognised as the controller's own is of the type it makes.
LEMMA OwnMade ==
    ASSUME OwnedType
    PROVE  /\ Mine(owned.svc) => owned.svc \in MadeService
           /\ Mine(owned.dep) => owned.dep \in MadeDeployment
  BY MineIsMade DEF OwnedType

----------------------------------------------------------------------------
(* The parts of the invariant.                                             *)

SpecsType == specs \in Seq(Specs) /\ Len(specs) >= 1

PodsType == pods \subseteq [shape : Shapes, ready : BOOLEAN]

StatusType ==
    status # Absent => Len(status.conditions) = 2 /\ DOMAIN status.conditions = 1..2

Planning  == {"cm", "dep", "plan"}
Applying  == {"check", "write"}
Reporting == {"address", "patch"}

(***************************************************************************)
(* The reconcile under way works on a spec the Gateway has had.            *)
(***************************************************************************)
RecType ==
    /\ rec.pc \in {"idle"} \cup Planning \cup Applying \cup Reporting
    /\ rec.pc \in Planning => rec.gen \in 1..Generation /\ rec.spec = specs[rec.gen]
    /\ rec.pc \in Applying => /\ rec.gen \in 1..Generation /\ rec.at \in 1..4
                              /\ rec.want[1] = specs[rec.gen]
    /\ rec.pc \in Reporting => rec.outcome.gen \in 1..Generation

(***************************************************************************)
(* A controller that does not watch does nothing.                          *)
(***************************************************************************)
StartInv == queue \/ timer # "none" \/ rec.pc # "idle" => started

(***************************************************************************)
(* The generation the reconcile under way is about, which is the latest    *)
(* unless another reconcile is queued, and never before the status's.      *)
(***************************************************************************)
RecGen == IF rec.pc \in Reporting THEN rec.outcome.gen ELSE rec.gen

GenInv ==
    /\ status # Absent => StatusGen \in 1..Generation
    /\ rec.pc # "idle" /\ status # Absent => StatusGen <= RecGen
    /\ rec.pc # "idle" /\ ~queue => RecGen = Generation

(***************************************************************************)
(* The status the reconcile was called with is the Gateway's still: nobody *)
(* else writes it.                                                         *)
(***************************************************************************)
CopyInv == rec.pc # "idle" => copy = status

(***************************************************************************)
(* A Deployment whose rollout its controller has counted has a pod.        *)
(***************************************************************************)
HasPod(shape) == \E p \in pods : p.shape = shape

CountedInv ==
    Mine(owned.dep) /\ owned.dep.seen /\ owned.dep.updated => HasPod(owned.dep.shape)

(***************************************************************************)
(* What holds of any cluster.                                              *)
(***************************************************************************)
BaseInv ==
    /\ OwnedType /\ SpecsType /\ PodsType /\ StatusType /\ RecType
    /\ StartInv /\ GenInv /\ CopyInv /\ CountedInv

(***************************************************************************)
(* As long as nobody edits or deletes the Deployment: its annotation tells *)
(* its shape, what was observed of it still holds, and an outcome is       *)
(* "programmed" only if the apply left the template as it was.             *)
(***************************************************************************)
ObservedInv ==
    /\ Mine(owned.dep) => owned.dep.revision = owned.dep.shape
    /\ rec.pc = "plan" /\ Mine(owned.dep) => rec.shape = owned.dep.shape
    /\ rec.pc \in Applying /\ Mine(owned.dep) /\ ~rec.specChanged =>
          owned.dep.shape = rec.want[1].shape
    /\ rec.pc = "write" /\ rec.at = 4 /\ rec.existed => Mine(owned.dep)
    /\ rec.pc \in Reporting /\ rec.outcome.programmed => ~rec.rolls

(***************************************************************************)
(* As long as, besides, nobody else makes such objects and the controller  *)
(* is not restarted: there is no Deployment before the store is ready, and *)
(* what is reported as programmed has been built.                          *)
(***************************************************************************)
BuiltSoFar ==
    /\ owned.dep # Foreign /\ owned.svc # Foreign
    /\ ~ready => owned.dep = Absent /\ rec.pc \notin Applying
    /\ rec.pc \in {"plan"} \cup Applying /\ rec.converged =>
          Mine(owned.dep) /\ HasPod(owned.dep.shape)
    /\ rec.pc \in Applying /\ rec.at = 4 =>
          Mine(owned.svc) /\ owned.svc.shape = rec.want[1].shape
    /\ rec.pc \in Reporting /\ rec.outcome.programmed =>
          /\ Mine(owned.dep) /\ owned.dep.shape = specs[rec.outcome.gen].shape
          /\ HasPod(owned.dep.shape)
          /\ Mine(owned.svc) /\ owned.svc.shape = specs[rec.outcome.gen].shape

ProgrammedFrom ==
    Programmed =>
        Mine(owned.dep) /\ \E i \in StatusGen..Generation : owned.dep.shape = specs[i].shape

BuiltInv == BuiltSoFar /\ ProgrammedFrom /\ ProgrammedIsBuilt /\ RestsOnlyWhenBuilt

(***************************************************************************)
(* No restart is left.                                                     *)
(***************************************************************************)
NoRestart == "restarts" \in DOMAIN left /\ left["restarts"] = 0

----------------------------------------------------------------------------
(* How a step may change each part of the state.                           *)

(***************************************************************************)
(* The Gateway's specs are only ever appended to.                          *)
(***************************************************************************)
SpecsGrow ==
    /\ Len(specs) <= Len(specs')
    /\ \A i \in 1..Len(specs) : specs'[i] = specs[i]

\* Generations are only added: an edit appends a spec and changes none.
LEMMA SpecsNext == SpecsType /\ [Next]_vars => SpecsType' /\ SpecsGrow
<1> SUFFICES ASSUME SpecsType, [Next]_vars PROVE SpecsType' /\ SpecsGrow
  OBVIOUS
<1>1. CASE specs' = specs
  BY <1>1 DEF SpecsType, SpecsGrow
<1>2. ASSUME NEW s \in Specs, EditGateway(s) PROVE SpecsType' /\ SpecsGrow
  <2>1. specs' = Append(specs, s) /\ specs \in Seq(Specs)
    BY <1>2 DEF EditGateway, SpecsType
  <2>2. specs' \in Seq(Specs) /\ Len(specs') = Len(specs) + 1 /\ \A i \in 1..Len(specs) : specs'[i] = specs[i]
    BY <2>1
  <2> QED
    BY <2>2 DEF SpecsType, SpecsGrow
<1>3. specs' = specs \/ \E s \in Specs : EditGateway(s)
  BY DEF Next, People, Kubernetes, Reconcile, vars, cluster, DriftTemplate, EditRoute, DriftData, DriftDelete,
         ForeignCreates, ForeignLeaves, SyncDeployment, Surge, PodReady, RetireOld, PodFails, AssignAddress,
         Begin, ObserveConfigMap, ObserveDeployment, Plan, Preflight, Write, ReadAddresses, PatchStatus,
         ApiFault, ClassNotFound, PlanFails, JudgeRoute, StoreRoute, Start, WarmUp, Restart, TimerFires
<1> QED
  BY <1>1, <1>2, <1>3

(***************************************************************************)
(* The owned objects keep their form: what is applied has the shape of a   *)
(* spec, and the cluster and people change only single fields.             *)
(***************************************************************************)
LEMMA WantedShape ==
    ASSUME SpecsType, RecType, rec.pc \in Applying
    PROVE  rec.want[1] \in Specs /\ rec.want[1].shape \in Shapes
<1>1. rec.want[1] \in Specs
  BY DEF SpecsType, RecType, Generation
<1> QED
  BY <1>1 DEF Shapes

\* The server-side apply leaves the planned shape; a rollout it reports as seen is that shape's own.
LEMMA AppliedMade ==
    ASSUME OwnedType, SpecsType, RecType, rec.pc = "write"
    PROVE  /\ Applied("svc") \in MadeService /\ Applied("svc").shape = rec.want[1].shape
           /\ Applied("dep") \in MadeDeployment
           /\ Applied("dep").shape = rec.want[1].shape
           /\ Applied("dep").revision = rec.want[1].shape
           /\ Applied("dep").seen => /\ Mine(owned.dep) /\ owned.dep.seen
                                     /\ owned.dep.shape = rec.want[1].shape
                                     /\ Applied("dep").updated = owned.dep.updated
<1>1. rec.want[1].shape \in Shapes
  BY WantedShape DEF Applying
<1>2. /\ Applied("svc") \in MadeService
      /\ Applied("svc").shape = rec.want[1].shape
  <2>1. CASE Mine(owned.svc)
    <3>1. Applied("svc") = [owned.svc EXCEPT !.shape = rec.want[1].shape]
      BY <2>1 DEF Applied
    <3>2. owned.svc \in MadeService
      BY <2>1, OwnMade
    <3> QED
      BY <1>1, <3>1, <3>2 DEF MadeService
  <2>2. CASE ~Mine(owned.svc)
    <3>1. Applied("svc") = NewService
      BY <2>2 DEF Applied
    <3> QED
      BY <1>1, <3>1 DEF NewService, MadeService
  <2> QED
    BY <2>1, <2>2
<1>3. /\ Applied("dep") \in MadeDeployment
      /\ Applied("dep").shape = rec.want[1].shape
      /\ Applied("dep").revision = rec.want[1].shape
      /\ Applied("dep").seen => /\ Mine(owned.dep) /\ owned.dep.seen
                                /\ owned.dep.shape = rec.want[1].shape
                                /\ Applied("dep").updated = owned.dep.updated
  <2>1. CASE Mine(owned.dep)
    <3> DEFINE d == owned.dep
    <3>1. Applied("dep") = [d EXCEPT !.shape = rec.want[1].shape, !.revision = rec.want[1].shape,
                                     !.seen = d.seen /\ d.shape = rec.want[1].shape]
      BY <2>1 DEF Applied
    <3>2. d \in MadeDeployment
      BY <2>1, OwnMade
    <3> QED
      BY <1>1, <2>1, <3>1, <3>2 DEF MadeDeployment
  <2>2. CASE ~Mine(owned.dep)
    <3>1. Applied("dep") = [by |-> "wicket", shape |-> rec.want[1].shape,
                            revision |-> rec.want[1].shape,
                            seen |-> FALSE, updated |-> FALSE, available |-> FALSE]
      BY <2>2 DEF Applied
    <3>2. ASSUME NEW s \in Shapes
          PROVE  [by |-> "wicket", shape |-> s, revision |-> s, seen |-> FALSE,
                  updated |-> FALSE, available |-> FALSE] \in MadeDeployment
      BY DEF MadeDeployment
    <3>3. /\ Applied("dep").shape = rec.want[1].shape
          /\ Applied("dep").revision = rec.want[1].shape
          /\ Applied("dep").seen = FALSE
      BY <3>1
    <3> QED
      BY <1>1, <3>1, <3>2, <3>3
  <2> QED
    BY <2>1, <2>2
<1> QED
  BY <1>2, <1>3

\* One write changes its own object and goes on to the next object, or to the outcome after the last.
LEMMA WriteEffect ==
    ASSUME OwnedType, SpecsType, RecType, Write
    PROVE  /\ OwnedType'
           /\ owned'.svc = IF rec.at = 3 THEN Applied("svc") ELSE owned.svc
           /\ owned'.dep = IF rec.at = 4 THEN Applied("dep") ELSE owned.dep
           /\ rec.at = 4 => rec' = Outcome
           /\ rec.at # 4 => rec' = [pc |-> "check", at |-> rec.at + 1, gen |-> rec.gen,
                                    converged |-> rec.converged, want |-> rec.want,
                                    configChanged |-> rec.configChanged,
                                    specChanged |-> rec.specChanged]
<1> DEFINE k == Order[rec.at]
<1>1. /\ rec.pc = "write" /\ rec.at \in 1..4
      /\ owned' = [owned EXCEPT ![k] = Applied(k)]
      /\ rec' = IF k = "dep" THEN Outcome
                ELSE [pc |-> "check", at |-> rec.at + 1, gen |-> rec.gen,
                      converged |-> rec.converged, want |-> rec.want,
                      configChanged |-> rec.configChanged, specChanged |-> rec.specChanged]
  BY DEF Write, RecType, Applying
<1>2. /\ rec.at = 1 => k = "sa"
      /\ rec.at = 2 => k = "cm"
      /\ rec.at = 3 => k = "svc"
      /\ rec.at = 4 => k = "dep"
  BY DEF Order
<1>3. k \in Kinds /\ (k = "svc" <=> rec.at = 3) /\ (k = "dep" <=> rec.at = 4)
  BY <1>1, <1>2 DEF Kinds
<1> HIDE DEF k
<1>4. /\ owned' = [j \in Kinds |-> owned'[j]]
      /\ owned'.svc = IF k = "svc" THEN Applied(k) ELSE owned.svc
      /\ owned'.dep = IF k = "dep" THEN Applied(k) ELSE owned.dep
  BY <1>1, <1>3 DEF OwnedType, Kinds
<1>5. /\ owned'.svc = IF rec.at = 3 THEN Applied("svc") ELSE owned.svc
      /\ owned'.dep = IF rec.at = 4 THEN Applied("dep") ELSE owned.dep
  BY <1>3, <1>4
<1>6. Applied("svc") \in MadeService /\ Applied("dep") \in MadeDeployment
  BY <1>1, AppliedMade
<1>7. OwnedType'
  BY <1>4, <1>5, <1>6 DEF OwnedType
<1> QED
  BY <1>1, <1>3, <1>5, <1>7

(***************************************************************************)
(* Any other step leaves the Service and the Deployment as they are in     *)
(* whatever makes them the controller's, unless somebody edits or deletes  *)
(* them.                                                                   *)
(***************************************************************************)
Stays(old, new) ==
    /\ Mine(old) <=> Mine(new)
    /\ Mine(old) => new.shape = old.shape

ObjectsStay ==
    /\ Stays(owned.svc, owned'.svc)
    /\ Stays(owned.dep, owned'.dep)
    /\ Mine(owned.dep) => owned'.dep.revision = owned.dep.revision
    /\ owned.dep = Absent /\ "foreign" \notin Drifts => owned'.dep = Absent
    /\ owned.svc # Foreign /\ "foreign" \notin Drifts => owned'.svc # Foreign
    /\ owned.dep # Foreign /\ "foreign" \notin Drifts => owned'.dep # Foreign

\* Objects that are not changed stay.
LEMMA KeptStays ==
    ASSUME OwnedType, owned'.svc = owned.svc, owned'.dep = owned.dep
    PROVE  ObjectsStay
  BY DEF ObjectsStay, Stays

\* The Deployment controller counts a pod as updated only if one of the template's shape exists.
LEMMA SyncEffect ==
    ASSUME OwnedType, PodsType, SyncDeployment
    PROVE  /\ OwnedType' /\ ObjectsStay
           /\ Mine(owned.dep) /\ owned'.dep.updated => HasPod(owned.dep.shape)
<1> DEFINE d == [owned.dep EXCEPT !.seen = TRUE, !.updated = New(owned.dep) # {},
                                  !.available = \E p \in pods : p.ready]
<1>1. Mine(owned.dep) /\ owned' = [owned EXCEPT !.dep = d]
  BY DEF SyncDeployment
<1>2. owned.dep \in MadeDeployment
  BY <1>1, OwnMade
<1>3. /\ d \in MadeDeployment /\ d.shape = owned.dep.shape /\ d.revision = owned.dep.revision
      /\ d.updated => New(owned.dep) # {}
  BY <1>2 DEF MadeDeployment
<1> HIDE DEF d
<1>4. /\ owned' = [k \in Kinds |-> owned'[k]]
      /\ owned'.dep = d /\ owned'.svc = owned.svc
  BY <1>1 DEF OwnedType, Kinds
<1>5. OwnedType'
  BY <1>3, <1>4 DEF OwnedType
<1>6. Mine(owned'.dep) /\ owned'.dep # Foreign /\ owned.dep # Absent
  BY <1>1, <1>3, <1>4, MineIsMade
<1>7. ObjectsStay
  BY <1>1, <1>3, <1>4, <1>6 DEF ObjectsStay, Stays
<1>8. New(owned.dep) # {} => HasPod(owned.dep.shape)
  BY DEF New, HasPod
<1> QED
  BY <1>3, <1>4, <1>5, <1>7, <1>8

\* The cloud's address changes nothing of the Deployment.
LEMMA AddressEffect ==
    ASSUME OwnedType, AssignAddress
    PROVE  OwnedType' /\ ObjectsStay /\ owned'.dep = owned.dep
<1> DEFINE s == [owned.svc EXCEPT !.addr = Cloud]
<1>1. Mine(owned.svc) /\ owned' = [owned EXCEPT !.svc = s]
  BY DEF AssignAddress, OwnedType, Kinds
<1>2. owned.svc \in MadeService
  BY <1>1, OwnMade
<1>3. s \in MadeService /\ s.shape = owned.svc.shape
  BY <1>2 DEF MadeService
<1> HIDE DEF s
<1>4. /\ owned' = [k \in Kinds |-> owned'[k]]
      /\ owned'.svc = s /\ owned'.dep = owned.dep
  BY <1>1 DEF OwnedType, Kinds
<1>5. OwnedType'
  BY <1>3, <1>4 DEF OwnedType
<1>6. Mine(owned'.svc) /\ owned'.svc # Foreign
  BY <1>3, <1>4, MineIsMade
<1> QED
  BY <1>1, <1>3, <1>4, <1>5, <1>6 DEF ObjectsStay, Stays

\* Changed ConfigMap data changes nothing of the Deployment.
LEMMA DataEffect ==
    ASSUME OwnedType, DriftData
    PROVE  OwnedType' /\ ObjectsStay /\ owned'.dep = owned.dep
<1>1. /\ owned' = [k \in Kinds |-> owned'[k]]
      /\ owned'.svc = owned.svc /\ owned'.dep = owned.dep
  BY DEF DriftData, OwnedType, Kinds
<1>2. OwnedType'
  BY <1>1 DEF OwnedType
<1> QED
  BY <1>1, <1>2, KeptStays

\* A template changed by hand makes the Deployment's status out of date.
LEMMA TemplateEffect ==
    ASSUME OwnedType, NEW s \in Specs, DriftTemplate(s)
    PROVE  OwnedType' /\ "template" \in Drifts /\ ~owned'.dep.seen
<1> DEFINE d == [owned.dep EXCEPT !.shape = s.shape, !.seen = FALSE]
<1>1. Mine(owned.dep) /\ owned' = [owned EXCEPT !.dep = d] /\ "template" \in Drifts
  BY DEF DriftTemplate, OwnedType, Kinds
<1>2. owned.dep \in MadeDeployment /\ s.shape \in Shapes
  BY <1>1, OwnMade DEF Shapes
<1>3. d \in MadeDeployment /\ d.seen = FALSE
  BY <1>2 DEF MadeDeployment
<1> HIDE DEF d
<1>4. /\ owned' = [k \in Kinds |-> owned'[k]]
      /\ owned'.dep = d /\ owned'.svc = owned.svc
  BY <1>1 DEF OwnedType, Kinds
<1> QED
  BY <1>1, <1>3, <1>4 DEF OwnedType

(***************************************************************************)
(* An object is deleted, or a stranger's is created or taken away.         *)
(***************************************************************************)
LEMMA ReplaceEffect ==
    ASSUME OwnedType, NEW k \in Kinds, NEW o \in {Absent, Foreign},
           owned' = [owned EXCEPT ![k] = o]
    PROVE  /\ OwnedType'
           /\ owned'.svc = (IF k = "svc" THEN o ELSE owned.svc)
           /\ owned'.dep = (IF k = "dep" THEN o ELSE owned.dep)
<1>1. /\ owned' = [j \in Kinds |-> owned'[j]]
      /\ owned'.svc = (IF k = "svc" THEN o ELSE owned.svc)
      /\ owned'.dep = (IF k = "dep" THEN o ELSE owned.dep)
  BY DEF OwnedType, Kinds
<1> QED
  BY <1>1 DEF OwnedType

\* A stranger's object appears or leaves beside the controller's own.
LEMMA ForeignEffect ==
    ASSUME OwnedType, NEW k \in Kinds, ForeignCreates(k) \/ ForeignLeaves(k)
    PROVE  OwnedType' /\ ObjectsStay /\ (Mine(owned'.dep) => owned'.dep = owned.dep)
<1>1. PICK o \in {Absent, Foreign} :
         /\ owned' = [owned EXCEPT ![k] = o]
         /\ owned[k] \in {Absent, Foreign}
         /\ owned[k] = Absent => "foreign" \in Drifts
         /\ owned[k] = Foreign => o = Absent
  <2>1. CASE ForeignCreates(k)
    BY <2>1, AbsentAssumption DEF ForeignCreates
  <2>2. CASE ForeignLeaves(k)
    BY <2>2, AbsentAssumption DEF ForeignLeaves
  <2> QED
    BY <2>1, <2>2
<1>2. /\ OwnedType'
      /\ owned'.svc = (IF k = "svc" THEN o ELSE owned.svc)
      /\ owned'.dep = (IF k = "dep" THEN o ELSE owned.dep)
  BY <1>1, ReplaceEffect
<1>3. ~Mine(owned[k]) /\ ~Mine(o)
  BY <1>1, MineIsMade
<1>4. (k = "svc" => owned[k] = owned.svc) /\ (k = "dep" => owned[k] = owned.dep)
  OBVIOUS
<1> QED
  BY <1>1, <1>2, <1>3, <1>4 DEF ObjectsStay, Stays

\* A deletion leaves the Deployment as it was, unless it takes it.
LEMMA DeleteEffect ==
    ASSUME OwnedType, NEW k \in Kinds, DriftDelete(k)
    PROVE  /\ OwnedType' /\ "delete" \in Drifts
           /\ Mine(owned'.dep) => k # "dep" /\ owned'.dep = owned.dep
<1>1. owned' = [owned EXCEPT ![k] = Absent] /\ "delete" \in Drifts
  BY DEF DriftDelete
<1>2. /\ OwnedType'
      /\ owned'.dep = (IF k = "dep" THEN Absent ELSE owned.dep)
  BY <1>1, ReplaceEffect
<1> QED
  BY <1>1, <1>2, MineIsMade

(***************************************************************************)
(* The steps that change an owned object.                                  *)
(***************************************************************************)
LEMMA OwnedActions ==
    ASSUME [Next]_vars
    PROVE  \/ Write \/ SyncDeployment \/ AssignAddress \/ DriftData
           \/ \E s \in Specs : DriftTemplate(s)
           \/ \E k \in Kinds : DriftDelete(k) \/ ForeignCreates(k) \/ ForeignLeaves(k)
           \/ owned' = owned
  BY DEF Next, People, Kubernetes, Reconcile, vars, cluster, EditGateway, EditRoute, Surge,
         PodReady, RetireOld, PodFails, Begin, ObserveConfigMap, ObserveDeployment, Plan, Preflight,
         ReadAddresses, PatchStatus, ApiFault, ClassNotFound, PlanFails, JudgeRoute, StoreRoute,
         Start, WarmUp, Restart, TimerFires

\* Unless somebody tampers, only a write of the controller changes its objects' shape or undoes a rollout.
LEMMA OwnedNext ==
    ASSUME OwnedType, SpecsType, PodsType, RecType, [Next]_vars
    PROVE  /\ OwnedType'
           /\ Write \/ "template" \in Drifts \/ "delete" \in Drifts \/ ObjectsStay
<1>1. CASE Write
  BY <1>1, WriteEffect
<1>2. CASE SyncDeployment
  BY <1>2, SyncEffect
<1>3. CASE AssignAddress
  BY <1>3, AddressEffect
<1>4. CASE DriftData
  BY <1>4, DataEffect
<1>5. CASE \E s \in Specs : DriftTemplate(s)
  BY <1>5, TemplateEffect
<1>6. CASE \E k \in Kinds : DriftDelete(k)
  BY <1>6, DeleteEffect
<1>7. CASE \E k \in Kinds : ForeignCreates(k) \/ ForeignLeaves(k)
  BY <1>7, ForeignEffect
<1>8. CASE owned' = owned
  <2>1. OwnedType'
    BY <1>8 DEF OwnedType
  <2> QED
    BY <1>8, <2>1, KeptStays
<1> QED
  BY <1>1, <1>2, <1>3, <1>4, <1>5, <1>6, <1>7, <1>8, OwnedActions

(***************************************************************************)
(* Pods become ready or fail with their shape kept, and pods of a shape    *)
(* other than the Deployment's go only once there is one of its own.       *)
(***************************************************************************)
PodsKept == \A shape : HasPod(shape) => \E p \in pods' : p.shape = shape

PodsStay ==
    \/ PodsKept
    \/ RetireOld /\ owned' = owned /\ Mine(owned.dep) /\ \E p \in pods' : p.shape = owned.dep.shape

\* A pod that becomes ready or fails is still there.
LEMMA RereadyEffect ==
    ASSUME PodsType, NEW p \in pods, NEW b \in BOOLEAN,
           pods' = (pods \ {p}) \cup {[p EXCEPT !.ready = b]}
    PROVE  PodsType' /\ PodsKept
<1> DEFINE q == [p EXCEPT !.ready = b]
<1>1. q \in [shape : Shapes, ready : BOOLEAN] /\ q.shape = p.shape
  BY DEF PodsType
<1> HIDE DEF q
<1>2. pods' = (pods \ {p}) \cup {q}
  BY DEF q
<1>3. PodsType'
  BY <1>1, <1>2 DEF PodsType
<1> QED
  BY <1>1, <1>2, <1>3 DEF PodsKept, HasPod

\* Pods of the Deployment's shape go only with the Deployment.
LEMMA PodsNext ==
    ASSUME OwnedType, PodsType, [Next]_vars
    PROVE  PodsType' /\ (PodsStay \/ \E k \in Kinds : DriftDelete(k) /\ k = "dep")
<1>1. CASE pods' = pods
  BY <1>1 DEF PodsType, PodsStay, PodsKept, HasPod
<1>2. CASE Surge
  <2> DEFINE q == [shape |-> owned.dep.shape, ready |-> FALSE]
  <2>1. owned.dep \in MadeDeployment /\ pods' = pods \cup {q}
    BY <1>2, OwnMade DEF Surge
  <2>2. owned.dep.shape \in Shapes
    BY <2>1 DEF MadeDeployment
  <2>3. q \in [shape : Shapes, ready : BOOLEAN]
    BY <2>2
  <2> HIDE DEF q
  <2>4. PodsType'
    BY <2>1, <2>3 DEF PodsType
  <2> QED
    BY <2>1, <2>4 DEF PodsStay, PodsKept, HasPod
<1>3. CASE PodReady
  <2>1. PICK p \in pods : pods' = (pods \ {p}) \cup {[p EXCEPT !.ready = TRUE]}
    BY <1>3 DEF PodReady
  <2> QED
    BY <2>1, RereadyEffect DEF PodsStay
<1>4. CASE PodFails
  <2>1. PICK p \in pods : pods' = (pods \ {p}) \cup {[p EXCEPT !.ready = FALSE]}
    BY <1>4 DEF PodFails
  <2> QED
    BY <2>1, RereadyEffect DEF PodsStay
<1>5. CASE RetireOld
  <2>1. /\ Mine(owned.dep) /\ owned' = owned /\ pods' = New(owned.dep)
        /\ \E p \in New(owned.dep) : p.ready
    BY <1>5 DEF RetireOld
  <2> QED
    BY <1>5, <2>1 DEF New, PodsType, PodsStay
<1>6. CASE \E k \in Kinds : DriftDelete(k) /\ k = "dep"
  BY <1>6 DEF DriftDelete, PodsType
<1> QED
  BY <1>1, <1>2, <1>3, <1>4, <1>5, <1>6
     DEF Next, People, Kubernetes, Reconcile, vars, EditGateway, DriftTemplate, EditRoute,
         DriftData, DriftDelete, ForeignCreates, ForeignLeaves, SyncDeployment, AssignAddress,
         Begin, ObserveConfigMap, ObserveDeployment, Plan, Preflight, Write, ReadAddresses, PatchStatus,
         ApiFault, ClassNotFound, PlanFails, JudgeRoute, StoreRoute, Start, WarmUp, Restart, TimerFires

----------------------------------------------------------------------------
(* The reconcile.                                                          *)

\* Programmed is reported from convergence, unless the observation failed or a write changed the runtime.
LEMMA ReportEffect ==
    ASSUME NEW input, NEW rolls, rec' = Report(input, rolls)
    PROVE  /\ rec'.pc = "address" /\ rec'.rolls = rolls /\ rec'.outcome.gen = rec.gen
           /\ rec'.outcome.programmed <=> /\ input.is # "ObservationFault"
                                          /\ ~(input.is = "Applied" /\ input.mutated)
                                          /\ input.converged
  BY DEF Report, resolve_managed_status_outcome

(***************************************************************************)
(* A fault while observing, and a plan before the store is ready.          *)
(***************************************************************************)
LEMMA FaultReport ==
    ASSUME rec' = Report([is |-> "ObservationFault"], FALSE)
    PROVE  rec'.pc = "address" /\ rec'.outcome.gen = rec.gen /\ ~rec'.outcome.programmed
  BY ReportEffect

\* While the store warms up, the report is the observation's convergence.
LEMMA WarmUpReport ==
    ASSUME rec' = Report([is |-> "StoreNotReady", converged |-> rec.converged], FALSE)
    PROVE  /\ rec'.pc = "address" /\ rec'.outcome.gen = rec.gen /\ ~rec'.rolls
           /\ rec'.outcome.programmed <=> rec.converged
  BY ReportEffect

(***************************************************************************)
(* After the apply: programmed if the rollout was over when observed, the  *)
(* Deployment was there and the plan did not change its revision.          *)
(***************************************************************************)
LEMMA OutcomeReport ==
    ASSUME rec' = Outcome
    PROVE  /\ rec'.pc = "address" /\ rec'.outcome.gen = rec.gen
           /\ rec'.rolls <=> ~Mine(owned.dep) \/ owned.dep.shape # rec.want[1].shape
           /\ rec'.outcome.programmed => rec.converged /\ rec.existed /\ ~rec.specChanged
<1> DEFINE rolls == ~Mine(owned.dep) \/ owned.dep.shape # rec.want[1].shape
           mutated == rec.specChanged \/ ~rec.existed \/ rec.specChanged
           input == [is |-> "Applied", converged |-> rec.converged, mutated |-> mutated]
<1>1. rec' = Report(input, rolls)
  BY DEF Outcome, RuntimeApplyResult
<1>2. input.is = "Applied" /\ (input.mutated <=> mutated) /\ (input.converged <=> rec.converged)
  OBVIOUS
<1>3. /\ rec'.pc = "address" /\ rec'.rolls = rolls /\ rec'.outcome.gen = rec.gen
      /\ rec'.outcome.programmed <=> /\ input.is # "ObservationFault"
                                     /\ ~(input.is = "Applied" /\ input.mutated)
                                     /\ input.converged
  <2> HIDE DEF input, rolls
  <2> QED
    BY <1>1, ReportEffect
<1> QED
  BY <1>2, <1>3

\* The addresses change nothing of the outcome.
LEMMA PatchEffect ==
    ASSUME NEW service, rec' = Patch(service)
    PROVE  rec'.pc = "patch" /\ rec'.rolls = rec.rolls /\ rec'.outcome = rec.outcome
  BY DEF Patch

\* The ownership check refuses a stranger's object and remembers whether the object was there.
LEMMA PreflightEffect ==
    ASSUME Preflight
    PROVE  /\ rec.pc = "check"
           /\ \/ rec' = Idle
              \/ /\ rec'.pc = "write" /\ rec'.at = rec.at /\ rec'.want = rec.want
                 /\ rec'.specChanged = rec.specChanged /\ rec'.converged = rec.converged
                 /\ owned[Order[rec.at]] # Foreign
                 /\ rec'.existed => owned[Order[rec.at]] # Absent
<1> DEFINE o == owned[Order[rec.at]]
<1>1. rec.pc = "check"
  BY DEF Preflight
<1>2. CASE o = Foreign
  BY <1>1, <1>2 DEF Preflight, Fail
<1>3. CASE o # Foreign
  <2>1. rec' = [pc |-> "write", at |-> rec.at, gen |-> rec.gen,
                converged |-> rec.converged, want |-> rec.want,
                configChanged |-> rec.configChanged, specChanged |-> rec.specChanged,
                existed |-> o # Absent]
    BY <1>3 DEF Preflight
  <2> HIDE DEF o
  <2>2. /\ rec'.pc = "write" /\ rec'.at = rec.at /\ rec'.want = rec.want
        /\ rec'.specChanged = rec.specChanged /\ rec'.converged = rec.converged
        /\ rec'.existed = (o # Absent)
    BY <2>1
  <2> QED
    BY <1>1, <1>3, <2>2 DEF o
<1> QED
  BY <1>2, <1>3

\* The actions that change the reconcile under way.
LEMMA RecActions ==
    ASSUME [Next]_vars
    PROVE  \/ Begin \/ ObserveConfigMap \/ ObserveDeployment \/ Plan
           \/ Preflight \/ Write \/ ReadAddresses \/ PatchStatus \/ ApiFault
           \/ ClassNotFound \/ PlanFails \/ Restart \/ rec' = rec
  BY DEF Next, People, Kubernetes, Reconcile, vars, controller, EditGateway, DriftTemplate, EditRoute,
         DriftData, DriftDelete, ForeignCreates, ForeignLeaves, SyncDeployment, AssignAddress,
         Surge, PodReady, RetireOld, PodFails, JudgeRoute, StoreRoute, Start, WarmUp, TimerFires

\* One step keeps the reconcile's record in its type.
LEMMA RecNext ==
    ASSUME OwnedType, SpecsType, RecType, [Next]_vars
    PROVE  RecType'
<1>1. /\ Generation \in Nat /\ Generation' \in Nat /\ 1 <= Generation /\ Generation <= Generation'
      /\ \A i \in 1..Generation : specs'[i] = specs[i] /\ i \in 1..Generation'
  BY SpecsNext DEF SpecsType, SpecsGrow, Generation
<1> USE DEF Planning, Applying, Reporting
<1>2. CASE rec' = rec
  BY <1>1, <1>2 DEF RecType
<1>3. CASE Begin
  <2>1. /\ rec' = [pc |-> "cm", gen |-> Generation, spec |-> Desired]
        /\ specs' = specs
    BY <1>3 DEF Begin, cluster
  <2>2. rec'.pc = "cm" /\ rec'.gen = Generation /\ rec'.spec = specs[Generation] /\ Generation' = Generation
    BY <2>1 DEF Desired, Generation
  <2> QED
    BY <1>1, <2>1, <2>2 DEF RecType
<1>4. CASE ObserveConfigMap
  <2>1. rec.pc = "cm" /\ rec'.pc = "dep" /\ rec'.gen = rec.gen /\ rec'.spec = rec.spec
    BY <1>4 DEF ObserveConfigMap
  <2> QED
    BY <1>1, <2>1 DEF RecType
<1>5. CASE ObserveDeployment
  <2>1. rec.pc = "dep" /\ rec'.pc = "plan" /\ rec'.gen = rec.gen /\ rec'.spec = rec.spec
    BY <1>5 DEF ObserveDeployment
  <2> QED
    BY <1>1, <2>1 DEF RecType
<1>6. CASE Plan
  <2>1. CASE ready
    <3>1. /\ rec.pc = "plan" /\ rec'.pc = "check" /\ rec'.gen = rec.gen /\ rec'.at = 1
          /\ rec'.want = <<rec.spec, stored>>
      BY <1>6, <2>1 DEF Plan, Config
    <3> QED
      BY <1>1, <3>1 DEF RecType
  <2>2. CASE ~ready
    <3>1. /\ rec.pc = "plan"
          /\ rec' = Report([is |-> "StoreNotReady", converged |-> rec.converged], FALSE)
      BY <1>6, <2>2 DEF Plan
    <3> QED
      BY <1>1, <3>1, WarmUpReport DEF RecType
  <2> QED
    BY <2>1, <2>2
<1>7. CASE Preflight
  <2>1. /\ rec.pc = "check"
        /\ \/ rec' = Idle
           \/ rec'.pc = "write" /\ rec'.gen = rec.gen /\ rec'.at = rec.at /\ rec'.want = rec.want
    BY <1>7 DEF Preflight, Fail
  <2> QED
    BY <1>1, <2>1 DEF RecType, Idle
<1>8. CASE Write
  <2>1. rec.pc = "write"
    BY <1>8 DEF Write
  <2>2. CASE rec.at = 4
    <3>1. rec' = Outcome
      BY <1>8, <2>2, WriteEffect
    <3> QED
      BY <1>1, <2>1, <3>1, OutcomeReport DEF RecType
  <2>3. CASE rec.at # 4
    <3>1. rec'.pc = "check" /\ rec'.gen = rec.gen /\ rec'.at = rec.at + 1 /\ rec'.want = rec.want
      BY <1>8, <2>3, WriteEffect
    <3> QED
      BY <1>1, <2>1, <2>3, <3>1 DEF RecType
  <2> QED
    BY <2>2, <2>3
<1>9. CASE ReadAddresses
  <2>1. rec.pc = "address" /\ rec' = Patch(ServiceObject(owned.svc))
    BY <1>9 DEF ReadAddresses
  <2> QED
    BY <1>1, <2>1, PatchEffect DEF RecType
<1>10. CASE PatchStatus \/ Restart \/ ClassNotFound \/ PlanFails
  BY <1>10 DEF PatchStatus, Restart, ClassNotFound, PlanFails, Fail, RecType, Idle
<1>11. CASE ApiFault
  <2>1. CASE rec.pc \in {"cm", "dep"}
    <3>1. rec' = Report([is |-> "ObservationFault"], FALSE)
      BY <1>11, <2>1 DEF ApiFault
    <3> QED
      BY <1>1, <2>1, <3>1, FaultReport DEF RecType
  <2>2. CASE rec.pc = "address"
    <3>1. rec' = Patch(Absent)
      BY <1>11, <2>2 DEF ApiFault
    <3> QED
      BY <1>1, <2>2, <3>1, PatchEffect DEF RecType
  <2>3. CASE rec.pc \notin {"cm", "dep", "address"}
    <3>1. rec' = Idle
      BY <1>11, <2>3 DEF ApiFault, Fail
    <3> QED
      BY <3>1 DEF RecType, Idle
  <2> QED
    BY <2>1, <2>2, <2>3
<1> QED
  BY <1>2, <1>3, <1>4, <1>5, <1>6, <1>7, <1>8, <1>9, <1>10, <1>11, RecActions

(***************************************************************************)
(* A reconcile that goes on is about the same generation, and leaves the   *)
(* Gateway, the queue and the timer alone.                                 *)
(***************************************************************************)
Continues ==
    /\ rec.pc # "idle" /\ rec'.pc # "idle" /\ RecGen' = RecGen
    /\ UNCHANGED <<specs, status, queue, timer, started>>

\* How a reconcile moves: it begins, goes on, ends in a patch, is lost in a restart, or fails and is retried.
LEMMA RecMoves ==
    ASSUME OwnedType, SpecsType, RecType, [Next]_vars
    PROVE  \/ Begin \/ Continues \/ PatchStatus \/ Restart
           \/ rec' = Idle /\ timer' = "retry" /\ rec.pc # "idle"
              /\ UNCHANGED <<specs, status, queue, started>>
           \/ rec' = rec
<1> USE DEF Planning, Applying, Reporting
<1>1. CASE ObserveConfigMap
  BY <1>1 DEF ObserveConfigMap, Continues, RecGen, cluster
<1>2. CASE ObserveDeployment
  <2>1. /\ rec.pc = "dep" /\ rec'.pc = "plan" /\ rec'.gen = rec.gen
        /\ UNCHANGED <<specs, status, queue, timer, started>>
    BY <1>2 DEF ObserveDeployment, cluster
  <2> QED
    BY <2>1 DEF Continues, RecGen
<1>3. CASE Plan
  <2>1. rec.pc = "plan" /\ UNCHANGED <<specs, status, queue, timer, started>>
    BY <1>3 DEF Plan, cluster
  <2>2. CASE ready
    <3>1. rec'.pc = "check" /\ rec'.gen = rec.gen
      BY <1>3, <2>2 DEF Plan
    <3> QED
      BY <2>1, <3>1 DEF Continues, RecGen
  <2>3. CASE ~ready
    <3>1. rec' = Report([is |-> "StoreNotReady", converged |-> rec.converged], FALSE)
      BY <1>3, <2>3 DEF Plan
    <3> QED
      BY <2>1, <3>1, WarmUpReport DEF Continues, RecGen
  <2> QED
    BY <2>2, <2>3
<1>4. CASE Preflight
  <2>1. /\ rec.pc = "check" /\ UNCHANGED <<specs, status, queue, started>>
        /\ \/ rec' = Idle /\ timer' = "retry"
           \/ rec'.pc = "write" /\ rec'.gen = rec.gen /\ timer' = timer
    BY <1>4 DEF Preflight, Fail, cluster
  <2> QED
    BY <2>1 DEF Continues, RecGen
<1>5. CASE Write
  <2>1. rec.pc = "write" /\ UNCHANGED <<specs, status, queue, timer, started>>
    BY <1>5 DEF Write, cluster
  <2>2. CASE rec.at = 4
    <3>1. rec' = Outcome
      BY <1>5, <2>2, WriteEffect
    <3> QED
      BY <2>1, <3>1, OutcomeReport DEF Continues, RecGen
  <2>3. CASE rec.at # 4
    <3>1. rec'.pc = "check" /\ rec'.gen = rec.gen
      BY <1>5, <2>3, WriteEffect
    <3> QED
      BY <2>1, <3>1 DEF Continues, RecGen
  <2> QED
    BY <2>2, <2>3
<1>6. CASE ReadAddresses
  <2>1. /\ rec.pc = "address" /\ rec' = Patch(ServiceObject(owned.svc))
        /\ UNCHANGED <<specs, status, queue, timer, started>>
    BY <1>6 DEF ReadAddresses, cluster
  <2> QED
    BY <2>1, PatchEffect DEF Continues, RecGen
<1>7. CASE ApiFault
  <2>1. rec.pc # "idle" /\ UNCHANGED <<specs, status, queue, started>>
    BY <1>7 DEF ApiFault, cluster
  <2>2. CASE rec.pc \in {"cm", "dep"}
    <3>1. rec' = Report([is |-> "ObservationFault"], FALSE) /\ timer' = timer
      BY <1>7, <2>2 DEF ApiFault
    <3> QED
      BY <2>1, <2>2, <3>1, FaultReport DEF Continues, RecGen
  <2>3. CASE rec.pc = "address"
    <3>1. rec' = Patch(Absent) /\ timer' = timer
      BY <1>7, <2>3 DEF ApiFault
    <3> QED
      BY <2>1, <2>3, <3>1, PatchEffect DEF Continues, RecGen
  <2>4. CASE rec.pc \notin {"cm", "dep", "address"}
    BY <1>7, <2>1, <2>4 DEF ApiFault, Fail
  <2> QED
    BY <2>2, <2>3, <2>4
<1>8. CASE ClassNotFound \/ PlanFails
  BY <1>8 DEF ClassNotFound, PlanFails, Fail, cluster
<1> QED
  BY <1>1, <1>2, <1>3, <1>4, <1>5, <1>6, <1>7, <1>8, RecActions

(***************************************************************************)
(* The steps that change the queue, the timer, started or the Gateway.     *)
(***************************************************************************)
LEMMA QueueActions ==
    ASSUME [Next]_vars
    PROVE  \/ PatchStatus \/ Begin \/ Restart \/ Start \/ TimerFires
           \/ \E s \in Specs : EditGateway(s)
           \/ (EditRoute \/ JudgeRoute) /\ UNCHANGED <<specs, status>>
           \/ UNCHANGED <<specs, status, queue, started>>
  BY DEF Next, People, Kubernetes, Reconcile, vars, cluster, controller, DriftTemplate,
         EditRoute, JudgeRoute, DriftData, DriftDelete, ForeignCreates, ForeignLeaves,
         SyncDeployment, AssignAddress, Surge, PodReady, RetireOld, PodFails, StoreRoute, WarmUp,
         ObserveConfigMap, ObserveDeployment, Plan, Preflight, Write, ReadAddresses,
         ApiFault, ClassNotFound, PlanFails

\* The actions that change the requeue timer.
LEMMA TimerActions ==
    ASSUME [Next]_vars
    PROVE  \/ PatchStatus \/ Begin \/ Restart \/ TimerFires \/ Preflight \/ ApiFault
           \/ ClassNotFound \/ PlanFails \/ timer' = timer
  BY DEF Next, People, Kubernetes, Reconcile, vars, controller, DriftTemplate, EditGateway,
         EditRoute, JudgeRoute, DriftData, DriftDelete, ForeignCreates, ForeignLeaves, Start,
         SyncDeployment, AssignAddress, Surge, PodReady, RetireOld, PodFails, StoreRoute, WarmUp,
         ObserveConfigMap, ObserveDeployment, Plan, Write, ReadAddresses

(***************************************************************************)
(* The steps that leave the reconcile alone leave the status alone, queue  *)
(* another when the Gateway is edited, and arm no timer.                   *)
(***************************************************************************)
LEMMA RecKept ==
    ASSUME StartInv, [Next]_vars, rec' = rec, ~Begin, ~PatchStatus, ~Restart
    PROVE  /\ status' = status /\ StartInv'
           /\ queue => queue'
           /\ started => started'
           /\ started' /\ ~queue' => started /\ specs' = specs
           /\ timer' # "none" => timer' = timer
<1>1. /\ timer' # "none" => timer' = timer
  <2>1. Preflight => rec.pc = "check" /\ timer' = timer
    BY DEF Preflight, Fail, Idle
  <2>2. ASSUME ApiFault PROVE timer' = timer
    <3>1. rec.pc # "idle"
      BY <2>2 DEF ApiFault
    <3>2. rec' # Idle
      BY <3>1 DEF Idle
    <3> QED
      BY <2>2, <3>2 DEF ApiFault, Fail
  <2>3. ~ClassNotFound /\ ~PlanFails
    BY DEF ClassNotFound, PlanFails, Fail, Idle
  <2> QED
    BY <2>1, <2>2, <2>3, TimerActions DEF TimerFires
<1>2. CASE Start
  BY <1>2 DEF Start, cluster, StartInv
<1>3. CASE TimerFires
  BY <1>3 DEF TimerFires, cluster, StartInv
<1>4. CASE \E s \in Specs : EditGateway(s)
  <2>1. /\ status' = status /\ started' = started /\ timer' = timer
        /\ queue' = (queue \/ started)
    BY <1>4 DEF EditGateway
  <2>2. queue' <=> queue \/ started
    BY <2>1
  <2> QED
    BY <2>1, <2>2 DEF StartInv
<1>5. CASE (EditRoute \/ JudgeRoute) /\ UNCHANGED <<specs, status>>
  <2>1. /\ status' = status /\ started' = started /\ timer' = timer /\ specs' = specs
        /\ queue' = (queue \/ started)
    BY <1>5 DEF EditRoute, JudgeRoute
  <2>2. queue' <=> queue \/ started
    BY <2>1
  <2> QED
    BY <2>1, <2>2 DEF StartInv
<1>6. CASE UNCHANGED <<specs, status, queue, started>>
  BY <1>1, <1>6 DEF StartInv
<1> QED
  BY <1>1, <1>2, <1>3, <1>4, <1>5, <1>6, QueueActions

\* Only the patch changes the Gateway's status.
LEMMA StatusActions ==
    ASSUME [Next]_vars, ~PatchStatus
    PROVE  status' = status
  BY QueueActions DEF Begin, Restart, Start, TimerFires, EditGateway, cluster

\* Only the beginning of a reconcile takes a copy, and no other step follows an idle one.
LEMMA CopyActions ==
    ASSUME [Next]_vars, ~Begin
    PROVE  copy' = copy /\ (rec.pc = "idle" => rec'.pc = "idle")
<1>1. copy' = copy
  BY DEF Next, People, Kubernetes, Reconcile, vars, controller, EditGateway, DriftTemplate, EditRoute,
         DriftData, DriftDelete, ForeignCreates, ForeignLeaves, SyncDeployment, AssignAddress,
         Surge, PodReady, RetireOld, PodFails, JudgeRoute, StoreRoute, Start, WarmUp, TimerFires,
         ObserveConfigMap, ObserveDeployment, Plan, Preflight, Write, ReadAddresses, PatchStatus,
         ApiFault, ClassNotFound, PlanFails, Restart
<1>2. ASSUME rec.pc = "idle" PROVE Restart \/ rec' = rec
  BY <1>2, RecActions DEF ObserveConfigMap, ObserveDeployment, Plan, Preflight, Write,
         ReadAddresses, PatchStatus, ApiFault, ClassNotFound, PlanFails
<1>3. Restart => rec'.pc = "idle"
  BY DEF Restart, Idle
<1> QED
  BY <1>1, <1>2, <1>3

\* The copy stays true: the status is written as the reconcile's last step.
LEMMA CopyNext ==
    ASSUME CopyInv, [Next]_vars
    PROVE  CopyInv'
<1>1. CASE Begin
  BY <1>1 DEF Begin, CopyInv, cluster
<1>2. CASE PatchStatus
  BY <1>2 DEF PatchStatus, CopyInv, Idle
<1>3. CASE ~Begin /\ ~PatchStatus
  BY <1>3, StatusActions, CopyActions DEF CopyInv
<1> QED
  BY <1>1, <1>2, <1>3

(***************************************************************************)
(* What the status says after the patch, whether it was written or found   *)
(* to be the same.                                                         *)
(***************************************************************************)
LEMMA PatchStatusEffect ==
    ASSUME StatusType, CopyInv, PatchStatus
    PROVE  /\ rec.pc = "patch" /\ rec' = Idle /\ specs' = specs /\ started' = started
           /\ StatusType'
           /\ StatusGen' = rec.outcome.gen
           /\ status'.conditions[2].status <=> rec.outcome.programmed
           /\ queue => queue'
           /\ timer' = IF rec.outcome.programmed THEN "resync" ELSE "retry"
<1> DEFINE conds == build_gateway_conditions(rec.outcome)
           new == [addresses |-> rec.addresses, conditions |-> conds, listeners |-> <<>>]
           same == status # Absent /\ gateway_status_semantically_equal(status, new)
<1>0. rec.pc = "patch" /\ copy = status
  BY DEF PatchStatus, CopyInv
<1>1. /\ rec.pc = "patch" /\ rec' = Idle /\ specs' = specs /\ started' = started
      /\ status' = IF same THEN status ELSE new
      /\ queue' = (queue \/ ~same)
      /\ timer' = IF rec.outcome.programmed THEN "resync" ELSE "retry"
  BY <1>0 DEF PatchStatus, NeedsPatch, NewStatus
<1>2. /\ Len(conds) = 2 /\ DOMAIN conds = 1..2
      /\ conds[2].gen = rec.outcome.gen
      /\ conds[2].status = rec.outcome.programmed
  BY DEF build_gateway_conditions, ProgrammedCondition, Condition
<1> HIDE DEF conds
<1>3. CASE same
  <2>1. Timeless(status.conditions[2]) = Timeless(conds[2])
    BY <1>3 DEF gateway_status_semantically_equal, conditions_semantically_equal, StatusType
  <2>2. /\ status.conditions[2].gen = conds[2].gen
        /\ status.conditions[2].status = conds[2].status
    BY <2>1 DEF Timeless
  <2>3. status' = status
    BY <1>1, <1>3
  <2> HIDE DEF same
  <2> QED
    BY <1>1, <1>2, <2>2, <2>3 DEF StatusType, StatusGen
<1>4. CASE ~same
  <2> HIDE DEF same
  <2>1. status'.conditions = conds
    BY <1>1, <1>4
  <2> QED
    BY <1>1, <1>2, <2>1 DEF StatusType, StatusGen
<1> QED
  BY <1>3, <1>4

\* One step keeps reported generations within those there have been, newest last.
LEMMA GenNext ==
    ASSUME OwnedType, SpecsType, RecType, StatusType, StartInv, GenInv, CopyInv, [Next]_vars
    PROVE  StatusType' /\ StartInv' /\ GenInv'
<1>1. /\ Generation \in Nat /\ Generation' \in Nat /\ 1 <= Generation /\ Generation <= Generation'
      /\ specs' = specs => Generation' = Generation
  BY SpecsNext DEF SpecsType, SpecsGrow, Generation
<1>2. rec.pc # "idle" => RecGen \in 1..Generation
  BY DEF RecType, RecGen, Planning, Applying, Reporting
<1>3. CASE Begin
  <2>1. /\ rec'.pc = "cm" /\ rec'.gen = Generation /\ ~queue' /\ timer' = "none" /\ queue
        /\ UNCHANGED <<specs, status, started>>
    BY <1>3 DEF Begin, cluster
  <2>2. RecGen' = Generation /\ StatusGen' = StatusGen /\ Generation' = Generation
    BY <2>1 DEF RecGen, Reporting, StatusGen, Generation
  <2>3. StatusType' /\ StartInv'
    BY <2>1 DEF StatusType, StartInv
  <2> QED
    BY <1>1, <2>1, <2>2, <2>3 DEF GenInv
<1>4. CASE Continues
  <2>1. StatusType' /\ StartInv'
    BY <1>4 DEF Continues, StatusType, StartInv
  <2>2. StatusGen' = StatusGen /\ Generation' = Generation
    BY <1>4 DEF Continues, StatusGen, Generation
  <2> QED
    BY <1>4, <2>1, <2>2 DEF Continues, GenInv
<1>5. CASE PatchStatus
  <2>1. /\ rec.pc = "patch" /\ rec'.pc = "idle" /\ specs' = specs /\ started' = started
        /\ StatusType' /\ StatusGen' = rec.outcome.gen
    BY <1>5, PatchStatusEffect DEF Idle
  <2>2. started
    BY <2>1 DEF StartInv
  <2>3. rec.outcome.gen \in 1..Generation /\ Generation' = Generation
    BY <1>1, <2>1 DEF RecType, Reporting
  <2> QED
    BY <2>1, <2>2, <2>3 DEF StartInv, GenInv
<1>6. CASE Restart
  <2>1. rec'.pc = "idle" /\ ~queue' /\ timer' = "none" /\ UNCHANGED <<specs, status>>
    BY <1>6 DEF Restart, Idle, cluster
  <2>2. StatusType' /\ StartInv'
    BY <2>1 DEF StatusType, StartInv
  <2>3. StatusGen' = StatusGen /\ Generation' = Generation
    BY <2>1 DEF StatusGen, Generation
  <2> QED
    BY <2>1, <2>2, <2>3 DEF GenInv
<1>7. CASE rec' = Idle /\ rec.pc # "idle" /\ UNCHANGED <<specs, status, queue, started>>
  <2>1. rec'.pc = "idle" /\ started'
    BY <1>7 DEF StartInv, Idle
  <2>2. StatusType' /\ StartInv'
    BY <1>7, <2>1 DEF StatusType, StartInv
  <2>3. StatusGen' = StatusGen /\ Generation' = Generation
    BY <1>7 DEF StatusGen, Generation
  <2> QED
    BY <1>7, <2>1, <2>2, <2>3 DEF GenInv
<1>8. CASE rec' = rec /\ ~Begin /\ ~PatchStatus /\ ~Restart
  <2>1. /\ status' = status /\ StartInv' /\ (queue => queue') /\ (started => started')
        /\ started' /\ ~queue' => specs' = specs
    BY <1>8, RecKept
  <2>2. StatusGen' = StatusGen /\ RecGen' = RecGen
    BY <1>8, <2>1 DEF StatusGen, RecGen
  <2>3. rec.pc # "idle" => started
    BY DEF StartInv
  <2>4. GenInv'
    BY <1>1, <1>2, <1>8, <2>1, <2>2, <2>3 DEF GenInv
  <2> QED
    BY <2>1, <2>4 DEF StatusType
<1> QED
  BY <1>3, <1>4, <1>5, <1>6, <1>7, <1>8, RecMoves

(***************************************************************************)
(* The Deployment controller counts only pods that are there, and they go  *)
(* only with the Deployment.                                               *)
(***************************************************************************)
LEMMA CountedNext ==
    ASSUME OwnedType, SpecsType, PodsType, RecType, CountedInv, [Next]_vars
    PROVE  CountedInv'
<1> DEFINE Kept == owned'.dep = owned.dep
<1>1. CASE RetireOld
  <2>1. /\ owned' = owned /\ pods' = New(owned.dep) /\ New(owned.dep) # {}
    BY <1>1 DEF RetireOld
  <2> QED
    BY <2>1 DEF CountedInv, New, HasPod
<1>2. CASE \E k \in Kinds : DriftDelete(k) /\ k = "dep"
  BY <1>2, DeleteEffect DEF CountedInv
<1>3. CASE PodsKept
  <2>1. ASSUME Kept PROVE CountedInv'
    BY <1>3, <2>1 DEF CountedInv, PodsKept, HasPod
  <2>2. CASE Write
    <3>1. CASE rec.at = 4
      <4>1. owned'.dep = Applied("dep") /\ rec.pc = "write"
        BY <2>2, <3>1, WriteEffect DEF Write
      <4> HIDE DEF Kept
      <4>2. owned'.dep.seen => /\ Mine(owned.dep) /\ owned.dep.seen
                               /\ owned.dep.shape = owned'.dep.shape
                               /\ owned'.dep.updated = owned.dep.updated
        BY <4>1, AppliedMade
      <4> QED
        BY <1>3, <4>2 DEF CountedInv, PodsKept, HasPod
    <3>2. CASE rec.at # 4
      BY <2>1, <2>2, <3>2, WriteEffect
    <3> QED
      BY <3>1, <3>2
  <2>3. CASE SyncDeployment
    <3>1. /\ Mine(owned.dep) /\ Stays(owned.dep, owned'.dep)
          /\ owned'.dep.updated => HasPod(owned.dep.shape)
      BY <2>3, SyncEffect DEF SyncDeployment, ObjectsStay
    <3> QED
      BY <1>3, <3>1 DEF CountedInv, PodsKept, HasPod, Stays
  <2>4. CASE AssignAddress \/ DriftData
    BY <2>1, <2>4, AddressEffect, DataEffect
  <2>5. CASE \E s \in Specs : DriftTemplate(s)
    BY <2>5, TemplateEffect DEF CountedInv
  <2>6. CASE \E k \in Kinds : DriftDelete(k) \/ ForeignCreates(k) \/ ForeignLeaves(k)
    <3>1. Mine(owned'.dep) => owned'.dep = owned.dep
      BY <2>6, DeleteEffect, ForeignEffect
    <3> QED
      BY <1>3, <3>1 DEF CountedInv, PodsKept, HasPod
  <2>7. CASE owned' = owned
    BY <2>1, <2>7
  <2> QED
    BY <2>2, <2>3, <2>4, <2>5, <2>6, <2>7, OwnedActions
<1> QED
  BY <1>1, <1>2, <1>3, PodsNext DEF PodsStay

\* The invariant without hypotheses holds at the start.
LEMMA BaseInit == Init => BaseInv
<1> SUFFICES ASSUME Init PROVE BaseInv
  OBVIOUS
<1>1. /\ owned = [k \in Kinds |-> Absent] /\ owned.svc = Absent /\ owned.dep = Absent
      /\ status = Absent /\ pods = {} /\ rec.pc = "idle" /\ ~queue /\ timer = "none"
  BY DEF Init, Idle, Kinds
<1>2. OwnedType
  BY <1>1 DEF OwnedType
<1>3. SpecsType
  BY DEF Init, SpecsType
<1>4. PodsType /\ StatusType /\ StartInv /\ GenInv /\ CopyInv
  BY <1>1 DEF PodsType, StatusType, StartInv, GenInv, CopyInv
<1>5. RecType
  BY <1>1 DEF RecType, Planning, Applying, Reporting
<1>6. CountedInv
  BY <1>1, MineIsMade DEF CountedInv
<1> QED
  BY <1>2, <1>3, <1>4, <1>5, <1>6 DEF BaseInv

\* Every step keeps the invariant without hypotheses.
LEMMA BaseNext == BaseInv /\ [Next]_vars => BaseInv'
  BY SpecsNext, OwnedNext, PodsNext, RecNext, GenNext, CopyNext, CountedNext DEF BaseInv

----------------------------------------------------------------------------
(* What was observed of the Deployment.                                    *)

Untampered == "template" \notin Drifts /\ "delete" \notin Drifts

\* At the start nothing has been observed.
LEMMA ObservedInit == Init => ObservedInv
<1> SUFFICES ASSUME Init PROVE ObservedInv
  OBVIOUS
<1>1. owned.dep = Absent /\ rec.pc = "idle"
  BY DEF Init, Idle, Kinds
<1> QED
  BY <1>1, MineIsMade DEF ObservedInv, Applying, Reporting

\* Every step keeps what the reconcile observed true, if nobody tampers with the Deployment.
LEMMA ObservedNext ==
    ASSUME Untampered, BaseInv, ObservedInv, [Next]_vars
    PROVE  ObservedInv'
<1> USE DEF Applying, Reporting
<1>1. OwnedType /\ SpecsType /\ PodsType /\ RecType
  BY DEF BaseInv
<1>2. ASSUME ~Write
      PROVE  /\ Mine(owned.dep) <=> Mine(owned'.dep)
             /\ Mine(owned.dep) => /\ owned'.dep.shape = owned.dep.shape
                                   /\ owned'.dep.revision = owned.dep.revision
    BY <1>1, <1>2, OwnedNext DEF ObjectsStay, Stays, Untampered
<1>3. CASE Write
  <2>1. rec.pc = "write"
    BY <1>3 DEF Write
  <2>2. CASE rec.at = 4
    <3>1. owned'.dep = Applied("dep") /\ rec' = Outcome
      BY <1>1, <1>3, <2>2, WriteEffect
    <3>2. owned'.dep.revision = owned'.dep.shape
      BY <1>1, <2>1, <3>1, AppliedMade
    <3>3. rec'.pc = "address" /\ (rec'.outcome.programmed => ~rec'.rolls)
      BY <2>1, <2>2, <3>1, OutcomeReport DEF ObservedInv
    <3> QED
      BY <3>2, <3>3 DEF ObservedInv
  <2>3. CASE rec.at # 4
    <3>1. /\ owned'.dep = owned.dep
          /\ rec'.pc = "check" /\ rec'.specChanged = rec.specChanged /\ rec'.want = rec.want
      BY <1>1, <1>3, <2>3, WriteEffect
    <3> QED
      BY <2>1, <3>1 DEF ObservedInv
  <2> QED
    BY <2>2, <2>3
<1>4. CASE rec' = rec /\ ~Write
  BY <1>2, <1>4 DEF ObservedInv
<1>5. ASSUME ~Write, rec'.pc \in {"idle", "cm", "dep"} PROVE ObservedInv'
  BY <1>2, <1>5 DEF ObservedInv
<1>6. CASE (Begin \/ ObserveConfigMap \/ PatchStatus \/ Restart \/ ClassNotFound \/ PlanFails) /\ ~Write
  <2>1. rec'.pc \in {"idle", "cm", "dep"}
    BY <1>6 DEF Begin, ObserveConfigMap, PatchStatus, Restart, ClassNotFound, PlanFails, Fail, Idle
  <2> QED
    BY <1>5, <1>6, <2>1
<1>7. CASE ObserveDeployment
  <2>1. rec.pc = "dep" /\ rec'.pc = "plan" /\ rec'.shape = Revision(owned.dep)
    BY <1>7 DEF ObserveDeployment
  <2>2. ~Write
    BY <2>1 DEF Write
  <2> QED
    BY <1>2, <2>1, <2>2 DEF ObservedInv, Revision
<1>8. CASE Plan
  <2>1. rec.pc = "plan" /\ ~Write
    BY <1>8 DEF Plan, Write
  <2>2. CASE ready
    <3>1. /\ rec'.pc = "check" /\ rec'.want[1] = rec.spec
          /\ rec'.specChanged = (rec.shape # rec.spec.shape)
      BY <1>8, <2>2 DEF Plan, Config
    <3> QED
      BY <1>2, <2>1, <3>1 DEF ObservedInv
  <2>3. CASE ~ready
    <3>1. rec' = Report([is |-> "StoreNotReady", converged |-> rec.converged], FALSE)
      BY <1>8, <2>3 DEF Plan
    <3> QED
      BY <1>2, <2>1, <3>1, WarmUpReport DEF ObservedInv
  <2> QED
    BY <2>2, <2>3
<1>9. CASE Preflight
  <2>1. /\ rec.pc = "check" /\ ~Write
        /\ \/ rec'.pc = "idle"
           \/ /\ rec'.pc = "write" /\ rec'.at = rec.at /\ rec'.want = rec.want
              /\ rec'.specChanged = rec.specChanged
              /\ owned[Order[rec.at]] # Foreign
              /\ rec'.existed => owned[Order[rec.at]] # Absent
    BY <1>9, PreflightEffect DEF Write, Idle
  <2>2. CASE rec'.pc = "idle"
    BY <1>5, <2>1, <2>2
  <2>3. CASE rec'.pc = "write"
    <3>1. rec'.at = 4 /\ rec'.existed => owned.dep # Foreign /\ owned.dep # Absent
      BY <2>1, <2>3 DEF Order
    <3>2. rec'.at = 4 /\ rec'.existed => Mine(owned.dep)
      BY <1>1, <3>1, MineIsMade DEF OwnedType
    <3> QED
      BY <1>2, <2>1, <2>3, <3>2 DEF ObservedInv
  <2> QED
    BY <2>1, <2>2, <2>3
<1>10. CASE ReadAddresses
  <2>1. rec.pc = "address" /\ ~Write /\ rec' = Patch(ServiceObject(owned.svc))
    BY <1>10 DEF ReadAddresses, Write
  <2> QED
    BY <1>2, <2>1, PatchEffect DEF ObservedInv
<1>11. CASE ApiFault /\ ~Write
  <2>1. CASE rec.pc \in {"cm", "dep"}
    <3>1. rec' = Report([is |-> "ObservationFault"], FALSE)
      BY <1>11, <2>1 DEF ApiFault
    <3> QED
      BY <1>2, <1>11, <3>1, FaultReport DEF ObservedInv
  <2>2. CASE rec.pc = "address"
    <3>1. rec' = Patch(Absent)
      BY <1>11, <2>2 DEF ApiFault
    <3> QED
      BY <1>2, <1>11, <2>2, <3>1, PatchEffect DEF ObservedInv
  <2>3. CASE rec.pc \notin {"cm", "dep", "address"}
    <3>1. rec' = Idle
      BY <1>11, <2>3 DEF ApiFault, Fail
    <3> QED
      BY <1>5, <1>11, <3>1 DEF Idle
  <2> QED
    BY <2>1, <2>2, <2>3
<1> QED
  BY <1>3, <1>4, <1>6, <1>7, <1>8, <1>9, <1>10, <1>11, RecActions

(***************************************************************************)
(* As long as nobody edits or deletes the Deployment by hand, a reconcile  *)
(* that has just sent it into a new rollout does not report it as          *)
(* programmed from what it saw before (gateway.rs:646-653), whatever else  *)
(* happens between its calls: edits of the Gateway, a stranger's objects,  *)
(* failing calls and pods, restarts.                                       *)
(***************************************************************************)
THEOREM NoLieInOneCycle ==
    ASSUME Untampered
    PROVE  Spec => []NoOneCycleLie
<1>1. Init => BaseInv /\ ObservedInv
  BY BaseInit, ObservedInit
<1>2. BaseInv /\ ObservedInv /\ [Next]_vars => (BaseInv /\ ObservedInv)'
  BY BaseNext, ObservedNext
<1>3. ObservedInv => NoOneCycleLie
  BY DEF ObservedInv, NoOneCycleLie, Reporting
<1> QED
  BY <1>1, <1>2, <1>3, PTL DEF Spec

----------------------------------------------------------------------------
(* What is reported as programmed has been built.                          *)

(***************************************************************************)
(* People at most change the ConfigMap's data, and the controller runs on. *)
(***************************************************************************)
Undisturbed == Drifts \subseteq {"data"} /\ MaxRestarts = 0

(***************************************************************************)
(* A rollout looks converged only if its controller has seen the template  *)
(* and counted a pod of it.                                                *)
(***************************************************************************)
LEMMA ConvergedIsCounted ==
    /\ ~Converged(Absent)
    /\ \A d \in MadeDeployment : Converged(d) => d.seen /\ d.updated
<1>1. ~Converged(Absent)
  BY DEF Converged, NoDeployment, is_rollout_converged
<1>2. ASSUME NEW d \in MadeDeployment, Converged(d)
      PROVE  d.seen /\ d.updated
  <2> DEFINE obs == observe_deployment(DeploymentObject(d))
  <2>1. is_rollout_converged(obs)
    BY <1>2, MineIsMade DEF Converged
  <2>2. d.seen \in BOOLEAN /\ d.updated \in BOOLEAN
    BY DEF MadeDeployment
  <2>3. /\ obs.observed = (IF d.seen THEN 2 ELSE 1)
        /\ obs.generation = 2
        /\ obs.updated = Count(IF d.updated THEN 1 ELSE 0)
        /\ obs.desired = Or(Count(1), 1)
    BY DEF observe_deployment, DeploymentObject
  <2> HIDE DEF obs
  <2>4. /\ Absent \notin {obs.observed, obs.generation, obs.updated, obs.available, obs.desired, obs.ready}
        /\ obs.observed >= obs.generation
        /\ obs.updated >= obs.desired
    BY <2>1 DEF is_rollout_converged
  <2>5. obs.desired = 1
    BY <2>3 DEF Or, Count
  <2>6. ~d.updated => obs.updated = 0
    BY <2>3, <2>4 DEF Count
  <2> QED
    BY <2>2, <2>3, <2>4, <2>5, <2>6
<1> QED
  BY <1>1, <1>2

\* With no restarts allowed none happens.
LEMMA RestartNext ==
    ASSUME NoRestart, [Next]_vars
    PROVE  NoRestart' /\ ~Restart
<1>1. ~Restart
  <2>1. ~(left["restarts"] > 0)
    BY DEF NoRestart
  <2> QED
    BY <2>1 DEF Restart, Spend
<1>2. ASSUME NEW what, Spend(what) PROVE NoRestart'
  <2>1. /\ left[what] > 0
        /\ left' = [left EXCEPT ![what] = left[what] - 1, !["all"] = @ - 1]
    BY <1>2 DEF Spend
  <2>2. what # "restarts"
    BY <2>1 DEF NoRestart
  <2>3. DOMAIN left' = DOMAIN left /\ left'["restarts"] = left["restarts"]
    BY <2>1, <2>2 DEF NoRestart
  <2> QED
    BY <2>3 DEF NoRestart
<1>3. CASE left' = left
  BY <1>1, <1>3 DEF NoRestart
<1> QED
  BY <1>1, <1>2, <1>3
     DEF Next, People, Kubernetes, Reconcile, vars, EditGateway, DriftTemplate, EditRoute,
         DriftData, DriftDelete, ForeignCreates, ForeignLeaves, SyncDeployment, AssignAddress,
         Surge, PodReady, RetireOld, PodFails, JudgeRoute, StoreRoute, Start, WarmUp, TimerFires,
         Begin, ObserveConfigMap, ObserveDeployment, Plan, Preflight, Write, ReadAddresses,
         PatchStatus, ApiFault, ClassNotFound, PlanFails

\* Only a restart makes a ready store unready.
LEMMA ReadyActions ==
    ASSUME [Next]_vars, ~Restart
    PROVE  ready => ready'
  BY DEF Next, People, Kubernetes, Reconcile, vars, controller, EditGateway, DriftTemplate, EditRoute,
         DriftData, DriftDelete, ForeignCreates, ForeignLeaves, SyncDeployment, AssignAddress,
         Surge, PodReady, RetireOld, PodFails, JudgeRoute, StoreRoute, Start, WarmUp, TimerFires,
         Begin, ObserveConfigMap, ObserveDeployment, Plan, Preflight, Write, ReadAddresses,
         PatchStatus, ApiFault, ClassNotFound, PlanFails

\* At the start nothing is reported.
LEMMA BuiltInit == Init => BuiltInv
<1> SUFFICES ASSUME Init PROVE BuiltInv
  OBVIOUS
<1>1. /\ owned.dep = Absent /\ owned.svc = Absent /\ rec.pc = "idle"
      /\ status = Absent /\ started = FALSE
  BY DEF Init, Idle, Kinds
<1>2. BuiltSoFar
  BY <1>1, AbsentAssumption DEF BuiltSoFar, Applying, Reporting
<1> QED
  BY <1>1, <1>2 DEF BuiltInv, ProgrammedFrom, ProgrammedIsBuilt, Programmed, RestsOnlyWhenBuilt

(***************************************************************************)
(* The built pods and objects outlast every step other than a write.       *)
(***************************************************************************)
LEMMA BuiltStays ==
    ASSUME Undisturbed, BaseInv, BuiltSoFar, [Next]_vars
    PROVE  /\ PodsStay
           /\ Mine(owned.dep) /\ HasPod(owned.dep.shape) => \E p \in pods' : p.shape = owned.dep.shape
           /\ ~Write => /\ Stays(owned.dep, owned'.dep) /\ Stays(owned.svc, owned'.svc)
                        /\ owned.dep = Absent => owned'.dep = Absent
                        /\ owned'.dep # Foreign /\ owned'.svc # Foreign
<1>1. "delete" \notin Drifts /\ "foreign" \notin Drifts /\ "template" \notin Drifts
  BY DEF Undisturbed
<1>2. OwnedType /\ SpecsType /\ PodsType /\ RecType /\ owned.dep # Foreign /\ owned.svc # Foreign
  BY DEF BaseInv, BuiltSoFar
<1>3. PodsStay
  BY <1>1, <1>2, PodsNext DEF DriftDelete
<1>4. ~Write => ObjectsStay
  BY <1>1, <1>2, OwnedNext
<1> QED
  BY <1>1, <1>2, <1>3, <1>4 DEF PodsStay, PodsKept, ObjectsStay

\* Every step keeps what the reconcile under way has built so far.
LEMMA BuiltSoFarNext ==
    ASSUME Undisturbed, BaseInv, ObservedInv, BuiltSoFar, [Next]_vars, ~Restart
    PROVE  BuiltSoFar'
<1> USE DEF Applying, Reporting
<1>1. OwnedType /\ SpecsType /\ PodsType /\ RecType /\ CountedInv
  BY DEF BaseInv
<1>2. /\ ready => ready'
      /\ Mine(owned.dep) /\ HasPod(owned.dep.shape) => \E p \in pods' : p.shape = owned.dep.shape
      /\ \A i \in 1..Generation : specs'[i] = specs[i]
  BY <1>1, BuiltStays, ReadyActions, SpecsNext DEF SpecsGrow, Generation
<1>3. ASSUME ~Write
      PROVE  /\ Mine(owned.dep) => Mine(owned'.dep) /\ owned'.dep.shape = owned.dep.shape
             /\ Mine(owned.svc) => Mine(owned'.svc) /\ owned'.svc.shape = owned.svc.shape
             /\ Mine(owned.dep) /\ HasPod(owned.dep.shape) => HasPod(owned.dep.shape)'
             /\ owned'.dep # Foreign /\ owned'.svc # Foreign
             /\ ~ready' => owned'.dep = Absent
  BY <1>2, <1>3, BuiltStays DEF Stays, HasPod, BuiltSoFar
<1>4. CASE Write
  <2>1. rec.pc = "write" /\ ready /\ rec.want[1] = specs[rec.gen] /\ rec.gen \in 1..Generation
    BY <1>1, <1>4 DEF Write, BuiltSoFar, RecType
  <2>2. CASE rec.at = 4
    <3>1. owned'.dep = Applied("dep") /\ owned'.svc = owned.svc /\ rec' = Outcome
      BY <1>1, <1>4, <2>2, WriteEffect
    <3>2. /\ Mine(owned'.dep) /\ owned'.dep.shape = rec.want[1].shape /\ owned'.dep # Foreign
      BY <1>1, <2>1, <3>1, AppliedMade, MineIsMade
    <3>3. /\ rec'.pc = "address" /\ rec'.outcome.gen = rec.gen
          /\ rec'.outcome.programmed => rec.converged /\ rec.existed /\ ~rec.specChanged
      BY <3>1, OutcomeReport
    <3>4. Mine(owned.svc) /\ owned.svc.shape = rec.want[1].shape /\ owned.svc # Foreign
      BY <2>1, <2>2 DEF BuiltSoFar
    <3>5. ASSUME rec'.outcome.programmed
          PROVE  HasPod(owned.dep.shape)'
      <4>1. Mine(owned.dep) /\ HasPod(owned.dep.shape) /\ owned.dep.shape = rec.want[1].shape
        BY <2>1, <2>2, <3>3, <3>5 DEF BuiltSoFar, ObservedInv
      <4> QED
        BY <1>2, <3>2, <4>1 DEF HasPod
    <3>6. specs'[rec.gen] = specs[rec.gen] /\ ready'
      BY <1>2, <2>1
    <3> QED
      BY <2>1, <3>1, <3>2, <3>3, <3>4, <3>5, <3>6 DEF BuiltSoFar
  <2>3. CASE rec.at # 4
    <3>1. /\ owned'.dep = owned.dep
          /\ owned'.svc = IF rec.at = 3 THEN Applied("svc") ELSE owned.svc
          /\ rec'.pc = "check" /\ rec'.at = rec.at + 1 /\ rec'.want = rec.want
          /\ rec'.converged = rec.converged
      BY <1>1, <1>4, <2>3, WriteEffect
    <3>2. /\ owned'.svc # Foreign
          /\ rec'.at = 4 => Mine(owned'.svc) /\ owned'.svc.shape = rec.want[1].shape
      <4>1. rec.at \in 1..4
        BY <1>1, <2>1 DEF RecType
      <4>2. /\ Applied("svc") \in MadeService /\ Applied("svc").shape = rec.want[1].shape
        BY <1>1, <2>1, AppliedMade
      <4> QED
        BY <2>3, <3>1, <4>1, <4>2, MineIsMade DEF BuiltSoFar
    <3>3. rec.converged => Mine(owned.dep) /\ HasPod(owned.dep.shape)'
      BY <1>2, <2>1, <3>1 DEF BuiltSoFar, HasPod
    <3> QED
      BY <1>2, <2>1, <3>1, <3>2, <3>3 DEF BuiltSoFar
  <2> QED
    BY <2>2, <2>3
<1>5. CASE rec' = rec /\ ~Write
  <2>1. rec.pc \in Reporting => specs'[rec.outcome.gen] = specs[rec.outcome.gen]
    BY <1>1, <1>2 DEF RecType
  <2> QED
    BY <1>2, <1>3, <1>5, <2>1 DEF BuiltSoFar
<1>6. ASSUME ~Write, rec'.pc \in {"idle", "cm", "dep"} PROVE BuiltSoFar'
  BY <1>3, <1>6 DEF BuiltSoFar
<1>7. CASE (Begin \/ ObserveConfigMap \/ PatchStatus \/ ClassNotFound \/ PlanFails) /\ ~Write
  <2>1. rec'.pc \in {"idle", "cm", "dep"}
    BY <1>7 DEF Begin, ObserveConfigMap, PatchStatus, ClassNotFound, PlanFails, Fail, Idle
  <2> QED
    BY <1>6, <1>7, <2>1
<1>8. CASE ObserveDeployment
  <2>1. rec.pc = "dep" /\ ~Write /\ rec'.pc = "plan" /\ rec'.converged = Converged(owned.dep)
    BY <1>8 DEF ObserveDeployment, BuiltSoFar, Write
  <2>2. Converged(owned.dep) => Mine(owned.dep) /\ HasPod(owned.dep.shape)
    BY <1>1, ConvergedIsCounted, MineIsMade DEF OwnedType, CountedInv, BuiltSoFar
  <2>3. rec'.converged => Mine(owned'.dep) /\ HasPod(owned.dep.shape)'
    BY <1>3, <2>1, <2>2 DEF HasPod
  <2> QED
    BY <1>3, <2>1, <2>3 DEF BuiltSoFar
<1>9. CASE Plan
  <2>1. rec.pc = "plan" /\ ~Write
    BY <1>9 DEF Plan, Write
  <2>2. CASE ready
    <3>1. rec'.pc = "check" /\ rec'.at = 1 /\ rec'.converged = rec.converged
      BY <1>9, <2>2 DEF Plan
    <3>2. rec.converged => Mine(owned'.dep) /\ HasPod(owned.dep.shape)'
      BY <1>3, <2>1 DEF BuiltSoFar, HasPod
    <3> QED
      BY <1>2, <1>3, <2>1, <2>2, <3>1, <3>2 DEF BuiltSoFar
  <2>3. CASE ~ready
    <3>1. rec' = Report([is |-> "StoreNotReady", converged |-> rec.converged], FALSE)
      BY <1>9, <2>3 DEF Plan
    <3>2. ~rec.converged
      BY <2>1, <2>3, MineIsMade DEF BuiltSoFar
    <3>3. rec'.pc = "address" /\ ~rec'.outcome.programmed
      BY <3>1, <3>2, WarmUpReport
    <3> QED
      BY <1>3, <2>1, <3>3 DEF BuiltSoFar
  <2> QED
    BY <2>2, <2>3
<1>10. CASE Preflight
  <2>1. /\ rec.pc = "check" /\ ~Write
        /\ \/ rec'.pc = "idle"
           \/ /\ rec'.pc = "write" /\ rec'.at = rec.at /\ rec'.want = rec.want
              /\ rec'.converged = rec.converged
    BY <1>10, PreflightEffect DEF Write, Idle
  <2>2. CASE rec'.pc = "idle"
    BY <1>6, <2>1, <2>2
  <2>3. CASE rec'.pc = "write"
    <3>1. rec.converged => Mine(owned'.dep) /\ HasPod(owned.dep.shape)'
      BY <1>3, <2>1 DEF BuiltSoFar, HasPod
    <3>2. ready'
      BY <1>2, <2>1 DEF BuiltSoFar
    <3> QED
      BY <1>3, <2>1, <2>3, <3>1, <3>2 DEF BuiltSoFar
  <2> QED
    BY <2>1, <2>2, <2>3
<1>11. ASSUME NEW service, rec.pc = "address", ~Write, rec' = Patch(service) PROVE BuiltSoFar'
  <2>1. rec'.pc = "patch" /\ rec'.outcome = rec.outcome
    BY <1>11, PatchEffect
  <2>2. specs'[rec.outcome.gen] = specs[rec.outcome.gen]
    BY <1>1, <1>2, <1>11 DEF RecType
  <2> QED
    BY <1>3, <1>11, <2>1, <2>2 DEF BuiltSoFar
<1>12. CASE ReadAddresses
  BY <1>11, <1>12 DEF ReadAddresses, Write
<1>13. CASE ApiFault /\ ~Write
  <2>1. CASE rec.pc \in {"cm", "dep"}
    <3>1. rec' = Report([is |-> "ObservationFault"], FALSE)
      BY <1>13, <2>1 DEF ApiFault
    <3> QED
      BY <1>3, <1>13, <3>1, FaultReport DEF BuiltSoFar
  <2>2. CASE rec.pc = "address"
    BY <1>11, <1>13, <2>2 DEF ApiFault
  <2>3. CASE rec.pc \notin {"cm", "dep", "address"}
    <3>1. rec' = Idle
      BY <1>13, <2>3 DEF ApiFault, Fail
    <3> QED
      BY <1>6, <1>13, <3>1 DEF Idle
  <2> QED
    BY <2>1, <2>2, <2>3
<1> QED
  BY <1>4, <1>5, <1>7, <1>8, <1>9, <1>10, <1>12, <1>13, RecActions

(***************************************************************************)
(* The status that says Programmed: a later write only makes the           *)
(* Deployment that of a later generation, and its old pods go only once    *)
(* there is one of the new shape.                                          *)
(***************************************************************************)
LEMMA ProgrammedNext ==
    ASSUME Undisturbed, BaseInv, ObservedInv, BuiltInv, [Next]_vars
    PROVE  ProgrammedFrom' /\ ProgrammedIsBuilt'
<1>1. /\ OwnedType /\ SpecsType /\ PodsType /\ RecType /\ StatusType /\ GenInv /\ CopyInv
      /\ BuiltSoFar /\ ProgrammedFrom /\ ProgrammedIsBuilt
  BY DEF BaseInv, BuiltInv
<1>2. /\ Generation \in Nat /\ Generation' \in Nat /\ Generation <= Generation'
      /\ \A i \in 1..Generation : specs'[i] = specs[i]
      /\ specs' = specs => Generation' = Generation
  BY <1>1, SpecsNext DEF SpecsType, SpecsGrow, Generation
<1>3. PodsStay /\ (~Write => Stays(owned.dep, owned'.dep))
  BY <1>1, BuiltStays
<1>4. CASE PatchStatus
  <2>1. /\ rec.pc = "patch" /\ specs' = specs
        /\ StatusGen' = rec.outcome.gen
        /\ status'.conditions[2].status <=> rec.outcome.programmed
    BY <1>1, <1>4, PatchStatusEffect
  <2>2. owned' = owned /\ pods' = pods
    BY <1>4 DEF PatchStatus
  <2>3. rec.outcome.gen \in 1..Generation
    BY <1>1, <2>1 DEF RecType, Reporting
  <2>4. Programmed' => /\ Mine(owned.dep) /\ HasPod(owned.dep.shape)
                       /\ owned.dep.shape = specs[rec.outcome.gen].shape
    BY <1>1, <2>1 DEF Programmed, BuiltSoFar, Reporting
  <2>5. rec.outcome.gen \in (StatusGen..Generation)'
    BY <1>2, <2>1, <2>3
  <2>6. ProgrammedFrom'
    BY <2>1, <2>2, <2>4, <2>5 DEF ProgrammedFrom
  <2>7. ProgrammedIsBuilt'
    BY <2>1, <2>2, <2>4, <2>5 DEF ProgrammedIsBuilt, HasPod
  <2> QED
    BY <2>6, <2>7
<1>5. CASE ~PatchStatus /\ Programmed
  <2>1. status' = status
    BY <1>5, StatusActions
  <2>2. StatusGen' = StatusGen /\ StatusGen \in 1..Generation /\ Programmed'
    BY <1>1, <1>5, <2>1 DEF StatusGen, GenInv, Programmed
  <2>3. \A i \in StatusGen..Generation : i \in (StatusGen..Generation)' /\ specs'[i] = specs[i]
    BY <1>2, <2>2
  <2>4. PICK i \in StatusGen..Generation : Mine(owned.dep) /\ owned.dep.shape = specs[i].shape
    BY <1>1, <1>5 DEF ProgrammedFrom
  <2>5. ProgrammedFrom'
    <3>1. CASE Write
      <4>1. CASE rec.at = 4
        <5>1. owned'.dep = Applied("dep") /\ rec.pc = "write"
          BY <1>1, <3>1, <4>1, WriteEffect DEF Write
        <5>2. Mine(owned'.dep) /\ owned'.dep.shape = specs[rec.gen].shape
          BY <1>1, <5>1, AppliedMade, MineIsMade DEF RecType, Applying
        <5>3. rec.gen \in StatusGen..Generation
          BY <1>1, <1>2, <1>5, <2>2, <5>1
             DEF RecType, Applying, GenInv, RecGen, Reporting, Programmed
        <5>4. rec.gen \in (StatusGen..Generation)' /\ specs'[rec.gen] = specs[rec.gen]
          BY <2>3, <5>3
        <5> QED
          BY <5>2, <5>4 DEF ProgrammedFrom
      <4>2. CASE rec.at # 4
        <5>1. owned'.dep = owned.dep
          BY <1>1, <3>1, <4>2, WriteEffect
        <5> QED
          BY <2>3, <2>4, <5>1 DEF ProgrammedFrom
      <4> QED
        BY <4>1, <4>2
    <3>2. CASE ~Write
      <4>1. Mine(owned'.dep) /\ owned'.dep.shape = owned.dep.shape
        BY <1>3, <2>4, <3>2 DEF Stays
      <4> QED
        BY <2>3, <2>4, <4>1 DEF ProgrammedFrom
    <3> QED
      BY <3>1, <3>2
  <2>6. ProgrammedIsBuilt'
    <3>1. CASE PodsKept
      <4>1. PICK j \in StatusGen..Generation, p \in pods : p.shape = specs[j].shape
        BY <1>1, <1>5 DEF ProgrammedIsBuilt
      <4>2. \E q \in pods' : q.shape = specs[j].shape
        BY <3>1, <4>1 DEF PodsKept, HasPod
      <4> QED
        BY <2>3, <4>2 DEF ProgrammedIsBuilt
    <3>2. CASE \E p \in pods' : p.shape = owned.dep.shape
      BY <2>3, <2>4, <3>2 DEF ProgrammedIsBuilt
    <3> QED
      BY <1>3, <3>1, <3>2 DEF PodsStay
  <2> QED
    BY <2>5, <2>6
<1>6. CASE ~PatchStatus /\ ~Programmed
  <2>1. ~Programmed'
    BY <1>6, StatusActions DEF Programmed
  <2> QED
    BY <2>1 DEF ProgrammedFrom, ProgrammedIsBuilt
<1> QED
  BY <1>4, <1>5, <1>6

(***************************************************************************)
(* The controller rests once it has patched a status about the latest      *)
(* generation; nothing but its own writes changes what it then left.       *)
(***************************************************************************)
LEMMA RestsNext ==
    ASSUME Undisturbed, BaseInv, BuiltInv, [Next]_vars, ~Restart
    PROVE  RestsOnlyWhenBuilt'
<1>1. /\ OwnedType /\ SpecsType /\ RecType /\ StatusType /\ StartInv /\ GenInv /\ CopyInv
      /\ BuiltSoFar /\ RestsOnlyWhenBuilt
  BY DEF BaseInv, BuiltInv
<1>2. ~Write => Stays(owned.dep, owned'.dep) /\ Stays(owned.svc, owned'.svc)
  BY <1>1, BuiltStays
<1>3. CASE PatchStatus
  <2>1. /\ rec.pc = "patch" /\ specs' = specs
        /\ StatusGen' = rec.outcome.gen
        /\ queue => queue'
        /\ timer' = IF rec.outcome.programmed THEN "resync" ELSE "retry"
    BY <1>1, <1>3, PatchStatusEffect
  <2>2. owned' = owned
    BY <1>3 DEF PatchStatus
  <2>3. timer' = "resync" => rec.outcome.programmed
    BY <2>1
  <2>4. ~queue' => rec.outcome.gen = Generation
    BY <1>1, <2>1 DEF GenInv, RecGen, Reporting
  <2> QED
    BY <1>1, <2>1, <2>2, <2>3, <2>4
       DEF RestsOnlyWhenBuilt, BuiltSoFar, Reporting, Desired, Generation
<1>4. CASE Begin \/ Continues \/ (rec' = Idle /\ timer' = "retry")
  BY <1>4 DEF Begin, Continues, RestsOnlyWhenBuilt
<1>5. CASE rec' = rec /\ ~Begin /\ ~PatchStatus
  <2> SUFFICES ASSUME (started /\ ~queue /\ timer = "resync" /\ rec.pc = "idle")'
               PROVE  (/\ StatusGen = Generation
                       /\ Mine(owned.dep) /\ owned.dep.shape = Desired.shape
                       /\ Mine(owned.svc) /\ owned.svc.shape = Desired.shape)'
    BY DEF RestsOnlyWhenBuilt
  <2>1. /\ status' = status /\ specs' = specs
        /\ started /\ ~queue /\ timer = "resync" /\ rec.pc = "idle"
    BY <1>1, <1>5, RecKept
  <2>2. ~Write
    BY <2>1 DEF Write
  <2>3. /\ StatusGen = Generation
        /\ Mine(owned.dep) /\ owned.dep.shape = Desired.shape
        /\ Mine(owned.svc) /\ owned.svc.shape = Desired.shape
    BY <1>1, <2>1 DEF RestsOnlyWhenBuilt
  <2>4. StatusGen' = StatusGen /\ Generation' = Generation /\ Desired' = Desired
    BY <2>1 DEF StatusGen, Generation, Desired
  <2> QED
    BY <1>2, <2>2, <2>3, <2>4 DEF Stays
<1> QED
  BY <1>1, <1>3, <1>4, <1>5, RecMoves

(***************************************************************************)
(* The inductive invariant of the undisturbed runtime.                     *)
(***************************************************************************)
Inv == BaseInv /\ ObservedInv /\ BuiltInv /\ NoRestart

\* The whole invariant holds at the start.
LEMMA InvInit == ASSUME Undisturbed PROVE Init => Inv
<1>1. Init => NoRestart
  BY DEF Init, NoRestart, Undisturbed
<1> QED
  BY <1>1, BaseInit, ObservedInit, BuiltInit DEF Inv

\* Every step keeps the whole invariant.
LEMMA InvNext == ASSUME Undisturbed PROVE Inv /\ [Next]_vars => Inv'
<1> SUFFICES ASSUME Inv, [Next]_vars PROVE Inv'
  OBVIOUS
<1>1. NoRestart' /\ ~Restart
  BY RestartNext DEF Inv
<1>2. BaseInv /\ ObservedInv /\ BuiltInv /\ BuiltSoFar
  BY DEF Inv, BuiltInv
<1>3. Untampered
  BY DEF Undisturbed, Untampered
<1>4. BaseInv' /\ ObservedInv'
  BY <1>2, <1>3, BaseNext, ObservedNext
<1>5. BuiltInv'
  BY <1>1, <1>2, BuiltSoFarNext, ProgrammedNext, RestsNext DEF BuiltInv
<1> QED
  BY <1>1, <1>4, <1>5 DEF Inv

(***************************************************************************)
(* A Gateway that is reported Programmed has a pod of the shape that the   *)
(* generation its status names, or a later one, asks for                   *)
(* (gateway.rs:823-885), however edits, faults, failing pods and rollouts  *)
(* interleave with the reconcile's calls.                                  *)
(***************************************************************************)
THEOREM ProgrammedStaysBuilt ==
    ASSUME Undisturbed
    PROVE  Spec => []ProgrammedIsBuilt
<1>1. Inv => ProgrammedIsBuilt
  BY DEF Inv, BuiltInv
<1> QED
  BY <1>1, InvInit, InvNext, PTL DEF Spec

(***************************************************************************)
(* The controller goes to rest for 300 s only over a Service and a         *)
(* Deployment made from the Gateway's latest spec, with a status that says *)
(* so (gateway.rs:455-459).                                              *)
(***************************************************************************)
THEOREM RestIsBuilt ==
    ASSUME Undisturbed
    PROVE  Spec => []RestsOnlyWhenBuilt
<1>1. Inv => RestsOnlyWhenBuilt
  BY DEF Inv, BuiltInv
<1> QED
  BY <1>1, InvInit, InvNext, PTL DEF Spec

=============================================================================
