-------------------------- MODULE ControllerProofs --------------------------
(***************************************************************************)
(* Proofs about the controller: ControlPlane, for any worlds (any objects, *)
(* any changes of the cluster in any order, any number of restarts and     *)
(* failures), and LeaderElection, for any set of replicas, any lease       *)
(* duration, renewal interval, request delay and number of faults.         *)
(***************************************************************************)
EXTENDS ControlPlane, LeaderElection, TLAPS

----------------------------------------------------------------------------
(* What the invariant says.                                                *)

SecretIds == {id \in Ids : id.kind = "Secret"}

\* No other Secret is written to the path of this one.
Unshared(id) == \A x \in SecretIds : x # id => SecretPath(x) # SecretPath(id)

(***************************************************************************)
(* The reconcile of a Secret under way works on the object the API server  *)
(* has, unless it is queued again, and has put on disk what it has written *)
(* so far.                                                                 *)
(***************************************************************************)
WorkFresh(id) ==
    id \in DOMAIN work =>
      /\ work[id] = [pc |-> work[id].pc, obj |-> work[id].obj]
      /\ work[id].pc \in {"crt", "key", "check"}
      /\ id \in DOMAIN api /\ id \notin queue => work[id].obj = api[id]
      /\ Unshared(id) /\ ~Worlds[world].readonly =>
           /\ work[id].pc \in {"key", "check"} => PairAt(SecretPath(id)).crt = work[id].obj.crt
           /\ work[id].pc = "check" => PairAt(SecretPath(id)).key = work[id].obj.key

\* Before Secrets are listed none is reconciled.
NotBegun(id) ==
    "Secret" \notin store.listed =>
        id \notin queue /\ id \notin DOMAIN work /\ id \notin DOMAIN timers

\* The claim for one Secret.
OnDisk(id) ==
    id \in DOMAIN api /\ "Secret" \in store.listed /\ KeyOf(id) \in store.secrets /\ Unshared(id) =>
      \/ id \in queue \/ id \in DOMAIN work
      \/ id \in DOMAIN timers /\ timers[id] = "retry"
      \/ <<"Secret", KeyOf(id)>> \in gaps
      \/ PairAt(SecretPath(id)) = [crt |-> api[id].crt, key |-> api[id].key]

SecretOK(id) == WorkFresh(id) /\ NotBegun(id) /\ OnDisk(id)

SecretInv == TypeOK /\ \A id \in SecretIds : SecretOK(id)

----------------------------------------------------------------------------
(* The operators.                                                          *)

\* A Secret is known by its key.
LEMMA KeysDiffer ==
    ASSUME NEW x \in SecretIds, NEW y \in SecretIds, KeyOf(x) = KeyOf(y)
    PROVE  x = y
<1>1. \A id \in Ids : id = [kind |-> id.kind, ns |-> id.ns, name |-> id.name]
  BY DEF Ids, IdOf
<1> QED
  BY <1>1 DEF SecretIds, KeyOf

\* The writes of the store that are not about Secrets leave them alone.
LEMMA StoreWrites ==
    ASSUME NEW s, IsStore(s), NEW o, NEW id, NEW key, NEW addrs
    PROVE  \A t \in {upsert(s, o), remove(s, id), upsert_service_presence(s, key),
                     upsert_endpoints(s, key, addrs), Written(s, o)} :
              IsStore(t) /\ t.secrets = s.secrets /\ t.listed = s.listed
<1> DEFINE Good(t) == IsStore(t) /\ t.secrets = s.secrets /\ t.listed = s.listed
<1>1. \A v : Good([s EXCEPT !.objects = v])
  BY DEF IsStore
<1>2. \A v : Good([s EXCEPT !.endpoints = v])
  BY DEF IsStore
<1>3. \A v : Good([s EXCEPT !.present = v])
  BY DEF IsStore
<1> HIDE DEF Good
<1>4. Good(upsert(s, o)) /\ Good(remove(s, id))
  BY <1>1, Zenon DEF upsert, remove
<1>5. Good(upsert_service_presence(s, key))
  BY <1>3, Zenon DEF upsert_service_presence
<1>6. Good(upsert_endpoints(s, key, addrs))
  BY <1>2, Zenon DEF upsert_endpoints
<1>7. Good(Written(s, o))
  BY <1>1, Zenon DEF Written, upsert, remove
<1> QED
  BY <1>4, <1>5, <1>6, <1>7, Zenon DEF Good

\* The writes about Secrets.
LEMMA SecretWrites ==
    ASSUME NEW s, IsStore(s), NEW key
    PROVE  /\ LET t == upsert_tls_secret(s, key)
              IN  IsStore(t) /\ t.secrets = s.secrets \cup {key} /\ t.listed = s.listed
           /\ LET t == remove_tls_secret(s, key)
              IN  IsStore(t) /\ t.secrets = s.secrets \ {key} /\ t.listed = s.listed
  BY DEF IsStore, upsert_tls_secret, remove_tls_secret

\* What a controller that starts finds in its store.
LEMMA FreshStoreParts == IsStore(FreshStore) /\ FreshStore.secrets = {}
<1>1. IsStore(EmptyStore) /\ EmptyStore.secrets = {}
  BY DEF EmptyStore, IsStore
<1>2. \A s, v : IsStore(s) => IsStore([s EXCEPT !.listed = v]) /\ [s EXCEPT !.listed = v].secrets = s.secrets
  BY DEF IsStore
<1> QED
  BY <1>1, <1>2 DEF FreshStore

\* No other kind of object is a Secret.
LEMMA RouteKindsAre == Routes = {"HTTPRoute", "TCPRoute", "TLSRoute"}
  BY DEF Routes, RouteKinds, ToSet

----------------------------------------------------------------------------
(* Steps that leave a Secret alone.                                        *)

Same(id) ==
    /\ (id \in DOMAIN api' <=> id \in DOMAIN api) /\ (id \in DOMAIN api => api'[id] = api[id])
    /\ id \in queue' <=> id \in queue
    /\ (id \in DOMAIN work' <=> id \in DOMAIN work) /\ (id \in DOMAIN work => work'[id] = work[id])
    /\ (id \in DOMAIN timers' <=> id \in DOMAIN timers) /\ (id \in DOMAIN timers => timers'[id] = timers[id])
    /\ <<"Secret", KeyOf(id)>> \in gaps => <<"Secret", KeyOf(id)>> \in gaps'
    /\ KeyOf(id) \in store'.secrets <=> KeyOf(id) \in store.secrets
    /\ Unshared(id) => PairAt(SecretPath(id))' = PairAt(SecretPath(id))

\* A step that is about x, as far as Secrets are concerned.
Apart(x) ==
    /\ world' = world /\ ("Secret" \in store'.listed <=> "Secret" \in store.listed)
    /\ \A id \in SecretIds : id # x => Same(id)

\* What holds of a Secret holds after a step that leaves it alone.
LEMMA SameKeeps ==
    ASSUME NEW id \in SecretIds, SecretOK(id), Same(id), world' = world,
           "Secret" \in store'.listed <=> "Secret" \in store.listed
    PROVE  SecretOK(id)'
<1>0. Unshared(id)' <=> Unshared(id)
  BY DEF Unshared, SecretIds, SecretPath
<1>1. WorkFresh(id)'
  BY <1>0 DEF SecretOK, WorkFresh, Same
<1>2. NotBegun(id)'
  BY DEF SecretOK, NotBegun, Same, KeyOf
<1>3. OnDisk(id)'
  BY <1>0 DEF SecretOK, OnDisk, Same, KeyOf
<1> QED
  BY <1>1, <1>2, <1>3 DEF SecretOK

\* So a step needs to be looked at for the one it is about.
LEMMA ApartKeeps ==
    ASSUME SecretInv, TypeOK', NEW x, Apart(x), x \in SecretIds => SecretOK(x)'
    PROVE  SecretInv'
<1>1. \A id \in SecretIds : SecretOK(id)'
  BY SameKeeps DEF SecretInv, Apart
<1> QED
  BY <1>1 DEF SecretInv, SecretIds

----------------------------------------------------------------------------
(* Steps about other objects.                                              *)

\* What a step about x does to the parts of the state.
ApiApart(x) ==
    /\ DOMAIN api' = DOMAIN api
    /\ \A id \in DOMAIN api : id # x => api'[id] = api[id]
    /\ x \in DOMAIN api => IsObject(api'[x]) /\ IdOf(api'[x]) = x

QueueApart ==
    queue' \subseteq DOMAIN api /\ \A id \in SecretIds : id \in queue' <=> id \in queue

WorkApart(x) ==
    \A id : id # x => (id \in DOMAIN work' <=> id \in DOMAIN work) /\ (id \in DOMAIN work => work'[id] = work[id])

TimersApart(x) ==
    /\ x \in DOMAIN timers' => x \in Ids
    /\ \A id : id # x => /\ id \in DOMAIN timers' <=> id \in DOMAIN timers
                         /\ id \in DOMAIN timers => timers'[id] = timers[id]

StoreApart == IsStore(store') /\ store'.secrets = store.secrets /\ store'.listed = store.listed

GapsApart == \A key : <<"Secret", key>> \in gaps => <<"Secret", key>> \in gaps'

(***************************************************************************)
(* A step about x, which is no Secret: it may change x and what is known   *)
(* of it, queue other objects that are no Secrets, and write the store     *)
(* but for the Secrets in it.                                              *)
(***************************************************************************)
Elsewhere(x) ==
    /\ world' = world /\ files' = files /\ todo' \subseteq todo
    /\ ApiApart(x) /\ QueueApart /\ WorkApart(x) /\ TimersApart(x) /\ StoreApart /\ GapsApart

\* Such a step keeps what holds of Secrets.
LEMMA ElsewhereKeeps ==
    ASSUME SecretInv, NEW x \in Ids, x.kind # "Secret", Elsewhere(x)
    PROVE  SecretInv'
<1> USE DEF Elsewhere, ApiApart, QueueApart, WorkApart, TimersApart, StoreApart, GapsApart
<1>0. x \notin SecretIds
  BY DEF SecretIds
<1>1. TypeOK'
  <2>1. DOMAIN work' \subseteq Ids /\ DOMAIN timers' \subseteq Ids
    BY DEF SecretInv, TypeOK
  <2>2. \A id \in DOMAIN api' : IsObject(api'[id]) /\ IdOf(api'[id]) = id
    BY DEF SecretInv, TypeOK
  <2> QED
    BY <2>1, <2>2 DEF SecretInv, TypeOK, IsObject, IdOf, IsStore
<1>2. Apart(x)
  BY <1>0 DEF Apart, Same, PairAt, SecretIds
<1> QED
  BY <1>0, <1>1, <1>2, ApartKeeps

\* An object with another status, or accepted, is the same object.
LEMMA ObjectExcept ==
    ASSUME NEW o, IsObject(o), NEW v
    PROVE  /\ IsObject([o EXCEPT !.status = v]) /\ IdOf([o EXCEPT !.status = v]) = IdOf(o)
           /\ IsObject([o EXCEPT !.accepted = v]) /\ IdOf([o EXCEPT !.accepted = v]) = IdOf(o)
  BY DEF IsObject, IdOf

\* What a change of an object queues besides itself are Gateways.
LEMMA TouchedAre ==
    ASSUME TypeOK, NEW o
    PROVE  /\ Touched(o) \subseteq {IdOf(o)} \cup DOMAIN api
           /\ \A id \in Touched(o) : id = IdOf(o) \/ id.kind = "Gateway"
           /\ \A keys : \A id \in GatewayIds(keys) : id \in DOMAIN api /\ id.kind = "Gateway"
  BY DEF Touched, GatewayIds, GatewayId

\* How a reconcile that is due sets its timer, and what it may leave alone.
LEMMA PartsApart ==
    ASSUME SecretInv, NEW id \in Ids, id \notin SecretIds
    PROVE  /\ AwaitChange(id) \/ UNCHANGED timers => TimersApart(id)
           /\ \A why : Requeue(id, why) => TimersApart(id)
           /\ Handled(id) \/ UNCHANGED queue => QueueApart
           /\ UNCHANGED work => WorkApart(id)
           /\ \A w : work' = With(work, id, w) => WorkApart(id)
           /\ work' = Without(work, id) => WorkApart(id)
           /\ UNCHANGED api => ApiApart(id)
           /\ UNCHANGED store => StoreApart
<1> USE DEF SecretInv, TypeOK
<1>1. AwaitChange(id) \/ UNCHANGED timers => TimersApart(id)
  BY DEF AwaitChange, TimersApart, Without
<1>2. \A why : Requeue(id, why) => TimersApart(id)
  BY DEF Requeue, TimersApart, With
<1>3. Handled(id) \/ UNCHANGED queue => QueueApart
  BY DEF Handled, QueueApart
<1>4. UNCHANGED work => WorkApart(id)
  BY DEF WorkApart
<1>5. \A w : work' = With(work, id, w) => WorkApart(id)
  BY DEF WorkApart, With
<1>6. work' = Without(work, id) => WorkApart(id)
  BY DEF WorkApart, Without
<1>7. UNCHANGED api => ApiApart(id)
  BY DEF ApiApart
<1>8. UNCHANGED store => StoreApart
  BY DEF StoreApart
<1> QED
  BY <1>1, <1>2, <1>3, <1>4, <1>5, <1>6, <1>7, <1>8

\* A reconcile takes in what was passed over of its own kind only.
LEMMA GapsKept ==
    ASSUME NEW kind, kind # "Secret", NEW key
    PROVE  gaps' \in {gaps, gaps \ {<<kind, key>>}, gaps \cup {<<kind, key>>}} => GapsApart
  BY DEF GapsApart

\* So it is for the ones that end with TakenIn.
LEMMA TakenInKeeps ==
    ASSUME NEW id, id.kind # "Secret", TakenIn(id)
    PROVE  GapsApart
  BY DEF TakenIn, GapsApart

\* The writes of a reconcile that is not about Secrets.
LEMMA WritesApart ==
    ASSUME SecretInv, NEW o, NEW id, NEW key, NEW addrs,
           store' \in {store, upsert(store, o), remove(store, id), upsert_service_presence(store, key),
                       upsert_endpoints(store, key, addrs), Written(store, o)}
    PROVE  StoreApart
<1>1. IsStore(store)
  BY DEF SecretInv, TypeOK
<1>2. \A t \in {upsert(store, o), remove(store, id), upsert_service_presence(store, key),
               upsert_endpoints(store, key, addrs), Written(store, o)} :
         IsStore(t) /\ t.secrets = store.secrets /\ t.listed = store.listed
  BY <1>1, StoreWrites
<1> QED
  BY <1>1, <1>2, Zenon DEF StoreApart

\* An update of an object that leaves its kind, namespace and name alone.
LEMMA UpdateApart ==
    ASSUME SecretInv, NEW id, NEW o, IsObject(o), IdOf(o) = id,
           api' = api \/ api' = [api EXCEPT ![id] = o]
    PROVE  ApiApart(id)
  BY DEF ApiApart, SecretInv, TypeOK

\* The reconciles of grants, classes, Services and slices.
LEMMA SmallElsewhere ==
    ASSUME SecretInv, NEW id \in Ids,
           \/ ReconcileGrant(id) \/ ReconcileClass(id) \/ ReconcileService(id)
           \/ SkipSlice(id) \/ ListSlices(id) \/ StoreEndpoints(id)
    PROVE  id.kind # "Secret" /\ Elsewhere(id)
<1>0. id.kind # "Secret" /\ id \notin SecretIds
  BY DEF ReconcileGrant, ReconcileClass, ReconcileService, SkipSlice, ListSlices, StoreEndpoints, SecretIds
<1>1. Due(id) => id \in DOMAIN api /\ IsObject(api[id]) /\ IdOf(api[id]) = id
  BY DEF Due, SecretInv, TypeOK
<1> USE <1>0, <1>1 DEF Elsewhere
<1>2. CASE ReconcileGrant(id)
  <2>1. StoreApart
    BY <1>2, WritesApart, Zenon DEF ReconcileGrant
  <2> QED
    BY <1>2, <2>1, TakenInKeeps, PartsApart DEF ReconcileGrant
<1>3. CASE ReconcileClass(id)
  <2>1. StoreApart
    BY <1>3, WritesApart, Zenon DEF ReconcileClass
  <2>2. ApiApart(id)
    <3>1. IsObject([api[id] EXCEPT !.accepted = TRUE]) /\ IdOf([api[id] EXCEPT !.accepted = TRUE]) = id
      BY <1>3, ObjectExcept DEF ReconcileClass
    <3>2. api' = api \/ api' = [api EXCEPT ![id] = [api[id] EXCEPT !.accepted = TRUE]]
      BY <1>3 DEF ReconcileClass
    <3> QED
      BY <3>1, <3>2, UpdateApart
  <2>3. QueueApart
    BY <1>3 DEF ReconcileClass, QueueApart, SecretInv, TypeOK
  <2>4. GapsApart
    BY <1>3 DEF ReconcileClass, GapsApart
  <2> QED
    BY <1>3, <2>1, <2>2, <2>3, <2>4, PartsApart DEF ReconcileClass
<1>4. CASE ReconcileService(id)
  <2>1. StoreApart
    BY <1>4, WritesApart, Zenon DEF ReconcileService
  <2> QED
    BY <1>4, <2>1, TakenInKeeps, PartsApart DEF ReconcileService
<1>5. CASE SkipSlice(id)
  <2>1. GapsApart
    BY <1>5, GapsKept DEF SkipSlice
  <2> QED
    BY <1>5, <2>1, PartsApart DEF SkipSlice
<1>6. CASE ListSlices(id)
  <2>1. GapsApart
    BY <1>6 DEF ListSlices, GapsApart
  <2> QED
    BY <1>6, <2>1, PartsApart DEF ListSlices
<1>7. CASE StoreEndpoints(id)
  <2>1. StoreApart
    <3>1. store' = upsert_endpoints(store, work[id].key, work[id].addrs)
      BY <1>7 DEF StoreEndpoints
    <3>2. IsStore(store)
      BY DEF SecretInv, TypeOK
    <3> QED
      BY <3>1, <3>2, StoreWrites DEF StoreApart
  <2>2. GapsApart
    BY <1>7 DEF StoreEndpoints, GapsApart
  <2> QED
    BY <1>7, <2>1, <2>2, PartsApart DEF StoreEndpoints
<1> QED
  BY <1>2, <1>3, <1>4, <1>5, <1>6, <1>7

\* The reconciles of routes.
LEMMA RoutesElsewhere ==
    ASSUME SecretInv, NEW id \in Ids, id.kind \in Routes,
           RemoveRoute(id) \/ JudgeRoute(id) \/ StoreRoute(id)
    PROVE  id.kind # "Secret" /\ Elsewhere(id)
<1>0. id.kind # "Secret" /\ id.kind # "Gateway" /\ id \notin SecretIds
  BY RouteKindsAre DEF SecretIds
<1>1. Due(id) => id \in DOMAIN api /\ IsObject(api[id]) /\ IdOf(api[id]) = id
  BY DEF Due, SecretInv, TypeOK
<1> USE <1>0, <1>1 DEF Elsewhere
<1>2. CASE RemoveRoute(id)
  <2>1. StoreApart
    BY <1>2, WritesApart, Zenon DEF RemoveRoute
  <2> QED
    BY <1>2, <2>1, TakenInKeeps, PartsApart DEF RemoveRoute
<1>3. CASE JudgeRoute(id)
  <2>1. ApiApart(id)
    <3>1. \A v : IsObject([api[id] EXCEPT !.status = v]) /\ IdOf([api[id] EXCEPT !.status = v]) = id
      BY <1>3, ObjectExcept DEF JudgeRoute
    <3>2. \E v : api' = [api EXCEPT ![id] = [api[id] EXCEPT !.status = v]]
      BY <1>3, Zenon DEF JudgeRoute
    <3> QED
      BY <3>1, <3>2, UpdateApart
  <2>2. QueueApart
    <3>1. queue' \subseteq (queue \ {id}) \cup Touched(api[id]) /\ queue \ {id} \subseteq queue'
      BY <1>3 DEF JudgeRoute, Notified
    <3>2. \A x \in Touched(api[id]) : x \in DOMAIN api /\ (x = id \/ x.kind = "Gateway")
      BY <1>3, TouchedAre DEF JudgeRoute, SecretInv
    <3> QED
      BY <3>1, <3>2 DEF SecretIds, QueueApart, SecretInv, TypeOK
  <2>3. UNCHANGED work \/ \E w : work' = With(work, id, w)
    BY <1>3, Zenon DEF JudgeRoute
  <2>4. UNCHANGED timers \/ Requeue(id, "resync")
    BY <1>3, Zenon DEF JudgeRoute, Requeue
  <2>5. Due(id) /\ UNCHANGED <<world, todo, wakes, store, files, applied, running, gaps>>
    BY <1>3, Zenon DEF JudgeRoute
  <2>6. GapsApart
    BY <2>5 DEF GapsApart
  <2> QED
    BY <2>1, <2>2, <2>3, <2>4, <2>5, <2>6, PartsApart
<1>4. CASE StoreRoute(id)
  <2>1. StoreApart
    BY <1>4, WritesApart, Zenon DEF StoreRoute
  <2> QED
    BY <1>4, <2>1, TakenInKeeps, PartsApart DEF StoreRoute
<1> QED
  BY <1>2, <1>3, <1>4

\* The reconcile of a Gateway.
LEMMA GatewaysElsewhere ==
    ASSUME SecretInv, NEW id \in Ids, LeaveGateway(id) \/ reconcile_gateway(id)
    PROVE  id.kind # "Secret" /\ Elsewhere(id)
<1>0. id.kind # "Secret" /\ id \notin SecretIds
  BY DEF LeaveGateway, reconcile_gateway, SecretIds
<1>1. Due(id) => id \in DOMAIN api /\ IsObject(api[id]) /\ IdOf(api[id]) = id
  BY DEF Due, SecretInv, TypeOK
<1> USE <1>0, <1>1 DEF Elsewhere
<1>2. CASE LeaveGateway(id)
  <2>1. StoreApart
    BY <1>2, WritesApart, Zenon DEF LeaveGateway
  <2>2. GapsApart
    BY <1>2 DEF LeaveGateway, GapsApart
  <2> QED
    BY <1>2, <2>1, <2>2, PartsApart DEF LeaveGateway
<1>3. CASE reconcile_gateway(id)
  <2>1. /\ Due(id) /\ TakenIn(id)
        /\ Requeue(id, "retry") \/ Requeue(id, "resync")
        /\ UNCHANGED <<world, todo, wakes, work, files, running>>
    BY <1>3, Zenon DEF reconcile_gateway
  <2>2. StoreApart
    BY <1>3, WritesApart, Zenon DEF reconcile_gateway
  <2>3. ApiApart(id)
    <3>1. \A v : IsObject([api[id] EXCEPT !.status = v]) /\ IdOf([api[id] EXCEPT !.status = v]) = id
      BY <2>1, ObjectExcept
    <3>2. api' = api \/ \E v : api' = [api EXCEPT ![id] = [api[id] EXCEPT !.status = v]]
      BY <1>3, Zenon DEF reconcile_gateway
    <3> QED
      BY <3>1, <3>2, <2>1, UpdateApart
  <2>4. QueueApart
    <3>1. queue' = (queue \ {id}) \cup (IF api' = api THEN {} ELSE {id})
      BY <1>3, Zenon DEF reconcile_gateway
    <3> QED
      BY <2>1, <3>1 DEF QueueApart, SecretInv, TypeOK
  <2> QED
    BY <2>1, <2>2, <2>3, <2>4, TakenInKeeps, PartsApart
<1> QED
  BY <1>2, <1>3

----------------------------------------------------------------------------
(* Steps about nobody in particular.                                       *)

\* The watches of the Gateway controller and the rollouts touch no Secret.
LEMMA WatchesKeep ==
    ASSUME SecretInv, (\E o \in wakes : LookUp(o)) \/ (\E id \in DOMAIN applied : LoadConfig(id))
    PROVE  SecretInv'
<1>1. QueueApart /\ UNCHANGED <<world, api, todo, timers, store, work, files, gaps>>
  <2>1. CASE \E o \in wakes : LookUp(o)
    <3>1. PICK o : LookUp(o)
      BY <2>1
    <3>2. \A id \in Notified(GatewayIds(MapperFinds(o))) : id \in DOMAIN api /\ id.kind = "Gateway"
      BY TouchedAre DEF Notified, SecretInv
    <3> QED
      BY <3>1, <3>2 DEF LookUp, QueueApart, SecretInv, TypeOK, SecretIds
  <2>2. CASE \E id \in DOMAIN applied : LoadConfig(id)
    BY <2>2 DEF LoadConfig, QueueApart, SecretInv, TypeOK
  <2> QED
    BY <2>1, <2>2
<1>2. TypeOK'
  BY <1>1 DEF QueueApart, SecretInv, TypeOK, IsStore
<1>3. \A id \in SecretIds : Same(id)
  BY <1>1 DEF QueueApart, Same, PairAt
<1>4. \A x : Apart(x)
  BY <1>1, <1>3 DEF Apart
<1>5. \A id \in SecretIds : SecretOK(id)'
  BY <1>1, <1>3, SameKeeps DEF SecretInv
<1> QED
  BY <1>2, <1>5 DEF SecretInv, SecretIds

\* When the timers fire every Secret to be retried is queued.
LEMMA ResyncKeeps ==
    ASSUME SecretInv, Resync
    PROVE  SecretInv'
<1> USE DEF Resync, SecretInv
<1>1. TypeOK'
  BY DEF TypeOK, IsStore
<1>2. ASSUME NEW id \in SecretIds
      PROVE  SecretOK(id)'
  <2>1. Unshared(id)' <=> Unshared(id)
    BY DEF Unshared, SecretIds, SecretPath
  <2>2. WorkFresh(id)'
    BY <2>1 DEF SecretOK, WorkFresh
  <2>3. NotBegun(id)'
    BY DEF SecretOK, NotBegun, KeyOf
  <2>4. OnDisk(id)'
    BY <2>1 DEF SecretOK, OnDisk, KeyOf, PairAt
  <2> QED
    BY <2>2, <2>3, <2>4 DEF SecretOK
<1> QED
  BY <1>1, <1>2 DEF SecretIds

\* A restart forgets everything but the files.
LEMMA RestartKeeps ==
    ASSUME SecretInv, NEW c \in todo, Restart(c)
    PROVE  SecretInv'
<1> USE DEF Restart, Happens, SecretInv
<1>1. TypeOK'
  BY FreshStoreParts DEF TypeOK, IsStore
<1>2. ASSUME NEW id \in SecretIds
      PROVE  SecretOK(id)'
  BY FreshStoreParts DEF SecretOK, WorkFresh, NotBegun, OnDisk
<1> QED
  BY <1>1, <1>2 DEF SecretIds

\* The Secrets whose pairs the initial list writes, if it gets to Secrets.
SecretsToList(kinds) == IF "Secret" \in kinds /\ ~Worlds[world].readonly THEN ListedSecrets ELSE {}

\* What the initial list of some kinds does to the store and the queue.
LEMMA ListParts ==
    ASSUME SecretInv, NEW kinds, List(kinds)
    PROVE  /\ IsStore(store') /\ store'.listed = store.listed \cup kinds
           /\ "Secret" \notin kinds => store'.secrets = store.secrets
           /\ kinds \cap store.listed = {}
           /\ queue' = queue \cup {id \in DOMAIN api : id.kind \in kinds}
           /\ UNCHANGED <<world, api, todo, timers, wakes, work, applied, running, gaps>>
<1> DEFINE Objs == UNION {Listed(kind) : kind \in kinds}
           Valid == {o \in SecretsToList(kinds) : ValidPair([crt |-> o.crt, key |-> o.key])}
           A == Overlay(store.objects, [id \in {IdOf(o) : o \in Objs} |-> api[id]])
           B == IF "Service" \in kinds THEN ListedServices ELSE store.present
           D == store.secrets \cup {KeyOf(o) : o \in Valid}
<1>1. /\ store' = mark_listed([store EXCEPT !.objects = A, !.present = B, !.secrets = D], kinds)
      /\ kinds \cap store.listed = {}
      /\ queue' = queue \cup {id \in DOMAIN api : id.kind \in kinds}
      /\ UNCHANGED <<world, api, todo, timers, wakes, work, applied, running, gaps>>
  BY Zenon DEF List, SecretsToList
<1>2. "Secret" \notin kinds => D = store.secrets
  BY DEF SecretsToList
<1> HIDE DEF A, B, D
<1>3. store = [objects |-> store.objects, present |-> store.present, endpoints |-> store.endpoints,
               secrets |-> store.secrets, listed |-> store.listed]
  BY Zenon DEF SecretInv, TypeOK, IsStore
<1>4. store' = [objects |-> A, present |-> B, endpoints |-> store.endpoints,
                secrets |-> D, listed |-> store.listed \cup kinds]
  BY <1>1, <1>3 DEF mark_listed
<1>5. IsStore(store') /\ store'.listed = store.listed \cup kinds /\ store'.secrets = D
  BY <1>4 DEF IsStore
<1> QED
  BY <1>1, <1>2, <1>5

\* The files of the list are pairs, and there are none without Secrets.
LEMMA ListFiles ==
    ASSUME SecretInv, NEW kinds, List(kinds)
    PROVE  /\ \A path \in DOMAIN files' : files'[path] = [crt |-> files'[path].crt, key |-> files'[path].key]
           /\ Worlds[world].readonly => DOMAIN files' = {}
           /\ "Secret" \notin kinds => \A path : PairAt(path)' = PairAt(path)
<1> DEFINE S == SecretsToList(kinds)
<1>1. \E last \in [{SecretPath(o) : o \in S} -> S] : files' = Overlay(files, ListedPairs(last))
  BY Zenon DEF List, SecretsToList
<1>2. PICK last \in [{SecretPath(o) : o \in S} -> S] : files' = Overlay(files, ListedPairs(last))
  BY <1>1
<1>3. \A path \in DOMAIN last : LET p == ListedPairs(last)[path] IN p = [crt |-> p.crt, key |-> p.key]
  BY DEF ListedPairs, NoPair
<1>4. DOMAIN ListedPairs(last) = DOMAIN last
  BY DEF ListedPairs
<1>5. "Secret" \notin kinds \/ Worlds[world].readonly => DOMAIN last = {}
  BY DEF SecretsToList
<1> QED
  BY <1>2, <1>3, <1>4, <1>5 DEF Overlay, PairAt, SecretInv, TypeOK

\* A list that gets to Secrets queues them all; before it nothing was done.
LEMMA StartKeeps ==
    ASSUME SecretInv, Start
    PROVE  SecretInv'
<1>1. PICK kinds : List(kinds)
  BY Zenon DEF Start
<1> USE ListParts, ListFiles, <1>1
<1>2. TypeOK'
  BY DEF SecretInv, TypeOK, IsObject, IdOf, IsStore
<1>3. CASE "Secret" \in kinds
  <2>1. ASSUME NEW id \in SecretIds
        PROVE  SecretOK(id)'
    <3>1. /\ id \notin queue /\ id \notin DOMAIN work /\ id \notin DOMAIN timers
          /\ "Secret" \in store'.listed
      BY <1>3 DEF SecretInv, SecretOK, NotBegun
    <3>2. id \in DOMAIN api' => id \in queue'
      BY <1>3 DEF SecretIds
    <3> QED
      BY <3>1, <3>2 DEF SecretOK, WorkFresh, NotBegun, OnDisk
  <2> QED
    BY <1>2, <2>1 DEF SecretInv, SecretIds
<1>4. CASE "Secret" \notin kinds
  <2>1. ASSUME NEW id \in SecretIds
        PROVE  Same(id)
    BY <1>4 DEF Same, SecretIds
  <2>2. "Secret" \in store'.listed <=> "Secret" \in store.listed
    BY <1>4
  <2>3. \A id \in SecretIds : SecretOK(id)'
    BY <2>1, <2>2, SameKeeps DEF SecretInv
  <2> QED
    BY <1>2, <2>3 DEF SecretInv, SecretIds
<1> QED
  BY <1>3, <1>4

\* A list that fails leaves pairs and halves of pairs, of Secrets that none
\* has reconciled and none will before the list is made again.
LEMMA FailListKeeps ==
    ASSUME SecretInv, NEW c \in todo, FailList(c)
    PROVE  SecretInv'
<1>1. /\ "Secret" \notin store.listed /\ ~Worlds[world].readonly /\ todo' \subseteq todo
      /\ UNCHANGED <<world, api, queue, timers, wakes, work, applied, running, gaps>>
  BY DEF FailList, Happens
<1>2. IsStore(store') /\ store'.listed = store.listed
  <2>1. \E v : store' = [store EXCEPT !.secrets = v]
    BY Zenon DEF FailList
  <2>2. IsStore(store)
    BY DEF SecretInv, TypeOK
  <2> QED
    BY <2>1, <2>2 DEF IsStore
<1>3. \A path \in DOMAIN files' : files'[path] = [crt |-> files'[path].crt, key |-> files'[path].key]
  <2>1. \E last : \/ files' = Overlay(files, ListedPairs(last))
                  \/ \E path, crt, key :
                        files' = With(Overlay(files, ListedPairs(last)), path, [crt |-> crt, key |-> key])
    BY Zenon DEF FailList
  <2>0. PICK last : \/ files' = Overlay(files, ListedPairs(last))
                    \/ \E path, crt, key :
                          files' = With(Overlay(files, ListedPairs(last)), path, [crt |-> crt, key |-> key])
    BY <2>1
  <2>2. \A path \in DOMAIN last : LET p == ListedPairs(last)[path] IN p = [crt |-> p.crt, key |-> p.key]
    BY DEF ListedPairs, NoPair
  <2>3. DOMAIN ListedPairs(last) = DOMAIN last
    BY DEF ListedPairs
  <2>4. \A path \in DOMAIN Overlay(files, ListedPairs(last)) :
          LET p == Overlay(files, ListedPairs(last))[path] IN p = [crt |-> p.crt, key |-> p.key]
    BY <2>2, <2>3 DEF Overlay, SecretInv, TypeOK
  <2> QED
    BY <2>0, <2>4 DEF With
<1>4. TypeOK'
  BY <1>1, <1>2, <1>3 DEF SecretInv, TypeOK
<1>5. ASSUME NEW id \in SecretIds
      PROVE  SecretOK(id)'
  BY <1>1, <1>2 DEF SecretInv, SecretOK, WorkFresh, NotBegun, OnDisk
<1> QED
  BY <1>4, <1>5 DEF SecretInv, SecretIds

----------------------------------------------------------------------------
(* The cluster.                                                            *)

\* An object that is put keeps its own id.
LEMMA PutObject ==
    ASSUME SecretInv, NEW c \in todo, Put(c)
    PROVE  /\ IdOf(c.to) \in Ids /\ IsObject(WithStatus(c.to)) /\ IdOf(WithStatus(c.to)) = IdOf(c.to)
<1>1. c.to \in Objects(Worlds[world]) /\ world \in DOMAIN Worlds
  BY DEF SecretInv, TypeOK, Put, Objects
<1>2. IsObject(c.to)
  BY <1>1, WorldsAssumption DEF IsObject
<1>3. IdOf(c.to) \in Ids
  BY <1>1 DEF Ids
<1>4. WithStatus(c.to) = c.to \/ \E v : WithStatus(c.to) = [c.to EXCEPT !.status = v]
  BY Zenon DEF WithStatus
<1>5. \A v : IsObject([c.to EXCEPT !.status = v]) /\ IdOf([c.to EXCEPT !.status = v]) = IdOf(c.to)
  BY <1>2, ObjectExcept
<1> QED
  BY <1>2, <1>3, <1>4, <1>5, Zenon

\* An edit of a Secret queues it, once Secrets are watched.
LEMMA PutKeeps ==
    ASSUME SecretInv, NEW c \in todo, Put(c)
    PROVE  SecretInv'
<1> DEFINE x == IdOf(c.to)
           o == WithStatus(c.to)
<1>0. /\ x \in Ids /\ IsObject(o) /\ IdOf(o) = x
      /\ api' = With(api, x, o) /\ todo' \subseteq todo
      /\ queue' = queue \cup Notified(Touched(c.to))
      /\ UNCHANGED <<world, timers, store, work, files, applied, running, gaps>>
  BY PutObject DEF Put, Happens
<1>1. \A id \in Notified(Touched(c.to)) : id = x \/ (id \in DOMAIN api /\ id.kind = "Gateway")
  BY TouchedAre DEF Notified, SecretInv
<1>2. x \in queue' <=> x \in queue \/ x.kind \in store.listed
  BY <1>0 DEF Notified, Touched, IdOf
<1> HIDE DEF x, o
<1>3. TypeOK'
  <2>1. \A id \in DOMAIN api' : IsObject(api'[id]) /\ IdOf(api'[id]) = id
    BY <1>0 DEF With, SecretInv, TypeOK
  <2>2. DOMAIN api' = DOMAIN api \cup {x}
    BY <1>0 DEF With
  <2>3. queue' \subseteq DOMAIN api'
    BY <1>0, <1>1, <2>2 DEF SecretInv, TypeOK
  <2> QED
    BY <1>0, <2>1, <2>2, <2>3 DEF SecretInv, TypeOK, IsStore
<1>4. Apart(x)
  <2>1. ASSUME NEW id \in SecretIds, id # x
        PROVE  Same(id)
    <3>1. id \in queue' <=> id \in queue
      BY <1>0, <1>1, <2>1 DEF SecretIds
    <3> QED
      BY <1>0, <2>1, <3>1 DEF Same, With, PairAt
  <2> QED
    BY <1>0, <2>1 DEF Apart
<1>5. ASSUME x \in SecretIds
      PROVE  SecretOK(x)'
  <2>0. SecretOK(x) /\ x.kind = "Secret"
    BY <1>5 DEF SecretInv, SecretIds
  <2>1. Unshared(x)' <=> Unshared(x)
    BY <1>0 DEF Unshared, SecretIds, SecretPath
  <2>2. x \in DOMAIN work \/ "Secret" \in store.listed => x \in queue'
    BY <1>2, <2>0 DEF SecretOK, NotBegun
  <2>3. WorkFresh(x)'
    BY <1>0, <2>0, <2>1, <2>2 DEF SecretOK, WorkFresh, PairAt
  <2>4. NotBegun(x)'
    BY <1>0, <1>2, <2>0 DEF SecretOK, NotBegun, KeyOf
  <2>5. OnDisk(x)'
    BY <1>0, <2>2 DEF OnDisk, KeyOf
  <2> QED
    BY <2>3, <2>4, <2>5 DEF SecretOK
<1> QED
  BY <1>3, <1>4, <1>5, ApartKeeps

\* With a Secret that goes, what is still written for it matters no more.
LEMMA GoneKeeps ==
    ASSUME SecretInv, NEW x \in DOMAIN api, Gone(x), todo' \subseteq todo
    PROVE  SecretInv'
<1>0. /\ api' = Without(api, x) /\ gaps \subseteq gaps'
      /\ queue' = (queue \ {x}) \cup Notified(Touched(api[x]) \ {x})
      /\ UNCHANGED <<world, timers, store, work, files>>
  BY DEF Gone
<1>1. x \in Ids /\ IdOf(api[x]) = x
  BY DEF SecretInv, TypeOK
<1>2. \A id \in Notified(Touched(api[x]) \ {x}) : id # x /\ id \in DOMAIN api /\ id.kind = "Gateway"
  BY <1>1, TouchedAre DEF Notified, SecretInv
<1>3. x \notin queue' /\ \A id \in SecretIds : id # x => (id \in queue' <=> id \in queue)
  BY <1>0, <1>2 DEF SecretIds
<1>4. TypeOK'
  <2>1. DOMAIN api' = DOMAIN api \ {x}
    BY <1>0 DEF Without
  <2>2. \A id \in DOMAIN api' : IsObject(api'[id]) /\ IdOf(api'[id]) = id
    BY <1>0 DEF Without, SecretInv, TypeOK
  <2>3. queue' \subseteq DOMAIN api'
    BY <1>0, <1>2, <2>1 DEF SecretInv, TypeOK
  <2> QED
    BY <1>0, <2>1, <2>2, <2>3 DEF SecretInv, TypeOK, IsStore
<1>5. Apart(x)
  <2>1. ASSUME NEW id \in SecretIds, id # x
        PROVE  Same(id)
    BY <1>0, <1>3, <2>1 DEF Same, Without, PairAt
  <2> QED
    BY <1>0, <2>1 DEF Apart
<1>6. ASSUME x \in SecretIds
      PROVE  SecretOK(x)'
  <2>0. SecretOK(x) /\ x \notin DOMAIN api'
    BY <1>0, <1>6 DEF SecretInv, Without
  <2>1. Unshared(x)' <=> Unshared(x)
    BY <1>0 DEF Unshared, SecretIds, SecretPath
  <2>2. WorkFresh(x)'
    BY <1>0, <2>0, <2>1 DEF SecretOK, WorkFresh, PairAt
  <2>3. NotBegun(x)'
    BY <1>0, <1>3, <2>0 DEF SecretOK, NotBegun, KeyOf
  <2>4. OnDisk(x)'
    BY <2>0 DEF OnDisk
  <2> QED
    BY <2>2, <2>3, <2>4 DEF SecretOK
<1> QED
  BY <1>4, <1>5, <1>6, ApartKeeps

----------------------------------------------------------------------------
(* Steps about a Secret.                                                   *)

\* No path but its own is written, and what is written is a pair.
FilesApart(x) ==
    /\ \A path \in DOMAIN files' : files'[path] = [crt |-> files'[path].crt, key |-> files'[path].key]
    /\ Worlds[world].readonly => DOMAIN files' = {}
    /\ \A path : path # SecretPath(x) => PairAt(path)' = PairAt(path)

\* A step about the Secret x.
AboutSecret(x) ==
    /\ world' = world /\ api' = api /\ todo' \subseteq todo
    /\ queue' \subseteq queue /\ queue \ {x} \subseteq queue'
    /\ WorkApart(x) /\ TimersApart(x) /\ FilesApart(x)
    /\ IsStore(store') /\ store'.listed = store.listed
    /\ \A key : key # KeyOf(x) => (key \in store'.secrets <=> key \in store.secrets)
    /\ \A key : key # KeyOf(x) /\ <<"Secret", key>> \in gaps => <<"Secret", key>> \in gaps'

\* Such a step needs to be looked at for x.
LEMMA AboutSecretKeeps ==
    ASSUME SecretInv, NEW x \in SecretIds, AboutSecret(x), SecretOK(x)'
    PROVE  SecretInv'
<1> USE DEF AboutSecret, WorkApart, TimersApart, FilesApart
<1>1. TypeOK'
  <2>1. DOMAIN work' \subseteq Ids /\ DOMAIN timers' \subseteq Ids /\ queue' \subseteq DOMAIN api'
    BY DEF SecretInv, TypeOK, SecretIds
  <2> QED
    BY <2>1 DEF SecretInv, TypeOK, IsStore
<1>2. ASSUME NEW id \in SecretIds, id # x
      PROVE  Same(id)
  <2>1. KeyOf(id) # KeyOf(x)
    BY <1>2, KeysDiffer
  <2>2. Unshared(id) => SecretPath(id) # SecretPath(x)
    BY <1>2 DEF Unshared
  <2> QED
    BY <1>2, <2>1, <2>2 DEF Same
<1>3. Apart(x)
  BY <1>2 DEF Apart
<1> QED
  BY <1>1, <1>3, ApartKeeps

\* What the steps of a reconcile of a Secret do to the parts of the state.
LEMMA SecretParts ==
    ASSUME SecretInv, NEW x \in SecretIds
    PROVE  /\ UNCHANGED timers => TimersApart(x)
           /\ AwaitChange(x) => TimersApart(x)
           /\ \A why : Requeue(x, why) => TimersApart(x)
           /\ UNCHANGED work => WorkApart(x)
           /\ \A w : work' = With(work, x, w) \/ work' = [work EXCEPT ![x] = w] => WorkApart(x)
           /\ work' = Without(work, x) => WorkApart(x)
           /\ UNCHANGED files => FilesApart(x)
           /\ ~Worlds[world].readonly /\ files' = Without(files, SecretPath(x)) => FilesApart(x)
           /\ ~Worlds[world].readonly => \A crt, key :
                 files' = With(files, SecretPath(x), [crt |-> crt, key |-> key]) => FilesApart(x)
<1> USE DEF SecretInv, TypeOK, SecretIds
<1>1. UNCHANGED timers \/ AwaitChange(x) => TimersApart(x)
  BY DEF AwaitChange, TimersApart, Without
<1>2. \A why : Requeue(x, why) => TimersApart(x)
  BY DEF Requeue, TimersApart, With
<1>3. UNCHANGED work \/ work' = Without(work, x) => WorkApart(x)
  BY DEF WorkApart, Without
<1>4. \A w : work' = With(work, x, w) \/ work' = [work EXCEPT ![x] = w] => WorkApart(x)
  BY DEF WorkApart, With
<1>5. UNCHANGED files => FilesApart(x)
  BY DEF FilesApart, PairAt
<1>6. ~Worlds[world].readonly /\ files' = Without(files, SecretPath(x)) => FilesApart(x)
  BY DEF FilesApart, PairAt, Without
<1>7. ~Worlds[world].readonly => \A crt, key :
         files' = With(files, SecretPath(x), [crt |-> crt, key |-> key]) => FilesApart(x)
  BY DEF FilesApart, PairAt, With
<1> QED
  BY <1>1, <1>2, <1>3, <1>4, <1>5, <1>6, <1>7

\* A reconcile that takes in x leaves the gaps of others.
LEMMA SecretGaps ==
    ASSUME SecretInv, NEW x \in SecretIds, TakenIn(x) \/ UNCHANGED gaps
    PROVE  \A key : key # KeyOf(x) /\ <<"Secret", key>> \in gaps => <<"Secret", key>> \in gaps'
<1>1. x \in DOMAIN api => WatchKey(api[x]) = KeyOf(x)
  BY DEF SecretInv, TypeOK, SecretIds, WatchKey, KeyOf, IdOf
<1> QED
  BY <1>1 DEF TakenIn

\* What holds of a Secret that is due.
LEMMA DueSecret ==
    ASSUME SecretInv, NEW x, Due(x), x.kind = "Secret"
    PROVE  /\ x \in SecretIds /\ x \in DOMAIN api /\ x \notin DOMAIN work
           /\ "Secret" \in store.listed /\ KeyOf(api[x]) = KeyOf(x)
<1>1. x \in DOMAIN api /\ x \in SecretIds /\ x \in queue /\ x \notin DOMAIN work
  BY DEF Due, SecretInv, TypeOK, SecretIds
<1>2. "Secret" \in store.listed
  BY <1>1 DEF SecretInv, SecretOK, NotBegun
<1>3. KeyOf(api[x]) = KeyOf(x)
  BY <1>1 DEF SecretInv, TypeOK, KeyOf, IdOf
<1> QED
  BY <1>1, <1>2, <1>3

\* A Secret that is leaving, one that is passed over and one whose reconcile begins.
LEMMA DueSecretKeeps ==
    ASSUME SecretInv, NEW x, RemoveSecret(x) \/ SkipSecret(x) \/ BeginSecret(x)
    PROVE  SecretInv'
<1>0. Due(x) /\ x.kind = "Secret"
  BY DEF RemoveSecret, SkipSecret, BeginSecret
<1>1. /\ x \in SecretIds /\ x \in DOMAIN api /\ x \notin DOMAIN work
      /\ "Secret" \in store.listed /\ KeyOf(api[x]) = KeyOf(x)
  BY <1>0, DueSecret
<1>2. IsStore(store)
  BY DEF SecretInv, TypeOK
<1>3. CASE RemoveSecret(x)
  <2>1. FilesApart(x)
    BY <1>1, <1>3, SecretParts DEF RemoveSecret
  <2>2. IsStore(store') /\ store'.listed = store.listed /\ store'.secrets = store.secrets \ {KeyOf(x)}
    BY <1>2, <1>3, SecretWrites DEF RemoveSecret
  <2>3. AboutSecret(x)
    BY <1>1, <1>3, <2>1, <2>2, SecretParts, SecretGaps DEF RemoveSecret, AboutSecret, Handled
  <2>4. SecretOK(x)'
    BY <1>1, <1>3, <2>2 DEF RemoveSecret, SecretOK, WorkFresh, NotBegun, OnDisk, KeyOf
  <2> QED
    BY <1>1, <2>3, <2>4, AboutSecretKeeps
<1>4. CASE SkipSecret(x)
  <2>1. gaps' = gaps \cup {<<"Secret", KeyOf(x)>>} /\ UNCHANGED <<api, store, work>>
    BY <1>1, <1>4 DEF SkipSecret
  <2>2. AboutSecret(x)
    BY <1>1, <1>2, <1>4, <2>1, SecretParts DEF SkipSecret, AboutSecret, Handled
  <2>3. SecretOK(x)'
    BY <1>1, <2>1 DEF SecretOK, WorkFresh, NotBegun, OnDisk, KeyOf
  <2> QED
    BY <1>1, <2>2, <2>3, AboutSecretKeeps
<1>5. CASE BeginSecret(x)
  <2>1. /\ work' = With(work, x, [pc |-> "crt", obj |-> api[x]])
        /\ UNCHANGED <<world, api, todo, timers, wakes, store, files, applied, running, gaps>>
    BY <1>5 DEF BeginSecret
  <2>2. AboutSecret(x)
    BY <1>1, <1>2, <1>5, <2>1, SecretParts DEF BeginSecret, AboutSecret, Handled
  <2>3. x \in DOMAIN work' /\ work'[x] = [pc |-> "crt", obj |-> api[x]]
    BY <2>1 DEF With
  <2>4. SecretOK(x)'
    BY <1>1, <2>1, <2>3 DEF SecretOK, WorkFresh, NotBegun, OnDisk, KeyOf
  <2> QED
    BY <1>1, <2>2, <2>4, AboutSecretKeeps
<1> QED
  BY <1>3, <1>4, <1>5

\* What a failed request leaves is retried, a Secret too.
LEMMA FailRequestKeeps ==
    ASSUME SecretInv, NEW id, NEW c, FailRequest(id, c)
    PROVE  SecretInv'
<1>0. /\ Due(id) /\ id \in DOMAIN api /\ id \in Ids /\ todo' \subseteq todo
      /\ Handled(id) /\ Requeue(id, "retry")
      /\ UNCHANGED <<world, api, wakes, work, files, applied, running, gaps>>
  BY DEF FailRequest, Happens, RetrySoon, Due, SecretInv, TypeOK
<1>1. CASE id.kind # "Secret"
  <2>1. id \notin SecretIds
    BY <1>1 DEF SecretIds
  <2>2. StoreApart
    BY WritesApart, Zenon DEF FailRequest
  <2>3. GapsApart
    BY <1>0 DEF GapsApart
  <2>4. Elsewhere(id)
    BY <1>0, <2>1, <2>2, <2>3, PartsApart DEF Elsewhere
  <2> QED
    BY <1>0, <1>1, <2>4, ElsewhereKeeps
<1>2. CASE id.kind = "Secret"
  <2>1. id \in SecretIds /\ id \notin DOMAIN work /\ "Secret" \in store.listed
    BY <1>0, <1>2, DueSecret
  <2>2. store' = store /\ IsStore(store)
    BY <1>2 DEF FailRequest, SecretInv, TypeOK
  <2>3. AboutSecret(id)
    BY <1>0, <2>1, <2>2, SecretParts DEF AboutSecret, Handled
  <2>4. id \in DOMAIN timers' /\ timers'[id] = "retry"
    BY <1>0 DEF Requeue, With
  <2>5. SecretOK(id)'
    BY <1>0, <2>1, <2>2, <2>4 DEF SecretOK, WorkFresh, NotBegun, OnDisk, KeyOf
  <2> QED
    BY <2>1, <2>3, <2>5, AboutSecretKeeps
<1> QED
  BY <1>1, <1>2

\* What holds of a Secret whose reconcile is under way.
LEMMA WorkedSecret ==
    ASSUME SecretInv, NEW x \in DOMAIN work, x.kind = "Secret"
    PROVE  /\ x \in SecretIds /\ SecretOK(x) /\ "Secret" \in store.listed
           /\ work[x] = [pc |-> work[x].pc, obj |-> work[x].obj]
<1>1. x \in SecretIds /\ SecretOK(x)
  BY DEF SecretInv, TypeOK, SecretIds
<1> QED
  BY <1>1 DEF SecretOK, NotBegun, WorkFresh

\* A pair read as a record, and one of its files replaced.
LEMMA Pairs ==
    ASSUME SecretInv, NEW path, NEW v
    PROVE  /\ PairAt(path) = [crt |-> PairAt(path).crt, key |-> PairAt(path).key]
           /\ [PairAt(path) EXCEPT !["crt"] = v] = [crt |-> v, key |-> PairAt(path).key]
           /\ [PairAt(path) EXCEPT !["key"] = v] = [crt |-> PairAt(path).crt, key |-> v]
           /\ Worlds[world].readonly => PairAt(path) = NoPair
<1>1. PairAt(path) = [crt |-> PairAt(path).crt, key |-> PairAt(path).key]
  BY DEF SecretInv, TypeOK, PairAt, NoPair
<1>2. Worlds[world].readonly => PairAt(path) = NoPair
  BY DEF SecretInv, TypeOK, PairAt
<1>3. \A p : p = [crt |-> p.crt, key |-> p.key] =>
         /\ [p EXCEPT !["crt"] = v] = [crt |-> v, key |-> p.key]
         /\ [p EXCEPT !["key"] = v] = [crt |-> p.crt, key |-> v]
  <2> TAKE p
  <2> HAVE p = [crt |-> p.crt, key |-> p.key]
  <2> DEFINE q == [p EXCEPT !["crt"] = v]
             r == [p EXCEPT !["key"] = v]
  <2>1. DOMAIN p = {"crt", "key"}
    OBVIOUS
  <2>2. q = [f \in {"crt", "key"} |-> IF f = "crt" THEN v ELSE p[f]]
    BY <2>1
  <2>3. r = [f \in {"crt", "key"} |-> IF f = "key" THEN v ELSE p[f]]
    BY <2>1
  <2> QED
    BY <2>2, <2>3
<1> QED
  BY <1>1, <1>2, <1>3, Zenon

\* The two writes: what is written is the object's, and stays until the check.
LEMMA WriteKeeps ==
    ASSUME SecretInv, NEW x, WriteCert(x) \/ WriteKey(x)
    PROVE  SecretInv'
<1>0. x \in DOMAIN work /\ x.kind = "Secret"
  BY DEF WriteCert, WriteKey
<1>1. /\ x \in SecretIds /\ SecretOK(x) /\ "Secret" \in store.listed
      /\ work[x] = [pc |-> work[x].pc, obj |-> work[x].obj]
  BY <1>0, WorkedSecret
<1>2. IsStore(store) /\ UNCHANGED <<world, api, todo, queue, timers, wakes, store, applied, running, gaps>>
  BY DEF SecretInv, TypeOK, WriteCert, WriteKey
<1>3. Unshared(x)' <=> Unshared(x)
  BY <1>2 DEF Unshared, SecretIds, SecretPath
<1> DEFINE path == SecretPath(x)
           old == PairAt(path)
<1>4. ASSUME NEW at \in {"key", "check"}, NEW crt, NEW key,
             work' = [work EXCEPT ![x] = [pc |-> at, obj |-> work[x].obj]],
             files' = IF Worlds[world].readonly THEN files ELSE With(files, path, [crt |-> crt, key |-> key]),
             Unshared(x) /\ ~Worlds[world].readonly => crt = work[x].obj.crt,
             at = "check" => key = work[x].obj.key
      PROVE  SecretInv'
  <2>1. WorkApart(x) /\ TimersApart(x) /\ FilesApart(x)
    BY <1>1, <1>2, <1>4, SecretParts
  <2>2. AboutSecret(x)
    BY <1>2, <2>1 DEF AboutSecret
  <2>3. x \in DOMAIN work' /\ work'[x] = [pc |-> at, obj |-> work[x].obj]
    BY <1>0, <1>4
  <2>4. ~Worlds[world].readonly => PairAt(path)' = [crt |-> crt, key |-> key]
    BY <1>2, <1>4 DEF PairAt, With, SecretPath
  <2>5. WorkFresh(x)'
    <3>1. x \in DOMAIN api' /\ x \notin queue' => work'[x].obj = api'[x]
      BY <1>0, <1>1, <1>2, <2>3 DEF SecretOK, WorkFresh
    <3>2. Unshared(x)' /\ ~Worlds[world].readonly =>
            PairAt(path)'.crt = work'[x].obj.crt /\ (at = "check" => PairAt(path)'.key = work'[x].obj.key)
      BY <1>3, <1>4, <2>3, <2>4
    <3> QED
      BY <1>2, <2>3, <3>1, <3>2 DEF WorkFresh
  <2>6. NotBegun(x)' /\ OnDisk(x)'
    BY <1>1, <1>2, <2>3 DEF NotBegun, OnDisk
  <2> QED
    BY <1>1, <2>2, <2>5, <2>6, AboutSecretKeeps DEF SecretOK
<1>5. CASE WriteCert(x)
  <2>1. /\ work' = [work EXCEPT ![x] = [pc |-> "key", obj |-> work[x].obj]]
        /\ files' = IF Worlds[world].readonly THEN files
                    ELSE With(files, path, [crt |-> work[x].obj.crt, key |-> old.key])
    <3>1. work' = [work EXCEPT ![x] = [work[x] EXCEPT !.pc = "key"]]
      BY <1>5 DEF WriteCert
    <3>2. [work[x] EXCEPT !.pc = "key"] = [pc |-> "key", obj |-> work[x].obj]
      BY <1>1
    <3>3. files' = IF Worlds[world].readonly THEN files
                   ELSE With(files, path, [old EXCEPT !["crt"] = work[x].obj.crt])
      BY <1>5, Zenon DEF WriteCert, write_tls_file
    <3>4. [old EXCEPT !["crt"] = work[x].obj.crt] = [crt |-> work[x].obj.crt, key |-> old.key]
      BY Pairs, Zenon
    <3> QED
      BY <3>1, <3>2, <3>3, <3>4, Zenon
  <2> QED
    BY <2>1, <1>4
<1>6. CASE WriteKey(x)
  <2>1. /\ work' = [work EXCEPT ![x] = [pc |-> "check", obj |-> work[x].obj]]
        /\ files' = IF Worlds[world].readonly THEN files
                    ELSE With(files, path, [crt |-> old.crt, key |-> work[x].obj.key])
    <3>1. work' = [work EXCEPT ![x] = [work[x] EXCEPT !.pc = "check"]]
      BY <1>6 DEF WriteKey
    <3>2. [work[x] EXCEPT !.pc = "check"] = [pc |-> "check", obj |-> work[x].obj]
      BY <1>1
    <3>3. files' = IF Worlds[world].readonly THEN files
                   ELSE With(files, path, [old EXCEPT !["key"] = work[x].obj.key])
      BY <1>6, Zenon DEF WriteKey, write_tls_file
    <3>4. [old EXCEPT !["key"] = work[x].obj.key] = [crt |-> old.crt, key |-> work[x].obj.key]
      BY Pairs, Zenon
    <3> QED
      BY <3>1, <3>2, <3>3, <3>4, Zenon
  <2>2. Unshared(x) /\ ~Worlds[world].readonly => old.crt = work[x].obj.crt
    BY <1>0, <1>1, <1>6 DEF WriteKey, SecretOK, WorkFresh
  <2> QED
    BY <2>1, <2>2, <1>4
<1> QED
  BY <1>5, <1>6

\* The end of a reconcile, well or badly.
LEMMA EndKeeps ==
    ASSUME SecretInv, NEW x, CheckPair(x) \/ \E c : FailWrite(x, c)
    PROVE  SecretInv'
<1>0. x \in DOMAIN work /\ x.kind = "Secret"
  BY DEF CheckPair, FailWrite
<1>1. /\ x \in SecretIds /\ SecretOK(x) /\ "Secret" \in store.listed
      /\ work[x] = [pc |-> work[x].pc, obj |-> work[x].obj]
  BY <1>0, WorkedSecret
<1>2. IsStore(store)
  BY DEF SecretInv, TypeOK
<1> DEFINE path == SecretPath(x)
           good == ValidPair(PairAt(path))
<1>3. CASE \E c : FailWrite(x, c)
  <2>1. EndSecret(x, "retry") /\ todo' \subseteq todo /\ UNCHANGED <<store, files, gaps>>
    BY <1>3 DEF FailWrite, Happens
  <2>2. /\ work' = Without(work, x) /\ UNCHANGED <<world, api, queue>>
        /\ Requeue(x, "retry")
    BY <2>1 DEF EndSecret
  <2>3. AboutSecret(x)
    BY <1>1, <1>2, <2>1, <2>2, SecretParts DEF AboutSecret
  <2>4. x \notin DOMAIN work' /\ x \in DOMAIN timers' /\ timers'[x] = "retry"
    BY <2>2 DEF Without, Requeue, With
  <2>5. SecretOK(x)'
    BY <1>1, <2>1, <2>2, <2>4 DEF SecretOK, WorkFresh, NotBegun, OnDisk
  <2> QED
    BY <1>1, <2>3, <2>5, AboutSecretKeeps
<1>4. CASE CheckPair(x)
  <2>1. /\ work' = Without(work, x) /\ UNCHANGED <<world, api, queue, todo>>
        /\ \E why : Requeue(x, why)
        /\ TakenIn(x)
    BY <1>4, Zenon DEF CheckPair, EndSecret
  <2>2. /\ store' = IF good THEN upsert_tls_secret(store, KeyOf(x)) ELSE remove_tls_secret(store, KeyOf(x))
        /\ files' = IF good \/ Worlds[world].readonly THEN files ELSE Without(files, path)
        /\ work[x].pc = "check"
    BY <1>4, Zenon DEF CheckPair
  <2>3. /\ IsStore(store') /\ store'.listed = store.listed
        /\ store'.secrets = IF good THEN store.secrets \cup {KeyOf(x)} ELSE store.secrets \ {KeyOf(x)}
    BY <1>2, <2>2, SecretWrites
  <2>4. FilesApart(x)
    BY <1>1, <2>2, SecretParts
  <2>5. AboutSecret(x)
    BY <1>1, <2>1, <2>3, <2>4, SecretParts, SecretGaps DEF AboutSecret
  <2>6. x \notin DOMAIN work'
    BY <2>1 DEF Without
  <2>7. OnDisk(x)'
    <3>1. SUFFICES ASSUME x \in DOMAIN api, good, x \notin queue, Unshared(x)'
                   PROVE  PairAt(path)' = [crt |-> api[x].crt, key |-> api[x].key]
      BY <2>1, <2>3 DEF OnDisk, KeyOf, SecretPath
    <3>2. Unshared(x)
      BY <2>1, <3>1 DEF Unshared, SecretIds, SecretPath
    <3>3. ~Worlds[world].readonly
      <4>1. Worlds[world].readonly => PairAt(path) = NoPair
        BY Pairs
      <4>2. ~ValidPair(NoPair)
        BY DEF ValidPair, NoPair
      <4> QED
        BY <3>1, <4>1, <4>2
    <3>4. PairAt(path).crt = api[x].crt /\ PairAt(path).key = api[x].key
      BY <1>0, <1>1, <2>2, <3>1, <3>2, <3>3 DEF SecretOK, WorkFresh
    <3>5. PairAt(path)' = PairAt(path)
      BY <2>2, <3>1 DEF PairAt, SecretPath
    <3> QED
      BY <3>4, <3>5, Pairs
  <2>8. SecretOK(x)'
    BY <1>1, <2>1, <2>3, <2>6, <2>7 DEF SecretOK, WorkFresh, NotBegun
  <2> QED
    BY <1>1, <2>5, <2>8, AboutSecretKeeps
<1> QED
  BY <1>3, <1>4

----------------------------------------------------------------------------
(* The theorem.                                                            *)

\* Nothing is queued, under way or stored at first.
LEMMA InitSecretInv ==
    ASSUME Init
    PROVE  SecretInv
<1> USE DEF Init
<1>1. TypeOK
  <2>1. ASSUME NEW id \in DOMAIN api
        PROVE  IsObject(api[id]) /\ IdOf(api[id]) = id /\ id \in Ids
    <3>1. api[id] \in Worlds[world].start /\ IdOf(api[id]) = id
      OBVIOUS
    <3>2. api[id] \in Objects(Worlds[world])
      BY <3>1 DEF Objects
    <3> QED
      BY <3>1, <3>2, WorldsAssumption DEF IsObject, Ids
  <2>2. DOMAIN work = {} /\ DOMAIN timers = {} /\ DOMAIN files = {} /\ queue = {}
    OBVIOUS
  <2>3. IsStore(store) /\ world \in DOMAIN Worlds /\ todo \subseteq Worlds[world].changes
    BY FreshStoreParts
  <2> QED
    BY <2>1, <2>2, <2>3 DEF TypeOK
<1>2. ASSUME NEW id \in SecretIds
      PROVE  SecretOK(id)
  BY FreshStoreParts DEF SecretOK, WorkFresh, NotBegun, OnDisk
<1> QED
  BY <1>1, <1>2 DEF SecretInv

\* Every reconcile keeps it.
LEMMA ReconcileKeeps ==
    ASSUME SecretInv, NEW id \in queue \cup DOMAIN work, Reconcile(id)
    PROVE  SecretInv'
<1>0. id \in Ids
  BY DEF SecretInv, TypeOK
<1>1. CASE \/ ReconcileGrant(id) \/ ReconcileClass(id) \/ ReconcileService(id)
           \/ SkipSlice(id) \/ ListSlices(id) \/ StoreEndpoints(id)
  BY <1>0, <1>1, SmallElsewhere, ElsewhereKeeps
<1>2. CASE \/ RemoveRoute(id)
           \/ reconcile_httproute(id) \/ reconcile_tcproute(id) \/ reconcile_tlsroute(id)
           \/ StoreHttpRoute(id) \/ StoreTcpRoute(id) \/ StoreTlsRoute(id)
  <2>1. id.kind \in Routes /\ (RemoveRoute(id) \/ JudgeRoute(id) \/ StoreRoute(id))
    BY <1>2, RouteKindsAre DEF RemoveRoute, reconcile_httproute, reconcile_tcproute, reconcile_tlsroute,
       StoreHttpRoute, StoreTcpRoute, StoreTlsRoute
  <2> QED
    BY <1>0, <2>1, RoutesElsewhere, ElsewhereKeeps
<1>3. CASE RemoveSecret(id) \/ SkipSecret(id) \/ BeginSecret(id)
  BY <1>3, DueSecretKeeps
<1>4. CASE WriteCert(id) \/ WriteKey(id)
  BY <1>4, WriteKeeps
<1>5. CASE CheckPair(id)
  BY <1>5, EndKeeps
<1>6. CASE LeaveGateway(id) \/ reconcile_gateway(id)
  BY <1>0, <1>6, GatewaysElsewhere, ElsewhereKeeps
<1> QED
  BY <1>1, <1>2, <1>3, <1>4, <1>5, <1>6, Zenon DEF Reconcile

\* Every step keeps it.
LEMMA NextSecretInv ==
    ASSUME SecretInv, [Next]_vars
    PROVE  SecretInv'
<1>1. CASE Start
  BY <1>1, StartKeeps
<1>2. CASE Resync
  BY <1>2, ResyncKeeps
<1>3. CASE (\E o \in wakes : LookUp(o)) \/ (\E id \in DOMAIN applied : LoadConfig(id))
  BY <1>3, WatchesKeep
<1>4. CASE \E id \in queue \cup DOMAIN work : Reconcile(id)
  BY <1>4, ReconcileKeeps
<1>5. CASE \E c \in todo : Put(c) \/ Delete(c) \/ Restart(c) \/ FailList(c)
  <2>1. PICK c \in todo : Put(c) \/ Delete(c) \/ Restart(c) \/ FailList(c)
    BY <1>5
  <2>2. CASE Put(c)
    BY <2>2, PutKeeps
  <2>3. CASE Delete(c)
    BY <2>3, GoneKeeps DEF Delete, Happens
  <2>4. CASE Restart(c)
    BY <2>4, RestartKeeps
  <2>5. CASE FailList(c)
    BY <2>5, FailListKeeps
  <2> QED
    BY <2>1, <2>2, <2>3, <2>4, <2>5
<1>6. CASE \E c \in todo, id \in queue \cup DOMAIN work : FailRequest(id, c) \/ FailWrite(id, c)
  BY <1>6, FailRequestKeeps, EndKeeps, Zenon
<1>7. CASE \E id \in DOMAIN api : Vanish(id)
  BY <1>7, GoneKeeps DEF Vanish
<1>8. CASE UNCHANGED vars
  <2>1. TypeOK'
    BY <1>8 DEF vars, SecretInv, TypeOK, IsStore
  <2>2. \A id \in SecretIds : Same(id)
    BY <1>8 DEF vars, Same, PairAt
  <2>3. \A id \in SecretIds : SecretOK(id)'
    BY <1>8, <2>2, SameKeeps DEF SecretInv, vars
  <2> QED
    BY <2>1, <2>3 DEF SecretInv, SecretIds
<1> QED
  BY <1>1, <1>2, <1>3, <1>4, <1>5, <1>6, <1>7, <1>8, Zenon DEF Next

\* It says what is claimed: a Secret is known by its id, and its id says its key and its path.
LEMMA SecretInvImplies ==
    ASSUME SecretInv
    PROVE  SecretsOnDisk
<1>1. SUFFICES ASSUME NEW id \in DOMAIN api, id.kind = "Secret",
                      "Secret" \in store.listed, KeyOf(api[id]) \in store.secrets,
                      ~\E x \in Ids : x.kind = "Secret" /\ x # id /\ SecretPath(x) = SecretPath(id)
               PROVE  \/ id \in queue \/ id \in DOMAIN work
                      \/ id \in DOMAIN timers /\ timers[id] = "retry"
                      \/ <<"Secret", KeyOf(api[id])>> \in gaps
                      \/ PairAt(SecretPath(api[id])) = [crt |-> api[id].crt, key |-> api[id].key]
  BY Zenon DEF SecretInv, TypeOK, SecretsOnDisk, Live
<1>2. id \in SecretIds /\ IdOf(api[id]) = id
  BY <1>1 DEF SecretInv, TypeOK, SecretIds
<1>3. KeyOf(api[id]) = KeyOf(id) /\ SecretPath(api[id]) = SecretPath(id)
  <2>1. id.ns = api[id].ns /\ id.name = api[id].name
    BY <1>2 DEF IdOf
  <2> QED
    BY <2>1 DEF KeyOf, SecretPath
<1>4. Unshared(id)
  BY <1>1 DEF Unshared, SecretIds
<1>5. OnDisk(id)
  BY <1>2 DEF SecretInv, SecretOK
<1> QED
  BY <1>1, <1>3, <1>4, <1>5 DEF OnDisk

(***************************************************************************)
(* For any worlds, in any order of edits, deletions, faults and restarts:  *)
(* a Secret the store offers to the planner has its own pair on disk, the  *)
(* one the API server has, unless its reconcile is due, under way or about *)
(* to be retried, or it was passed over.                                   *)
(***************************************************************************)
THEOREM SecretPairsOnDisk == Spec => []SecretsOnDisk
<1>1. Init => SecretInv
  BY InitSecretInv
<1>2. SecretInv /\ [Next]_vars => SecretInv'
  BY NextSecretInv
<1>3. SecretInv => SecretsOnDisk
  BY SecretInvImplies
<1> QED
  BY <1>1, <1>2, <1>3, PTL DEF Spec

(***************************************************************************)
(* For any worlds: every id that is queued, under way or in the API server *)
(* names an object of the world, the queue holds none that is gone, and a  *)
(* directory that cannot be written stays empty.                           *)
(***************************************************************************)
THEOREM ControlPlaneTypeCorrect == Spec => []TypeOK
<1>1. Init => SecretInv
  BY InitSecretInv
<1>2. SecretInv /\ [Next]_vars => SecretInv'
  BY NextSecretInv
<1>3. SecretInv => TypeOK
  BY DEF SecretInv
<1> QED
  BY <1>1, <1>2, <1>3, PTL DEF Spec

----------------------------------------------------------------------------
(* The store and the API server.                                           *)

KeptIds == {id \in Ids : id.kind \in Routes \cup {"GatewayClass", "Gateway", "ReferenceGrant"}}

\* Some event of the object was passed over.
Missed(id) == <<id.kind, KeyOf(id)>> \in gaps

\* Before its kind is listed nothing is known of an object.
Unknown(id) ==
    id.kind \notin store.listed =>
        /\ id \notin queue /\ id \notin DOMAIN work /\ id \notin DOMAIN timers
        /\ id \notin DOMAIN store.objects

\* What is about to be stored is the route the API server has, unless it is
\* queued again or gone, which is noted.
JudgedFresh(id) ==
    id \in DOMAIN work =>
        /\ id.kind \in Routes /\ IdOf(work[id]) = id /\ ~work[id].leaving
        /\ id \in DOMAIN api /\ id \notin queue => work[id] = api[id]
        /\ id \notin DOMAIN api => Missed(id)

\* An object whose leaving was taken in waits for nothing but its end.
LeavingQuiet(id) ==
    id \in DOMAIN api /\ api[id].leaving /\ id \notin queue =>
        id \notin DOMAIN work /\ (id \in DOMAIN timers => timers[id] # "retry")

\* One that is gone has left the store, or its going was missed.
GoneIsGone(id) == id \notin DOMAIN api => Missed(id) \/ id \notin DOMAIN store.objects

\* The claim for one object.
Agrees(id) ==
    IF id \in DOMAIN api /\ Belongs(api[id])
    THEN id \in DOMAIN store.objects /\ store.objects[id] = api[id]
    ELSE id \notin DOMAIN store.objects

KeptOK(id) ==
    Unknown(id) /\ JudgedFresh(id) /\ LeavingQuiet(id) /\ GoneIsGone(id) /\ (Settled(id) => Agrees(id))

\* Only objects of the world come to be.
OfWorld == \A id \in DOMAIN api : id.kind \in Kinds(Objects(Worlds[world]))

StoreInv == SecretInv /\ OfWorld /\ \A id \in KeptIds : KeptOK(id)

\* A step that leaves an object alone, or at most queues it.
Spared(id) ==
    /\ (id \in DOMAIN api' <=> id \in DOMAIN api) /\ (id \in DOMAIN api => api'[id] = api[id])
    /\ (id \in queue => id \in queue') /\ (id \in queue' => id \in queue \/ id.kind \in store.listed)
    /\ (id \in DOMAIN work' <=> id \in DOMAIN work) /\ (id \in DOMAIN work => work'[id] = work[id])
    /\ (id \in DOMAIN timers' <=> id \in DOMAIN timers) /\ (id \in DOMAIN timers => timers'[id] = timers[id])
    /\ Missed(id) => <<id.kind, KeyOf(id)>> \in gaps'
    /\ id \in DOMAIN store'.objects <=> id \in DOMAIN store.objects
    /\ id \in DOMAIN store.objects => store'.objects[id] = store.objects[id]
    /\ id.kind \in store'.listed <=> id.kind \in store.listed

\* A step that is about x, as far as the store is concerned.
Aside(x) == \A id \in KeptIds : id # x => Spared(id)

\* What holds of an object holds after a step that leaves it alone.
LEMMA SparedKeeps ==
    ASSUME NEW id \in KeptIds, KeptOK(id), Spared(id)
    PROVE  KeptOK(id)'
<1> USE DEF KeptOK, Spared
<1>1. Unknown(id)'
  BY DEF Unknown
<1>2. JudgedFresh(id)'
  BY DEF JudgedFresh, Missed, IdOf, KeyOf
<1>3. LeavingQuiet(id)'
  BY DEF LeavingQuiet
<1>4. GoneIsGone(id)'
  BY DEF GoneIsGone, Missed, KeyOf
<1>5. ASSUME Settled(id)'
      PROVE  Agrees(id)'
  <2>1. Settled(id)
    BY <1>5 DEF Settled, Missed, KeyOf
  <2>2. Agrees(id)
    BY <2>1
  <2>3. id \in DOMAIN api => (Belongs(api[id])' <=> Belongs(api[id]))
    BY DEF Belongs, IsRoute, is_wicket_managed, parents_accepted_by_wicket, IsAttached
  <2> QED
    BY <2>2, <2>3 DEF Agrees
<1> QED
  BY <1>1, <1>2, <1>3, <1>4, <1>5

\* So a step needs to be looked at for the one it is about.
LEMMA AsideKeeps ==
    ASSUME StoreInv, SecretInv', world' = world, DOMAIN api' \subseteq DOMAIN api,
           NEW x, Aside(x), x \in KeptIds => KeptOK(x)'
    PROVE  StoreInv'
<1>1. \A id \in KeptIds : KeptOK(id)'
  BY SparedKeeps DEF StoreInv, Aside
<1>2. OfWorld'
  BY DEF StoreInv, OfWorld, Kinds, Objects
<1> QED
  BY <1>1, <1>2 DEF StoreInv, KeptIds

\* An id is its kind, its namespace and its name.
LEMMA IdsDiffer ==
    ASSUME NEW x \in Ids, NEW y \in Ids, x.kind = y.kind, KeyOf(x) = KeyOf(y)
    PROVE  x = y
<1>1. \A id \in Ids : id = [kind |-> id.kind, ns |-> id.ns, name |-> id.name]
  BY DEF Ids, IdOf
<1> QED
  BY <1>1 DEF KeyOf

\* What a step about x does to the queue, the objects of the store and the gaps.
QueueGrows(x) ==
    \A id : id # x => (id \in queue => id \in queue') /\ (id \in queue' => id \in queue \/ id.kind \in store.listed)

ObjectsApart(x) ==
    \A id : id # x => /\ id \in DOMAIN store'.objects <=> id \in DOMAIN store.objects
                      /\ id \in DOMAIN store.objects => store'.objects[id] = store.objects[id]

MissedApart(x) == \A id \in KeptIds : id # x /\ Missed(id) => <<id.kind, KeyOf(id)>> \in gaps'

\* The parts make the whole.
LEMMA PartsAside ==
    ASSUME NEW x, ApiApart(x) \/ UNCHANGED api, WorkApart(x), TimersApart(x), store'.listed = store.listed,
           QueueGrows(x), ObjectsApart(x), MissedApart(x)
    PROVE  Aside(x)
  BY DEF Aside, Spared, ApiApart, WorkApart, TimersApart, QueueGrows, ObjectsApart, MissedApart

\* Every write of the store leaves the objects, or changes one.
LEMMA ObjectWrites ==
    ASSUME NEW s, IsStore(s), NEW x, NEW o, IdOf(o) = x, NEW key, NEW addrs
    PROVE  /\ upsert(s, o).objects = With(s.objects, x, o)
           /\ remove(s, x).objects = Without(s.objects, x)
           /\ upsert_service_presence(s, key).objects = s.objects
           /\ upsert_endpoints(s, key, addrs).objects = s.objects
           /\ upsert_tls_secret(s, key).objects = s.objects
           /\ remove_tls_secret(s, key).objects = s.objects
<1>1. \A v : /\ [s EXCEPT !.objects = v].objects = v
             /\ [s EXCEPT !.present = v].objects = s.objects
             /\ [s EXCEPT !.endpoints = v].objects = s.objects
             /\ [s EXCEPT !.secrets = v].objects = s.objects
  BY DEF IsStore
<1>2. upsert(s, o).objects = With(s.objects, x, o) /\ remove(s, x).objects = Without(s.objects, x)
  BY <1>1, Zenon DEF upsert, remove
<1>3. /\ upsert_service_presence(s, key).objects = s.objects
      /\ upsert_endpoints(s, key, addrs).objects = s.objects
  BY <1>1, Zenon DEF upsert_service_presence, upsert_endpoints
<1>4. upsert_tls_secret(s, key).objects = s.objects /\ remove_tls_secret(s, key).objects = s.objects
  BY <1>1, Zenon DEF upsert_tls_secret, remove_tls_secret
<1> QED
  BY <1>2, <1>3, <1>4

\* A map that differs at x only.
LEMMA OneApart ==
    ASSUME NEW x, NEW o,
           store'.objects \in {store.objects, With(store.objects, x, o), Without(store.objects, x)}
    PROVE  ObjectsApart(x)
  BY DEF ObjectsApart, With, Without

\* Gaps of one kind and key are the gaps of one object.
LEMMA GapsOfOne ==
    ASSUME NEW x \in Ids, NEW kind, NEW key,
           gaps' \in {gaps, gaps \ {<<kind, key>>}, gaps \cup {<<kind, key>>}},
           kind = x.kind, x \in KeptIds => key = KeyOf(x)
    PROVE  MissedApart(x)
<1>1. ASSUME NEW id \in KeptIds, id # x
      PROVE  <<id.kind, KeyOf(id)>> # <<kind, key>>
  <2>1. id.kind = x.kind => x \in KeptIds
    BY DEF KeptIds
  <2> QED
    BY <1>1, <2>1, IdsDiffer DEF KeptIds
<1> QED
  BY <1>1 DEF MissedApart, Missed

\* TakenIn is of this form.
LEMMA TakenInAside ==
    ASSUME TypeOK, NEW x \in Ids, TakenIn(x)
    PROVE  MissedApart(x) /\ (x \in KeptIds /\ x \notin DOMAIN api => gaps' = gaps)
<1>1. x \in DOMAIN api /\ x \in KeptIds => WatchKey(api[x]) = KeyOf(x)
  BY RouteKindsAre DEF TypeOK, KeptIds, WatchKey, KeyOf, IdOf
<1>2. CASE x \in DOMAIN api
  BY <1>1, <1>2, GapsOfOne DEF TakenIn
<1>3. CASE x \notin DOMAIN api
  BY <1>3 DEF TakenIn, MissedApart, Missed
<1> QED
  BY <1>2, <1>3

\* What holds of an object that is due.
LEMMA DueKept ==
    ASSUME StoreInv, NEW x, Due(x)
    PROVE  /\ x \in Ids /\ x \in DOMAIN api /\ x \notin DOMAIN work
           /\ IsObject(api[x]) /\ IdOf(api[x]) = x /\ KeyOf(api[x]) = KeyOf(x)
           /\ x \in KeptIds => KeptOK(x) /\ x.kind \in store.listed
<1>1. /\ x \in Ids /\ x \in DOMAIN api /\ x \notin DOMAIN work /\ x \in queue
      /\ IsObject(api[x]) /\ IdOf(api[x]) = x
  BY DEF Due, StoreInv, SecretInv, TypeOK
<1>2. KeyOf(api[x]) = KeyOf(x)
  BY <1>1 DEF KeyOf, IdOf
<1>3. x \in KeptIds => KeptOK(x) /\ x.kind \in store.listed
  BY <1>1 DEF StoreInv, KeptOK, Unknown
<1> QED
  BY <1>1, <1>2, <1>3

\* The timer of x, the queue without x, and the timer that is dropped.
LEMMA QueueAside ==
    ASSUME NEW x
    PROVE  /\ Handled(x) \/ UNCHANGED queue => QueueGrows(x)
           /\ Handled(x) => x \notin queue'
           /\ AwaitChange(x) => x \notin DOMAIN timers'
           /\ \A why : Requeue(x, why) => x \in DOMAIN timers' /\ timers'[x] = why
<1>1. Handled(x) \/ UNCHANGED queue => QueueGrows(x)
  BY DEF Handled, QueueGrows
<1>2. Handled(x) => x \notin queue'
  BY DEF Handled
<1>3. AwaitChange(x) => x \notin DOMAIN timers'
  BY DEF AwaitChange, Without
<1>4. \A why : Requeue(x, why) => x \in DOMAIN timers' /\ timers'[x] = why
  BY DEF Requeue, With
<1> QED
  BY <1>1, <1>2, <1>3, <1>4

\* A reconcile that ends with the object in the store, or out of it.
LEMMA EndsAgreed ==
    ASSUME NEW x, x \in DOMAIN api', x.kind \in store'.listed, x \notin DOMAIN work',
           api'[x].leaving => (x \in queue' \/ (x \in DOMAIN timers' => timers'[x] # "retry")),
           \/ x \in queue'
           \/ x \in DOMAIN timers' /\ timers'[x] = "retry"
           \/ <<x.kind, KeyOf(x)>> \in gaps'
           \/ Agrees(x)'
    PROVE  KeptOK(x)'
<1>1. Unknown(x)' /\ JudgedFresh(x)' /\ LeavingQuiet(x)' /\ GoneIsGone(x)'
  BY DEF Unknown, JudgedFresh, LeavingQuiet, GoneIsGone
<1>2. Settled(x)' => Agrees(x)'
  BY DEF Settled, KeyOf
<1> QED
  BY <1>1, <1>2 DEF KeptOK

\* In the store as it is, and out of it.
LEMMA AgreesIf ==
    ASSUME NEW x
    PROVE  /\ x \in DOMAIN api' /\ Belongs(api'[x]) /\ store'.objects = With(store.objects, x, api'[x]) => Agrees(x)'
           /\ (x \in DOMAIN api' => ~Belongs(api'[x])) /\ store'.objects = Without(store.objects, x) => Agrees(x)'
           /\ (x \in DOMAIN api' => ~Belongs(api'[x])) /\ x \notin DOMAIN store'.objects => Agrees(x)'
<1>0. Belongs(api'[x]) <=> Belongs(api[x])'
  BY DEF Belongs, IsRoute, is_wicket_managed, parents_accepted_by_wicket, IsAttached
<1> QED
  BY <1>0 DEF Agrees, With, Without

\* The reconcile of a grant.
LEMMA GrantStores ==
    ASSUME StoreInv, SecretInv', NEW x, ReconcileGrant(x)
    PROVE  StoreInv'
<1>0. Due(x) /\ x.kind = "ReferenceGrant" /\ UNCHANGED <<world, api, todo, wakes, work, files, applied, running>>
  BY DEF ReconcileGrant
<1>1. /\ x \in Ids /\ x \in DOMAIN api /\ x \notin DOMAIN work /\ IdOf(api[x]) = x
      /\ x \in KeptIds /\ x.kind \in store.listed /\ IsStore(store)
  BY <1>0, DueKept DEF KeptIds, StoreInv, SecretInv, TypeOK
<1>2. Elsewhere(x)
  BY <1>1, SmallElsewhere DEF StoreInv
<1>3. store'.objects = IF api[x].leaving THEN Without(store.objects, x) ELSE With(store.objects, x, api[x])
  BY <1>1, ObjectWrites DEF ReconcileGrant
<1>4. Aside(x)
  BY <1>1, <1>2, <1>3, OneApart, TakenInAside, QueueAside, PartsAside
     DEF ReconcileGrant, Elsewhere, StoreApart, StoreInv, SecretInv
<1>5. Belongs(api[x]) <=> ~api[x].leaving
  BY <1>0, <1>1, RouteKindsAre DEF Belongs, IsRoute, IdOf, Routes
<1>6. Agrees(x)'
  BY <1>0, <1>1, <1>3, <1>5, AgreesIf
<1>7. KeptOK(x)'
  <2>1. api[x].leaving => x \notin DOMAIN timers'
    BY QueueAside DEF ReconcileGrant
  <2> QED
    BY <1>0, <1>1, <1>2, <1>6, <2>1, EndsAgreed DEF Elsewhere, StoreApart
<1> QED
  BY <1>0, <1>4, <1>7, AsideKeeps

\* The reconcile of a class.
LEMMA ClassStores ==
    ASSUME StoreInv, SecretInv', NEW x, ReconcileClass(x)
    PROVE  StoreInv'
<1> DEFINE c == api[x]
           ours == is_wicket_managed(c) /\ ~c.leaving
<1>0. Due(x) /\ x.kind = "GatewayClass" /\ UNCHANGED <<world, todo, wakes, work, files, applied, running>>
  BY DEF ReconcileClass
<1>1. /\ x \in Ids /\ x \in DOMAIN api /\ x \notin DOMAIN work /\ IdOf(c) = x /\ IsObject(c)
      /\ x \in KeptIds /\ x.kind \in store.listed /\ IsStore(store) /\ KeyOf(c) = KeyOf(x) /\ KeptOK(x)
  BY <1>0, DueKept DEF KeptIds, StoreInv, SecretInv, TypeOK
<1>2. Elsewhere(x)
  BY <1>1, SmallElsewhere DEF StoreInv
<1>3. store'.objects = IF c.leaving THEN Without(store.objects, x)
                       ELSE IF ours THEN With(store.objects, x, c) ELSE store.objects
  BY <1>1, ObjectWrites DEF ReconcileClass
<1>4. Aside(x)
  <2>1. MissedApart(x)
    BY <1>0, <1>1, GapsOfOne DEF ReconcileClass
  <2>2. QueueGrows(x)
    BY DEF ReconcileClass, QueueGrows
  <2>3. ObjectsApart(x)
    BY <1>3, OneApart
  <2> QED
    BY <1>2, <2>1, <2>2, <2>3, PartsAside DEF Elsewhere, StoreApart
<1>5. Belongs(c) <=> ours
  BY <1>0, <1>1, RouteKindsAre DEF Belongs, IdOf, IsRoute, Routes, is_wicket_managed
<1>6. KeptOK(x)'
  <2>1. CASE ours
    <3>1. api' = [api EXCEPT ![x].accepted = TRUE] /\ x \in DOMAIN api' /\ api'[x] = [c EXCEPT !.accepted = TRUE]
      BY <1>1, <2>1 DEF ReconcileClass
    <3>2. ~api'[x].leaving
      BY <1>1, <2>1, <3>1 DEF IsObject
    <3>3. api' # api => x \in queue'
      BY DEF ReconcileClass
    <3>4. api' = api => Agrees(x)'
      BY <1>1, <1>3, <1>5, <2>1, AgreesIf
    <3>5. x \in queue' \/ Agrees(x)'
      BY <3>3, <3>4
    <3>6. x \in DOMAIN api' /\ x \notin DOMAIN work' /\ x.kind \in store'.listed
      BY <1>0, <1>1, <1>2, <3>1 DEF Elsewhere, StoreApart
    <3> QED
      BY <3>2, <3>5, <3>6, EndsAgreed
  <2>2. CASE ~ours
    <3>1. api' = api /\ x \notin DOMAIN timers'
      BY <2>2, QueueAside DEF ReconcileClass
    <3>2. x \in DOMAIN store'.objects => <<x.kind, KeyOf(x)>> \in gaps'
      <4>1. CASE c.leaving
        BY <1>3, <4>1 DEF Without
      <4>2. CASE ~c.leaving
        BY <1>1, <1>3, <2>2, <4>2 DEF ReconcileClass
      <4> QED
        BY <4>1, <4>2
    <3>3. x \notin DOMAIN store'.objects => Agrees(x)'
      BY <1>5, <2>2, <3>1, AgreesIf
    <3> QED
      BY <1>0, <1>1, <1>2, <3>1, <3>2, <3>3, EndsAgreed DEF Elsewhere, StoreApart
  <2> QED
    BY <2>1, <2>2
<1>7. DOMAIN api' = DOMAIN api
  BY <1>2 DEF Elsewhere, ApiApart
<1> QED
  BY <1>0, <1>4, <1>6, <1>7, AsideKeeps

\* The write of a route into the store, and what it means that it changes nothing.
LEMMA WrittenObjects ==
    ASSUME NEW s, IsStore(s), NEW r
    PROVE  /\ Written(s, r).objects = IF parents_accepted_by_wicket(r.status)
                                      THEN With(s.objects, IdOf(r), r) ELSE Without(s.objects, IdOf(r))
           /\ Written(s, r) = s => s.objects = Written(s, r).objects
<1>1. /\ upsert(s, r).objects = With(s.objects, IdOf(r), r)
      /\ remove(s, IdOf(r)).objects = Without(s.objects, IdOf(r))
  BY ObjectWrites
<1> QED
  BY <1>1, Zenon DEF Written

\* The reconcile of a route that is leaving.
LEMMA RemoveRouteStores ==
    ASSUME StoreInv, SecretInv', NEW x, x.kind \in Routes, RemoveRoute(x)
    PROVE  StoreInv'
<1>0. Due(x) /\ api[x].leaving /\ UNCHANGED <<world, api, todo, wakes, work, files, applied, running>>
  BY DEF RemoveRoute
<1>1. /\ x \in Ids /\ x \in DOMAIN api /\ x \notin DOMAIN work /\ IdOf(api[x]) = x
      /\ x \in KeptIds /\ x.kind \in store.listed /\ IsStore(store)
  BY <1>0, DueKept DEF KeptIds, StoreInv, SecretInv, TypeOK
<1>2. Elsewhere(x)
  BY <1>1, RoutesElsewhere DEF StoreInv
<1>3. store'.objects = Without(store.objects, x)
  BY <1>1, ObjectWrites DEF RemoveRoute
<1>4. Aside(x)
  BY <1>1, <1>2, <1>3, OneApart, TakenInAside, QueueAside, PartsAside
     DEF RemoveRoute, Elsewhere, StoreApart, StoreInv, SecretInv
<1>5. Agrees(x)'
  BY <1>0, <1>3, AgreesIf DEF Belongs
<1>6. KeptOK(x)'
  <2>1. x \notin DOMAIN timers'
    BY QueueAside DEF RemoveRoute
  <2> QED
    BY <1>0, <1>1, <1>2, <1>5, <2>1, EndsAgreed DEF Elsewhere, StoreApart
<1> QED
  BY <1>0, <1>4, <1>6, AsideKeeps

\* The verdict on a route: patched, and stored at once or later.
LEMMA JudgeRouteStores ==
    ASSUME StoreInv, SecretInv', NEW x, x.kind \in Routes, JudgeRoute(x)
    PROVE  StoreInv'
<1> DEFINE r == api[x]
           judged == [r EXCEPT !.status = StatusFor(r)]
           same == Written(store, judged) = store
<1>0. /\ Due(x) /\ ~r.leaving
      /\ api' = [api EXCEPT ![x] = judged]
      /\ queue' = (queue \ {x}) \cup (IF judged = r THEN {} ELSE Notified(Touched(r)))
      /\ work' = IF same THEN work ELSE With(work, x, judged)
      /\ timers' = IF same THEN With(timers, x, "resync") ELSE timers
      /\ UNCHANGED <<world, todo, wakes, store, files, applied, running, gaps>>
  BY Zenon DEF JudgeRoute
<1>1. /\ x \in Ids /\ x \in DOMAIN api /\ x \notin DOMAIN work /\ IdOf(r) = x /\ IsObject(r)
      /\ x \in KeptIds /\ x.kind \in store.listed /\ IsStore(store) /\ KeptOK(x)
  BY <1>0, DueKept DEF KeptIds, StoreInv, SecretInv, TypeOK
<1>2. Elsewhere(x)
  BY <1>1, RoutesElsewhere DEF StoreInv
<1>3. Aside(x)
  <2>1. QueueGrows(x)
    BY <1>0 DEF QueueGrows, Notified
  <2>2. ObjectsApart(x) /\ MissedApart(x)
    BY <1>0 DEF ObjectsApart, MissedApart, Missed
  <2> QED
    BY <1>2, <2>1, <2>2, PartsAside DEF Elsewhere, StoreApart
<1>4. IdOf(judged) = x /\ ~judged.leaving /\ judged.kind = x.kind
  <2>1. IdOf(judged) = x
    BY <1>1, ObjectExcept
  <2>2. ~judged.leaving
    BY <1>0, <1>1 DEF IsObject
  <2> QED
    BY <2>1, <2>2 DEF IdOf
<1>5. x \in DOMAIN api' /\ api'[x] = judged
  BY <1>0, <1>1
<1>6. Belongs(judged) <=> parents_accepted_by_wicket(judged.status)
  BY <1>4, RouteKindsAre DEF Belongs, IsRoute, Routes
<1> HIDE DEF judged
<1>7. KeptOK(x)'
  <2>1. CASE same
    <3>1. Agrees(x)'
      <4>1. store.objects = IF parents_accepted_by_wicket(judged.status)
                            THEN With(store.objects, x, judged) ELSE Without(store.objects, x)
        BY <1>1, <1>4, <2>1, WrittenObjects
      <4> QED
        BY <1>0, <1>5, <1>6, <4>1, AgreesIf
    <3>2. x \notin DOMAIN work' /\ x.kind \in store'.listed /\ ~api'[x].leaving
      BY <1>0, <1>1, <1>4, <1>5, <2>1
    <3> QED
      BY <1>5, <3>1, <3>2, EndsAgreed
  <2>2. CASE ~same
    <3>1. x \in DOMAIN work' /\ work'[x] = judged
      BY <1>0, <2>2 DEF With
    <3>2. Unknown(x)' /\ GoneIsGone(x)'
      BY <1>0, <1>1, <1>5 DEF Unknown, GoneIsGone
    <3>3. JudgedFresh(x)'
      BY <1>4, <1>5, <3>1 DEF JudgedFresh, IdOf
    <3>4. LeavingQuiet(x)'
      BY <1>4, <1>5 DEF LeavingQuiet
    <3>5. ~Settled(x)'
      BY <3>1 DEF Settled
    <3> QED
      BY <3>2, <3>3, <3>4, <3>5 DEF KeptOK
  <2> QED
    BY <2>1, <2>2
<1>8. DOMAIN api' = DOMAIN api
  BY <1>0
<1> QED
  BY <1>0, <1>3, <1>7, <1>8, AsideKeeps

\* The write of the store that a verdict is followed by.
LEMMA StoreRouteStores ==
    ASSUME StoreInv, SecretInv', NEW x, x.kind \in Routes, StoreRoute(x)
    PROVE  StoreInv'
<1>0. /\ x \in DOMAIN work /\ store' = Written(store, work[x]) /\ work' = Without(work, x)
      /\ Requeue(x, "resync") /\ TakenIn(x)
      /\ UNCHANGED <<world, api, todo, queue, wakes, files, applied, running>>
  BY DEF StoreRoute
<1>1. x \in Ids /\ x \in KeptIds /\ KeptOK(x) /\ IsStore(store) /\ x.kind \in store.listed
  BY <1>0 DEF KeptIds, StoreInv, SecretInv, TypeOK, KeptOK, Unknown
<1>2. Elsewhere(x)
  BY <1>1, RoutesElsewhere DEF StoreInv
<1>3. IdOf(work[x]) = x /\ ~work[x].leaving
  BY <1>0, <1>1 DEF KeptOK, JudgedFresh
<1>4. store'.objects = IF parents_accepted_by_wicket(work[x].status)
                       THEN With(store.objects, x, work[x]) ELSE Without(store.objects, x)
  BY <1>0, <1>1, <1>3, WrittenObjects
<1>5. Aside(x)
  BY <1>0, <1>1, <1>2, <1>4, OneApart, TakenInAside, QueueAside, PartsAside
     DEF Elsewhere, StoreApart, StoreInv, SecretInv
<1>6. x \notin DOMAIN work' /\ x.kind \in store'.listed /\ x \in DOMAIN timers' /\ timers'[x] = "resync"
  BY <1>0, <1>1, <1>2, QueueAside DEF Without, Elsewhere, StoreApart
<1>7. KeptOK(x)'
  <2>1. CASE x \in DOMAIN api
    <3>1. ASSUME x \notin queue'
          PROVE  Agrees(x)'
      <4>1. work[x] = api[x] /\ api' = api
        BY <1>0, <1>1, <2>1, <3>1 DEF KeptOK, JudgedFresh
      <4>2. Belongs(api[x]) <=> parents_accepted_by_wicket(work[x].status)
        BY <1>3, <4>1, RouteKindsAre DEF Belongs, IsRoute, Routes, IdOf
      <4> QED
        BY <1>4, <2>1, <4>1, <4>2, AgreesIf
    <3> QED
      BY <1>0, <1>6, <2>1, <3>1, EndsAgreed
  <2>2. CASE x \notin DOMAIN api
    <3>1. Missed(x) /\ gaps' = gaps /\ x \notin DOMAIN api'
      BY <1>0, <1>1, <2>2, TakenInAside DEF KeptOK, JudgedFresh, StoreInv, SecretInv
    <3>2. Unknown(x)' /\ JudgedFresh(x)' /\ LeavingQuiet(x)'
      BY <1>6, <3>1 DEF Unknown, JudgedFresh, LeavingQuiet
    <3>3. GoneIsGone(x)' /\ ~Settled(x)'
      BY <3>1 DEF GoneIsGone, Settled, Missed, KeyOf
    <3> QED
      BY <3>2, <3>3 DEF KeptOK
  <2> QED
    BY <2>1, <2>2
<1> QED
  BY <1>0, <1>5, <1>7, AsideKeeps

\* The reconcile of a Gateway.
LEMMA GatewayStores ==
    ASSUME StoreInv, SecretInv', NEW x, LeaveGateway(x) \/ reconcile_gateway(x)
    PROVE  StoreInv'
<1>0. Due(x) /\ x.kind = "Gateway" /\ UNCHANGED <<world, todo, wakes, work, files, running>>
  BY DEF LeaveGateway, reconcile_gateway
<1>1. /\ x \in Ids /\ x \in DOMAIN api /\ x \notin DOMAIN work /\ IdOf(api[x]) = x /\ IsObject(api[x])
      /\ x \in KeptIds /\ x.kind \in store.listed /\ IsStore(store) /\ KeyOf(api[x]) = KeyOf(x)
  BY <1>0, DueKept DEF KeptIds, StoreInv, SecretInv, TypeOK
<1>2. Elsewhere(x)
  BY <1>1, GatewaysElsewhere DEF StoreInv
<1>3. x \notin DOMAIN work' /\ x.kind \in store'.listed /\ DOMAIN api' = DOMAIN api
  BY <1>0, <1>1, <1>2 DEF Elsewhere, StoreApart, ApiApart
<1>4. ASSUME NEW o, IdOf(o) = x
      PROVE  Belongs(o) <=> ~o.leaving
  <2>1. o.kind = "Gateway"
    BY <1>0, <1>4 DEF IdOf
  <2> QED
    BY <2>1, RouteKindsAre DEF Belongs, IsRoute, Routes
<1>5. CASE LeaveGateway(x)
  <2>1. store'.objects = IF api[x].leaving THEN Without(store.objects, x) ELSE store.objects
    BY <1>1, <1>5, ObjectWrites DEF LeaveGateway
  <2>2. MissedApart(x)
    BY <1>0, <1>1, <1>5, GapsOfOne DEF LeaveGateway
  <2>3. Aside(x)
    BY <1>2, <1>5, <2>1, <2>2, OneApart, QueueAside, PartsAside DEF LeaveGateway, Elsewhere, StoreApart
  <2>4. api' = api /\ (api[x].leaving => x \notin DOMAIN timers')
    BY <1>5, QueueAside DEF LeaveGateway
  <2>5. CASE api[x].leaving
    <3>1. Agrees(x)'
      BY <1>1, <1>4, <2>1, <2>4, <2>5, AgreesIf
    <3>2. KeptOK(x)'
      BY <1>1, <1>3, <2>4, <2>5, <3>1, EndsAgreed
    <3> QED
      BY <1>0, <2>3, <2>4, <3>2, AsideKeeps
  <2>6. CASE ~api[x].leaving
    <3>1. \/ x \in DOMAIN timers' /\ timers'[x] = "retry"
          \/ <<x.kind, KeyOf(x)>> \in gaps'
      BY <1>1, <1>5, <2>6, QueueAside DEF LeaveGateway
    <3>2. KeptOK(x)'
      BY <1>1, <1>3, <2>4, <2>6, <3>1, EndsAgreed
    <3> QED
      BY <1>0, <2>3, <2>4, <3>2, AsideKeeps
  <2> QED
    BY <2>5, <2>6
<1>6. CASE reconcile_gateway(x)
  <2>1. /\ store' = upsert(store, api'[x]) /\ ~api[x].leaving /\ TakenIn(x)
        /\ queue' = (queue \ {x}) \cup (IF api' = api THEN {} ELSE {x})
        /\ api' = api \/ \E v : api' = [api EXCEPT ![x] = [api[x] EXCEPT !.status = v]]
    BY <1>6, Zenon DEF reconcile_gateway
  <2>2. x \in DOMAIN api' /\ IdOf(api'[x]) = x /\ ~api'[x].leaving
    <3>1. \A v : IdOf([api[x] EXCEPT !.status = v]) = x
      BY <1>1, ObjectExcept
    <3>2. \A v : ~[api[x] EXCEPT !.status = v].leaving
      BY <1>1, <2>1 DEF IsObject
    <3>3. api'[x] = api[x] \/ \E v : api'[x] = [api[x] EXCEPT !.status = v]
      BY <1>1, <2>1
    <3> QED
      BY <1>1, <1>3, <2>1, <3>1, <3>2, <3>3
  <2>3. store'.objects = With(store.objects, x, api'[x])
    BY <1>1, <2>1, <2>2, ObjectWrites
  <2>4. QueueGrows(x)
    BY <2>1 DEF QueueGrows
  <2>5. Aside(x)
    BY <1>1, <1>2, <2>1, <2>3, <2>4, OneApart, TakenInAside, PartsAside
       DEF Elsewhere, StoreApart, StoreInv, SecretInv
  <2>6. Belongs(api'[x])
    BY <1>4, <2>2
  <2>7. Agrees(x)'
    BY <2>2, <2>3, <2>6, AgreesIf
  <2>8. KeptOK(x)'
    BY <1>3, <2>2, <2>7, EndsAgreed
  <2> QED
    BY <1>0, <1>3, <2>5, <2>8, AsideKeeps
<1> QED
  BY <1>5, <1>6

\* The reconciles of Services, slices and Secrets leave the objects alone.
LEMMA OthersStore ==
    ASSUME StoreInv, SecretInv', NEW x \in Ids,
           \/ ReconcileService(x) \/ SkipSlice(x) \/ ListSlices(x) \/ StoreEndpoints(x)
           \/ RemoveSecret(x) \/ SkipSecret(x) \/ BeginSecret(x)
           \/ WriteCert(x) \/ WriteKey(x) \/ CheckPair(x) \/ \E c : FailWrite(x, c)
    PROVE  StoreInv'
<1>0. x.kind \in {"Service", "EndpointSlice", "Secret"} /\ UNCHANGED <<world, api>>
  BY DEF ReconcileService, SkipSlice, ListSlices, StoreEndpoints, RemoveSecret, SkipSecret, BeginSecret,
         WriteCert, WriteKey, CheckPair, FailWrite, EndSecret
<1>1. x \notin KeptIds /\ IsStore(store) /\ TypeOK
  BY <1>0, RouteKindsAre DEF KeptIds, StoreInv, SecretInv, TypeOK
<1>2. QueueGrows(x)
  BY DEF ReconcileService, SkipSlice, ListSlices, StoreEndpoints, RemoveSecret, SkipSecret, BeginSecret,
         WriteCert, WriteKey, CheckPair, FailWrite, EndSecret, Handled, QueueGrows
<1>3. WorkApart(x)
  <2>1. \/ UNCHANGED work \/ work' = Without(work, x)
        \/ \E w : work' = With(work, x, w)
        \/ \E at : work' = [work EXCEPT ![x].pc = at]
    BY Zenon DEF ReconcileService, SkipSlice, ListSlices, StoreEndpoints, RemoveSecret, SkipSecret, BeginSecret,
         WriteCert, WriteKey, CheckPair, FailWrite, EndSecret
  <2> QED
    BY <2>1 DEF WorkApart, With, Without
<1>4. TimersApart(x)
  <2>1. UNCHANGED timers \/ AwaitChange(x) \/ \E why : Requeue(x, why)
    BY Zenon DEF ReconcileService, SkipSlice, ListSlices, StoreEndpoints, RemoveSecret, SkipSecret, BeginSecret,
         WriteCert, WriteKey, CheckPair, FailWrite, EndSecret
  <2> QED
    BY <1>1, <2>1 DEF TimersApart, AwaitChange, Requeue, With, Without, TypeOK
<1>5. store'.objects = store.objects /\ store'.listed = store.listed
  <2>1. \/ store' = store
        \/ \E key : store' = upsert_service_presence(store, key)
        \/ \E key, addrs : store' = upsert_endpoints(store, key, addrs)
        \/ \E key : store' = upsert_tls_secret(store, key) \/ store' = remove_tls_secret(store, key)
    BY Zenon DEF ReconcileService, SkipSlice, ListSlices, StoreEndpoints, RemoveSecret, SkipSecret, BeginSecret,
         WriteCert, WriteKey, CheckPair, FailWrite, EndSecret
  <2>2. ASSUME NEW key, NEW addrs
        PROVE  \A t \in {upsert_service_presence(store, key), upsert_endpoints(store, key, addrs),
                         upsert_tls_secret(store, key), remove_tls_secret(store, key)} :
                  t.objects = store.objects /\ t.listed = store.listed
    <3>1. \A v : /\ [store EXCEPT !.present = v].objects = store.objects
                 /\ [store EXCEPT !.present = v].listed = store.listed
                 /\ [store EXCEPT !.endpoints = v].objects = store.objects
                 /\ [store EXCEPT !.endpoints = v].listed = store.listed
                 /\ [store EXCEPT !.secrets = v].objects = store.objects
                 /\ [store EXCEPT !.secrets = v].listed = store.listed
      BY <1>1 DEF IsStore
    <3> QED
      BY <3>1, Zenon DEF upsert_service_presence, upsert_endpoints, upsert_tls_secret, remove_tls_secret
  <2> QED
    BY <2>1, <2>2
<1>6. MissedApart(x)
  <2>1. \E kind \in {"Service", "EndpointSlice", "Secret"} : \E key :
           gaps' \in {gaps, gaps \ {<<kind, key>>}, gaps \cup {<<kind, key>>}}
    BY <1>0, Zenon DEF ReconcileService, SkipSlice, ListSlices, StoreEndpoints, RemoveSecret, SkipSecret, BeginSecret,
         WriteCert, WriteKey, CheckPair, FailWrite, EndSecret, TakenIn
  <2> QED
    BY <2>1, RouteKindsAre DEF MissedApart, Missed, KeptIds
<1>7. Aside(x)
  BY <1>0, <1>2, <1>3, <1>4, <1>5, <1>6, PartsAside DEF ObjectsApart
<1> QED
  BY <1>0, <1>1, <1>7, AsideKeeps

\* A failed request is retried; a Gateway is stored all the same.
LEMMA FailRequestStores ==
    ASSUME StoreInv, SecretInv', NEW x, NEW c, FailRequest(x, c)
    PROVE  StoreInv'
<1>0. /\ Due(x) /\ ~api[x].leaving /\ Handled(x) /\ Requeue(x, "retry")
      /\ store' = IF x.kind = "Gateway" /\ Managed(api[x]) THEN upsert(store, api[x]) ELSE store
      /\ UNCHANGED <<world, api, wakes, work, files, applied, running, gaps>>
  BY DEF FailRequest, RetrySoon
<1>1. /\ x \in Ids /\ x \in DOMAIN api /\ x \notin DOMAIN work /\ IdOf(api[x]) = x /\ IsStore(store)
      /\ x \in KeptIds => KeptOK(x) /\ x.kind \in store.listed
  BY <1>0, DueKept DEF StoreInv, SecretInv, TypeOK
<1>2. store'.listed = store.listed /\ store'.objects \in {store.objects, With(store.objects, x, api[x])}
  BY <1>0, <1>1, ObjectWrites, StoreWrites
<1>3. Aside(x)
  <2>1. WorkApart(x) /\ TimersApart(x) /\ MissedApart(x)
    BY <1>0, <1>1 DEF WorkApart, TimersApart, MissedApart, Missed, Requeue, With
  <2> QED
    BY <1>0, <1>2, <2>1, OneApart, QueueAside, PartsAside
<1>4. ASSUME x \in KeptIds
      PROVE  KeptOK(x)'
  BY <1>0, <1>1, <1>2, <1>4, QueueAside, EndsAgreed
<1> QED
  BY <1>0, <1>3, <1>4, AsideKeeps

\* A step that leaves every kept object alone.
LEMMA AllSpared ==
    ASSUME StoreInv, SecretInv', world' = world, DOMAIN api' \subseteq DOMAIN api,
           \A id \in KeptIds : Spared(id)
    PROVE  StoreInv'
<1>1. \A id \in KeptIds : KeptOK(id)'
  BY SparedKeeps DEF StoreInv
<1>2. OfWorld'
  BY DEF StoreInv, OfWorld, Kinds, Objects
<1> QED
  BY <1>1, <1>2 DEF StoreInv, KeptIds

\* The watches of the Gateway controller queue, the rollouts do not even that,
\* and a list of Secrets that fails writes Secrets only.
LEMMA WatchesStore ==
    ASSUME StoreInv, SecretInv',
           \/ \E o \in wakes : LookUp(o)
           \/ \E id \in DOMAIN applied : LoadConfig(id)
           \/ \E c \in todo : FailList(c)
           \/ UNCHANGED vars
    PROVE  StoreInv'
<1>1. /\ UNCHANGED <<world, api, timers, work, gaps>>
      /\ \A id : (id \in queue => id \in queue') /\ (id \in queue' => id \in queue \/ id.kind \in store.listed)
  BY DEF LookUp, LoadConfig, FailList, vars, Notified
<1>2. store'.objects = store.objects /\ store'.listed = store.listed
  <2>1. store' = store \/ \E v : store' = [store EXCEPT !.secrets = v]
    BY Zenon DEF LookUp, LoadConfig, FailList, vars
  <2>2. IsStore(store)
    BY DEF StoreInv, SecretInv, TypeOK
  <2> QED
    BY <2>1, <2>2 DEF IsStore
<1>3. \A id \in KeptIds : Spared(id)
  BY <1>1, <1>2 DEF Spared, Missed
<1> QED
  BY <1>1, <1>3, AllSpared

\* When the timers fire, what they were set for is queued, but for what is gone.
LEMMA ResyncStores ==
    ASSUME StoreInv, SecretInv', Resync
    PROVE  StoreInv'
<1>0. /\ queue = {} /\ work = <<>> /\ queue' = DOMAIN timers \cap DOMAIN api /\ timers' = <<>>
      /\ UNCHANGED <<world, api, store, work, gaps>>
  BY DEF Resync
<1>1. ASSUME NEW id \in KeptIds
      PROVE  KeptOK(id)'
  <2>0. KeptOK(id) /\ id \notin DOMAIN work /\ id \notin DOMAIN work' /\ id \notin DOMAIN timers'
    BY <1>0 DEF StoreInv
  <2>1. Unknown(id)' /\ JudgedFresh(id)' /\ LeavingQuiet(id)' /\ GoneIsGone(id)'
    BY <1>0, <2>0 DEF KeptOK, Unknown, JudgedFresh, LeavingQuiet, GoneIsGone, Missed, KeyOf
  <2>2. ASSUME Settled(id)'
        PROVE  Agrees(id)'
    <3>1. id.kind \in store.listed /\ ~Missed(id) /\ (id \notin DOMAIN timers \/ id \notin DOMAIN api)
      BY <1>0, <2>2 DEF Settled, Missed, KeyOf
    <3>2. Agrees(id)
      <4>1. CASE id \notin DOMAIN timers
        BY <1>0, <2>0, <3>1, <4>1 DEF KeptOK, Settled, Missed
      <4>2. CASE id \notin DOMAIN api
        BY <2>0, <3>1, <4>2 DEF KeptOK, GoneIsGone, Agrees
      <4> QED
        BY <3>1, <4>1, <4>2
    <3>3. id \in DOMAIN api => (Belongs(api[id])' <=> Belongs(api[id]))
      BY <1>0 DEF Belongs, IsRoute, is_wicket_managed, parents_accepted_by_wicket, IsAttached
    <3> QED
      BY <1>0, <3>2, <3>3 DEF Agrees
  <2> QED
    BY <2>1, <2>2 DEF KeptOK
<1>2. OfWorld'
  BY <1>0 DEF StoreInv, OfWorld, Kinds, Objects
<1> QED
  BY <1>1, <1>2 DEF StoreInv, KeptIds

\* A store nothing has been written to.
LEMMA FreshStoreHas ==
    DOMAIN FreshStore.objects = {} /\ FreshStore.listed = ResourceKinds \ Kinds(Objects(Worlds[world]))
<1>1. IsStore(EmptyStore) /\ EmptyStore.objects = <<>>
  BY DEF EmptyStore, IsStore
<1>2. \A s, v : IsStore(s) => /\ [s EXCEPT !.listed = v].listed = v
                              /\ [s EXCEPT !.listed = v].objects = s.objects
  BY DEF IsStore
<1> QED
  BY <1>1, <1>2 DEF FreshStore

\* Whoever starts has nothing in the store, and has listed what there is not.
LEMMA FreshStores ==
    ASSUME SecretInv', OfWorld', store' = FreshStore, world' = world,
           queue' = {}, timers' = <<>>, work' = <<>>, gaps' = {}
    PROVE  StoreInv'
<1>1. ASSUME NEW id \in KeptIds
      PROVE  KeptOK(id)'
  <2>1. DOMAIN store'.objects = {} /\ DOMAIN work' = {} /\ DOMAIN timers' = {}
    BY FreshStoreHas
  <2>2. id \in DOMAIN api' => id.kind \notin store'.listed
    BY FreshStoreHas DEF OfWorld, Kinds, Objects
  <2>3. Unknown(id)' /\ JudgedFresh(id)' /\ LeavingQuiet(id)' /\ GoneIsGone(id)'
    BY <2>1 DEF Unknown, JudgedFresh, LeavingQuiet, GoneIsGone
  <2>4. Settled(id)' => Agrees(id)'
    BY <2>1, <2>2 DEF Settled, Agrees
  <2> QED
    BY <2>3, <2>4 DEF KeptOK
<1> QED
  BY <1>1 DEF StoreInv, KeptIds

\* So it is after a restart.
LEMMA RestartStores ==
    ASSUME StoreInv, SecretInv', NEW c \in todo, Restart(c)
    PROVE  StoreInv'
<1>1. OfWorld'
  BY DEF Restart, StoreInv, OfWorld, Kinds, Objects
<1> QED
  BY <1>1, FreshStores DEF Restart

\* And at first.
LEMMA InitStoreInv ==
    ASSUME Init
    PROVE  StoreInv
<1>1. SecretInv
  BY InitSecretInv
<1>2. OfWorld
  <2>1. ASSUME NEW id \in DOMAIN api
        PROVE  id.kind \in Kinds(Objects(Worlds[world]))
    <3>1. PICK o \in Worlds[world].start : id = IdOf(o)
      BY <2>1 DEF Init
    <3> QED
      BY <3>1 DEF Kinds, Objects, IdOf
  <2> QED
    BY <2>1 DEF OfWorld
<1>3. /\ store = FreshStore /\ queue = {} /\ DOMAIN work = {} /\ DOMAIN timers = {}
      /\ DOMAIN store.objects = {} /\ store.listed = ResourceKinds \ Kinds(Objects(Worlds[world]))
  BY FreshStoreHas DEF Init
<1>4. ASSUME NEW id \in KeptIds
      PROVE  KeptOK(id)
  <2>1. id \in DOMAIN api => id.kind \notin store.listed
    BY <1>2, <1>3 DEF OfWorld
  <2>2. Unknown(id) /\ JudgedFresh(id) /\ LeavingQuiet(id) /\ GoneIsGone(id)
    BY <1>3 DEF Unknown, JudgedFresh, LeavingQuiet, GoneIsGone
  <2>3. Settled(id) => Agrees(id)
    BY <1>3, <2>1 DEF Settled, Agrees
  <2> QED
    BY <2>2, <2>3 DEF KeptOK
<1> QED
  BY <1>1, <1>2, <1>4 DEF StoreInv

\* A list puts into the store what the API server has of its kinds.
LEMMA ListObjects ==
    ASSUME StoreInv, NEW kinds, List(kinds), NEW id, id.kind \notin kinds \/ id \notin DOMAIN api
    PROVE  /\ id \in DOMAIN store'.objects <=> id \in DOMAIN store.objects
           /\ id \in DOMAIN store.objects => store'.objects[id] = store.objects[id]
<1> DEFINE Objs == UNION {Listed(kind) : kind \in kinds}
           A == Overlay(store.objects, [x \in {IdOf(o) : o \in Objs} |-> api[x]])
<1>1. store'.objects = A
  <2>1. \E b, d : store' = mark_listed([store EXCEPT !.objects = A, !.present = b, !.secrets = d], kinds)
    BY Zenon DEF List
  <2> HIDE DEF A
  <2>2. IsStore(store)
    BY DEF StoreInv, SecretInv, TypeOK
  <2>3. PICK b, d : store' = mark_listed([store EXCEPT !.objects = A, !.present = b, !.secrets = d], kinds)
    BY <2>1, Zenon
  <2>4. store = [objects |-> store.objects, present |-> store.present, endpoints |-> store.endpoints,
                 secrets |-> store.secrets, listed |-> store.listed]
    BY <2>2, Zenon DEF IsStore
  <2>5. store' = [objects |-> A, present |-> b, endpoints |-> store.endpoints,
                  secrets |-> d, listed |-> store.listed \cup kinds]
    BY <2>3, <2>4 DEF mark_listed
  <2> QED
    BY <2>5
<1>2. \A kind \in kinds : \A o \in Listed(kind) : IdOf(o) \in DOMAIN api /\ IdOf(o).kind \in kinds
  <2>1. \A kind : \A o \in Live(kind) : IdOf(o) \in DOMAIN api /\ IdOf(o).kind = kind
    BY DEF Live, StoreInv, SecretInv, TypeOK
  <2>2. \A kind : Listed(kind) \subseteq Live(kind)
    BY DEF Listed, ListedClasses, ListedGateways, ListedHttpRoutes, ListedTcpRoutes, ListedTlsRoutes, ListedGrants
  <2> QED
    BY <2>1, <2>2, Zenon
<1>3. id \notin {IdOf(o) : o \in Objs}
  BY <1>2
<1> QED
  BY <1>1, <1>3 DEF Overlay

\* The first lists: whatever is listed is queued, so nothing of its kind is settled but what is not there.
LEMMA StartStores ==
    ASSUME StoreInv, SecretInv', Start
    PROVE  StoreInv'
<1>1. PICK kinds : List(kinds)
  BY Zenon DEF Start
<1>2. /\ store'.listed = store.listed \cup kinds /\ kinds \cap store.listed = {}
      /\ queue' = queue \cup {id \in DOMAIN api : id.kind \in kinds}
      /\ UNCHANGED <<world, api, todo, timers, wakes, work, applied, running, gaps>>
  BY <1>1, ListParts DEF StoreInv
<1>3. ASSUME NEW id \in KeptIds
      PROVE  KeptOK(id)'
  <2>0. KeptOK(id)
    BY DEF StoreInv
  <2>1. CASE id.kind \in kinds
    <3>1. /\ id.kind \in store'.listed /\ id \notin DOMAIN work' /\ id \notin DOMAIN timers'
          /\ id \notin DOMAIN store.objects
          /\ id \in DOMAIN api' => id \in queue'
      BY <1>2, <2>0, <2>1 DEF KeptOK, Unknown
    <3>2. id \notin DOMAIN api' => id \notin DOMAIN store'.objects
      BY <1>1, <1>2, <3>1, ListObjects
    <3>3. Unknown(id)' /\ JudgedFresh(id)' /\ LeavingQuiet(id)' /\ GoneIsGone(id)'
      BY <3>1, <3>2 DEF Unknown, JudgedFresh, LeavingQuiet, GoneIsGone
    <3>4. Settled(id)' => Agrees(id)'
      BY <3>1, <3>2 DEF Settled, Agrees
    <3> QED
      BY <3>3, <3>4 DEF KeptOK
  <2>2. CASE id.kind \notin kinds
    <3>1. Spared(id)
      BY <1>1, <1>2, <2>2, ListObjects DEF Spared, Missed
    <3> QED
      BY <2>0, <3>1, SparedKeeps
  <2> QED
    BY <2>1, <2>2
<1>4. OfWorld'
  BY <1>2 DEF StoreInv, OfWorld, Kinds, Objects
<1> QED
  BY <1>3, <1>4 DEF StoreInv, KeptIds

\* An edit queues the object, once its kind is listed.
LEMMA PutStores ==
    ASSUME StoreInv, SecretInv', NEW c \in todo, Put(c)
    PROVE  StoreInv'
<1> DEFINE x == IdOf(c.to)
           o == WithStatus(c.to)
<1>0. /\ x \in Ids /\ api' = With(api, x, o)
      /\ queue' = queue \cup Notified(Touched(c.to))
      /\ UNCHANGED <<world, timers, store, work, gaps>>
  BY PutObject DEF Put, StoreInv
<1>1. x.kind \in store.listed => x \in queue'
  BY <1>0 DEF Notified, Touched
<1>2. x.kind \in Kinds(Objects(Worlds[world]))
  BY DEF Put, StoreInv, SecretInv, TypeOK, Kinds, Objects, IdOf
<1> HIDE DEF x, o
<1>3. DOMAIN api' = DOMAIN api \cup {x} /\ \A id \in DOMAIN api : id # x => api'[id] = api[id]
  BY <1>0 DEF With
<1>4. ASSUME NEW id \in KeptIds
      PROVE  KeptOK(id)'
  <2>0. KeptOK(id)
    BY DEF StoreInv
  <2>1. CASE id # x
    <3>1. Spared(id)
      BY <1>0, <1>3, <2>1 DEF Spared, Missed, Notified
    <3> QED
      BY <2>0, <3>1, SparedKeeps
  <2>2. CASE id = x
    <3>1. id \in DOMAIN api' /\ (id.kind \in store.listed => id \in queue')
      BY <1>1, <1>3, <2>2
    <3>2. id \notin queue' => /\ id.kind \notin store'.listed /\ id \notin DOMAIN work'
                              /\ id \notin DOMAIN timers'
      BY <1>0, <2>0, <3>1 DEF KeptOK, Unknown
    <3>3. Unknown(id)'
      BY <1>0, <2>0, <3>1 DEF KeptOK, Unknown, Notified
    <3>4. JudgedFresh(id)'
      BY <1>0, <2>0, <3>1, <3>2 DEF KeptOK, JudgedFresh
    <3>5. LeavingQuiet(id)' /\ GoneIsGone(id)' /\ ~Settled(id)'
      BY <3>1, <3>2 DEF LeavingQuiet, GoneIsGone, Settled
    <3> QED
      BY <3>3, <3>4, <3>5 DEF KeptOK
  <2> QED
    BY <2>1, <2>2
<1>5. OfWorld'
  BY <1>0, <1>2, <1>3 DEF StoreInv, OfWorld, Kinds, Objects
<1> QED
  BY <1>4, <1>5 DEF StoreInv, KeptIds

\* An object that goes had its leaving taken in, or its going is missed.
LEMMA GoneStores ==
    ASSUME StoreInv, SecretInv', NEW x \in DOMAIN api, Gone(x)
    PROVE  StoreInv'
<1> DEFINE seen == api[x].leaving /\ x \notin queue /\ x \notin DOMAIN work /\ x.kind \in store.listed
<1>0. /\ api' = Without(api, x)
      /\ queue' = (queue \ {x}) \cup Notified(Touched(api[x]) \ {x})
      /\ gaps' = IF seen /\ api[x].kind \notin {"Service", "EndpointSlice"} THEN gaps
                 ELSE gaps \cup {<<api[x].kind, WatchKey(api[x])>>}
      /\ UNCHANGED <<world, timers, store, work>>
  BY DEF Gone
<1>1. x \in Ids /\ IdOf(api[x]) = x /\ api[x].kind = x.kind
  BY DEF StoreInv, SecretInv, TypeOK, IdOf
<1>2. DOMAIN api' = DOMAIN api \ {x} /\ x \notin queue' /\ \A id \in DOMAIN api' : api'[id] = api[id]
  BY <1>0 DEF Without, Notified
<1>3. ASSUME NEW id \in KeptIds
      PROVE  KeptOK(id)'
  <2>0. KeptOK(id)
    BY DEF StoreInv
  <2>1. CASE id # x
    <3>1. Spared(id)
      BY <1>0, <1>2, <2>1 DEF Spared, Missed, Notified
    <3> QED
      BY <2>0, <3>1, SparedKeeps
  <2>2. CASE id = x
    <3>1. /\ x.kind \notin {"Service", "EndpointSlice"} /\ WatchKey(api[x]) = KeyOf(x)
      BY <1>1, <2>2, RouteKindsAre DEF KeptIds, WatchKey, KeyOf, IdOf
    <3>2. ~Missed(x)' => seen /\ ~Missed(x)
      BY <1>0, <1>1, <3>1 DEF Missed, KeyOf
    <3>3. seen /\ ~Missed(x) => Settled(x)
      BY <2>0, <2>2 DEF KeptOK, LeavingQuiet, Settled, Missed
    <3>4. seen /\ ~Missed(x) => x \notin DOMAIN store.objects
      BY <2>0, <2>2, <3>3 DEF KeptOK, Agrees, Belongs
    <3>5. x \notin DOMAIN api' /\ (Missed(x)' \/ (x \notin DOMAIN store'.objects /\ x \notin DOMAIN work'))
      BY <1>0, <1>2, <3>2, <3>4
    <3>6. Unknown(x)'
      BY <1>0, <1>2, <2>0, <2>2 DEF KeptOK, Unknown
    <3>7. JudgedFresh(x)'
      BY <1>0, <2>0, <2>2, <3>5 DEF KeptOK, JudgedFresh
    <3>8. LeavingQuiet(x)' /\ GoneIsGone(x)'
      BY <3>5 DEF LeavingQuiet, GoneIsGone
    <3>9. Settled(x)' => Agrees(x)'
      BY <3>5 DEF Settled, Agrees, Missed, KeyOf
    <3> QED
      BY <2>2, <3>6, <3>7, <3>8, <3>9 DEF KeptOK
  <2> QED
    BY <2>1, <2>2
<1>4. OfWorld'
  BY <1>0, <1>2 DEF StoreInv, OfWorld, Kinds, Objects
<1> QED
  BY <1>3, <1>4 DEF StoreInv, KeptIds

\* Every reconcile keeps it.
LEMMA ReconcileStores ==
    ASSUME StoreInv, SecretInv', NEW id \in queue \cup DOMAIN work, Reconcile(id)
    PROVE  StoreInv'
<1>0. id \in Ids
  BY DEF StoreInv, SecretInv, TypeOK
<1>1. CASE ReconcileGrant(id) \/ ReconcileClass(id)
  BY <1>1, GrantStores, ClassStores
<1>2. CASE \/ RemoveRoute(id)
           \/ reconcile_httproute(id) \/ reconcile_tcproute(id) \/ reconcile_tlsroute(id)
           \/ StoreHttpRoute(id) \/ StoreTcpRoute(id) \/ StoreTlsRoute(id)
  <2>1. id.kind \in Routes /\ (RemoveRoute(id) \/ JudgeRoute(id) \/ StoreRoute(id))
    BY <1>2, RouteKindsAre DEF RemoveRoute, reconcile_httproute, reconcile_tcproute, reconcile_tlsroute,
       StoreHttpRoute, StoreTcpRoute, StoreTlsRoute
  <2> QED
    BY <2>1, RemoveRouteStores, JudgeRouteStores, StoreRouteStores
<1>3. CASE \/ ReconcileService(id) \/ SkipSlice(id) \/ ListSlices(id) \/ StoreEndpoints(id)
           \/ RemoveSecret(id) \/ SkipSecret(id) \/ BeginSecret(id)
           \/ WriteCert(id) \/ WriteKey(id) \/ CheckPair(id)
  BY <1>0, <1>3, OthersStore
<1>4. CASE LeaveGateway(id) \/ reconcile_gateway(id)
  BY <1>4, GatewayStores
<1> QED
  BY <1>1, <1>2, <1>3, <1>4, Zenon DEF Reconcile

\* Every step keeps it.
LEMMA NextStoreInv ==
    ASSUME StoreInv, [Next]_vars
    PROVE  StoreInv'
<1>0. SecretInv'
  BY NextSecretInv DEF StoreInv
<1>1. CASE Start
  BY <1>0, <1>1, StartStores
<1>2. CASE Resync
  BY <1>0, <1>2, ResyncStores
<1>3. CASE \/ \E o \in wakes : LookUp(o)
           \/ \E id \in DOMAIN applied : LoadConfig(id)
           \/ \E c \in todo : FailList(c)
           \/ UNCHANGED vars
  BY <1>0, <1>3, WatchesStore
<1>4. CASE \E id \in queue \cup DOMAIN work : Reconcile(id)
  BY <1>0, <1>4, ReconcileStores
<1>5. CASE \E c \in todo : Put(c) \/ Delete(c) \/ Restart(c)
  <2>1. PICK c \in todo : Put(c) \/ Delete(c) \/ Restart(c)
    BY <1>5
  <2>2. CASE Put(c)
    BY <1>0, <2>2, PutStores
  <2>3. CASE Delete(c)
    BY <1>0, <2>3, GoneStores DEF Delete
  <2>4. CASE Restart(c)
    BY <1>0, <2>4, RestartStores
  <2> QED
    BY <2>1, <2>2, <2>3, <2>4
<1>6. CASE \E c \in todo, id \in queue \cup DOMAIN work : FailRequest(id, c) \/ FailWrite(id, c)
  <2>1. PICK c \in todo, id \in queue \cup DOMAIN work : FailRequest(id, c) \/ FailWrite(id, c)
    BY <1>6
  <2>2. id \in Ids
    BY DEF StoreInv, SecretInv, TypeOK
  <2> QED
    BY <1>0, <2>1, <2>2, FailRequestStores, OthersStore
<1>7. CASE \E id \in DOMAIN api : Vanish(id)
  BY <1>0, <1>7, GoneStores DEF Vanish
<1> QED
  BY <1>1, <1>2, <1>3, <1>4, <1>5, <1>6, <1>7, Zenon DEF Next

(***************************************************************************)
(* For any worlds, in any order of edits, deletions, faults, lists and     *)
(* restarts: of every route, Gateway, class and grant that has settled the *)
(* store has the version the API server has, or nothing if it left or was  *)
(* turned away.  What is about to be stored must be the object the API     *)
(* server has unless it is queued again (JudgedFresh), and what leaves     *)
(* must have been taken out before it is gone (LeavingQuiet, GoneIsGone).  *)
(***************************************************************************)
THEOREM StoreFollows == Spec => []StoreFollowsApi
<1>1. Init => StoreInv
  BY InitStoreInv
<1>2. StoreInv /\ [Next]_vars => StoreInv'
  BY NextStoreInv
<1>3. StoreInv => StoreFollowsApi
  BY DEF StoreInv, KeptOK, Agrees, KeptIds, StoreFollowsApi
<1> QED
  BY <1>1, <1>2, <1>3, PTL DEF Spec

----------------------------------------------------------------------------
(* Leader election.                                                        *)

USE DEF InFlight, Pcs, AgeCap, BeliefCap

(***************************************************************************)
(* The types of the numeric constants.                                     *)
(***************************************************************************)
LEMMA ConstantTypes ==
    /\ LeaseDuration \in Nat /\ RenewEvery \in Nat /\ MaxLag \in Nat /\ MaxFaults \in Nat
    /\ RenewEvery <= MaxLag
    /\ NoHolder \notin Replicas
  BY LeaderElectionAssumption DEF LeaderElectionAssumption

(***************************************************************************)
(* The numeric part of the type invariant.                                 *)
(***************************************************************************)
Times ==
    /\ age \in 0 .. AgeCap
    /\ lag \in [Replicas -> 0 .. MaxLag]
    /\ belief \in [Replicas -> 0 .. BeliefCap]
    /\ faults \in 0 .. MaxFaults

\* Every step keeps clocks, lags and expiries in type.
LEMMA TimesNext == ElectionTypeOK /\ [ElectionNext]_electionVars => Times'
<1> SUFFICES ASSUME ElectionTypeOK, [ElectionNext]_electionVars PROVE Times'
  OBVIOUS
<1> USE ConstantTypes DEF ElectionTypeOK, Times
<1>1. CASE Tick
  BY <1>1 DEF Tick, Older
<1>2. ASSUME NEW r \in Replicas, Attempt(r) PROVE Times'
  <2>0. CASE Get(r)
    <3>1. UNCHANGED <<age, lag, belief, faults>>
      BY <2>0 DEF Get
    <3> QED
      BY <3>1
  <2>1. CASE Begin(r) \/ Prepare(r) \/ Follow(r)
    BY <2>1 DEF Begin, Prepare, Follow
  <2>2. CASE CreateServed(r) \/ CreateConflict(r) \/ PatchServed(r)
    BY <2>2 DEF CreateServed, CreateConflict, PatchServed
  <2>3. CASE Reply(r) \/ Wake(r)
    BY <2>3 DEF Reply, Wake
  <2> QED
    BY <1>2, <2>0, <2>1, <2>2, <2>3 DEF Attempt
<1>3. ASSUME NEW r \in Replicas, ApiError(r) \/ StartControllers(r) \/ Crash(r) \/ RestartReplica(r)
      PROVE  Times'
  BY <1>3 DEF ApiError, StartControllers, Crash, RestartReplica
<1>4. CASE UNCHANGED electionVars
  BY <1>4 DEF electionVars
<1> QED
  BY <1>1, <1>2, <1>3, <1>4 DEF ElectionNext

(***************************************************************************)
(* The other part: names, program counters and flags.                      *)
(***************************************************************************)
Flags ==
    /\ holder \in Replicas \cup {NoHolder}
    /\ pc \in [Replicas -> Pcs]
    /\ decision \in [Replicas -> {"create", "patch", "follow"}]
    /\ isLeader \in [Replicas -> BOOLEAN]
    /\ working \in [Replicas -> BOOLEAN]
    /\ contended \in BOOLEAN

\* Every step keeps the flags and places in the loop in type.
LEMMA FlagsNext == ElectionTypeOK /\ [ElectionNext]_electionVars => Flags'
<1> SUFFICES ASSUME ElectionTypeOK, [ElectionNext]_electionVars PROVE Flags'
  OBVIOUS
<1> USE DEF ElectionTypeOK, Flags
<1>1. CASE Tick
  BY <1>1 DEF Tick
<1>2. ASSUME NEW r \in Replicas, Attempt(r) PROVE Flags'
  <2>1. CASE Begin(r)
    BY <2>1 DEF Begin
  <2>2. CASE Get(r)
    <3>1. Decide(r) \in {"create", "patch", "follow"}
      BY DEF Decide
    <3> QED
      BY <2>2, <3>1 DEF Get
  <2>3. CASE Prepare(r)
    BY <2>3 DEF Prepare
  <2>4. CASE Follow(r) \/ CreateConflict(r)
    BY <2>4 DEF Follow, CreateConflict
  <2>5. CASE CreateServed(r) \/ PatchServed(r)
    BY <2>5 DEF CreateServed, PatchServed
  <2>6. CASE Reply(r) \/ Wake(r)
    BY <2>6 DEF Reply, Wake
  <2> QED
    BY <1>2, <2>1, <2>2, <2>3, <2>4, <2>5, <2>6 DEF Attempt
<1>3. ASSUME NEW r \in Replicas, ApiError(r) \/ StartControllers(r) \/ Crash(r) \/ RestartReplica(r)
      PROVE  Flags'
  BY <1>3 DEF ApiError, StartControllers, Crash, RestartReplica
<1>4. CASE UNCHANGED electionVars
  BY <1>4 DEF electionVars
<1> QED
  BY <1>1, <1>2, <1>3, <1>4 DEF ElectionNext

\* The types hold at the start.
LEMMA TypeInit == ElectionInit => ElectionTypeOK
<1> SUFFICES ASSUME ElectionInit PROVE ElectionTypeOK
  OBVIOUS
<1>1. Times
  BY ConstantTypes DEF ElectionInit, Times
<1>2. /\ holder \in Replicas \cup {NoHolder}
      /\ pc \in [Replicas -> Pcs]
      /\ decision \in [Replicas -> {"create", "patch", "follow"}]
  BY DEF ElectionInit
<1>3. isLeader \in [Replicas -> BOOLEAN] /\ working \in [Replicas -> BOOLEAN]
  BY DEF ElectionInit
<1>4. contended \in BOOLEAN
  BY Zenon DEF ElectionInit
<1> QED
  BY <1>1, <1>2, <1>3, <1>4 DEF ElectionTypeOK, Times

(***************************************************************************)
(* leader_election.rs: every variable keeps its type; in particular the    *)
(* ages stay within the caps from which on they no longer matter.          *)
(***************************************************************************)
THEOREM ElectionTypeCorrect == ElectionSpec => []ElectionTypeOK
<1>1. ElectionTypeOK /\ [ElectionNext]_electionVars => ElectionTypeOK'
  BY TimesNext, FlagsNext DEF ElectionTypeOK, Times, Flags
<1> QED
  BY <1>1, TypeInit, PTL DEF ElectionSpec

-----------------------------------------------------------------------------
(***************************************************************************)
(* The inductive invariant.  As long as no two replicas have been about to *)
(* patch at once:                                                          *)
(*   - an unexpired claim is the lease's own, and no younger than it;      *)
(*   - so is a write whose reply is still on its way;                      *)
(*   - whoever is about to patch is the only one, and patches a lease that *)
(*     is its own or has expired and stays expired;                        *)
(*   - the stamp about to be written is no older than the claim it renews. *)
(***************************************************************************)
ReplyBacked ==
    \A r \in Replicas :
        pc[r] = "reply" /\ lag[r] <= LeaseDuration => holder = r /\ age <= lag[r]

LonePatcher ==
    \A r, q \in Replicas : AboutToPatch(r) /\ AboutToPatch(q) => r = q

PatchJustified ==
    \A r \in Replicas :
        AboutToPatch(r) => holder # NoHolder /\ (holder = r \/ age > LeaseDuration)

ClaimBacked ==
    \A r \in Replicas : ValidLeader(r) => holder = r /\ age <= belief[r]

StampYounger ==
    \A r \in Replicas :
        pc[r] \in {"create", "patch"} => lag[r] <= belief[r] \/ belief[r] > LeaseDuration

PatchPrepared == \A r \in Replicas : pc[r] = "patch" => decision[r] = "patch"

Backed == ReplyBacked /\ LonePatcher /\ PatchJustified /\ ClaimBacked

ElectionInv == StampYounger /\ PatchPrepared /\ (~ contended => Backed)

\* At the start nobody claims and nobody patches.
LEMMA ElectionInvInit == ElectionInit => ElectionInv
<1> SUFFICES ASSUME ElectionInit PROVE ElectionInv
  OBVIOUS
<1>1. \A r \in Replicas : pc[r] = "start" /\ ~ isLeader[r]
  BY DEF ElectionInit
<1>2. StampYounger /\ PatchPrepared
  BY <1>1 DEF StampYounger, PatchPrepared
<1>3. Backed
  BY <1>1 DEF Backed, ReplyBacked, LonePatcher, PatchJustified, ClaimBacked, AboutToPatch,
     ValidLeader
<1> QED
  BY <1>2, <1>3 DEF ElectionInv

\* A replica goes where it neither reads nor writes, keeping or losing its claim.
LEMMA ElectionRetreat ==
    ASSUME ElectionTypeOK, ElectionInv, NEW r \in Replicas,
           NEW p \in {"start", "reading", "sleep", "down"}, pc' = [pc EXCEPT ![r] = p],
           NEW t, lag' = [lag EXCEPT ![r] = t],
           \A q \in Replicas : isLeader'[q] => isLeader[q],
           UNCHANGED <<holder, age, belief, decision, contended>>
    PROVE  ElectionInv'
<1> USE DEF ElectionTypeOK
<1>1. \A q \in Replicas : q # r => pc'[q] = pc[q] /\ lag'[q] = lag[q]
  OBVIOUS
<1>2. pc'[r] = p
  OBVIOUS
<1>3. StampYounger' /\ PatchPrepared'
  BY <1>1, <1>2 DEF ElectionInv, StampYounger, PatchPrepared
<1>4. Backed => Backed'
  <2>1. \A q \in Replicas : AboutToPatch(q)' => AboutToPatch(q)
    BY <1>1, <1>2 DEF AboutToPatch
  <2>2. \A q \in Replicas : ValidLeader(q)' => ValidLeader(q)
    BY Zenon DEF ValidLeader
  <2> QED
    BY <1>1, <1>2, <2>1, <2>2 DEF Backed, ReplyBacked, LonePatcher, PatchJustified, ClaimBacked
<1> QED
  BY <1>3, <1>4 DEF ElectionInv

\* Time only makes claims and leases expire, a claim no later than its lease.
LEMMA ElectionTick == ElectionTypeOK /\ ElectionInv /\ Tick => ElectionInv'
<1> SUFFICES ASSUME ElectionTypeOK, ElectionInv, Tick PROVE ElectionInv'
  OBVIOUS
<1> USE ConstantTypes DEF ElectionTypeOK
<1>1. /\ UNCHANGED <<holder, pc, decision, isLeader, contended>>
      /\ age' \in {age, age + 1} /\ age \in Nat /\ age' >= age
      /\ \A q \in Replicas : pc[q] \in InFlight => lag'[q] = lag[q] + 1
      /\ \A q \in Replicas : lag[q] \in Nat /\ belief[q] \in Nat /\ belief'[q] \in Nat
      /\ \A q \in Replicas : belief'[q] <= LeaseDuration => belief'[q] = belief[q] + 1
  BY DEF Tick, Older
<1>2. StampYounger' /\ PatchPrepared'
  BY <1>1 DEF ElectionInv, StampYounger, PatchPrepared
<1>3. ASSUME Backed PROVE Backed'
  <2>1. ReplyBacked'
    BY <1>1, <1>3 DEF Backed, ReplyBacked
  <2>2. LonePatcher' /\ PatchJustified'
    BY <1>1, <1>3 DEF Backed, LonePatcher, PatchJustified, AboutToPatch
  <2>3. ClaimBacked'
    BY <1>1, <1>3 DEF Backed, ClaimBacked, ValidLeader
  <2> QED
    BY <2>1, <2>2, <2>3 DEF Backed
<1> QED
  BY <1>1, <1>2, <1>3 DEF ElectionInv

\* Reading the Lease keeps the invariant.
LEMMA ElectionGet ==
    ASSUME ElectionTypeOK, ElectionInv, NEW r \in Replicas, Get(r)
    PROVE  ElectionInv'
<1> USE ConstantTypes DEF ElectionTypeOK
<1>1. /\ \A q \in Replicas : q # r => pc'[q] = pc[q] /\ decision'[q] = decision[q]
      /\ pc'[r] = "got" /\ decision'[r] = Decide(r)
      /\ UNCHANGED <<holder, age, lag, isLeader, belief>>
  BY DEF Get
<1>2. StampYounger' /\ PatchPrepared'
  BY <1>1 DEF ElectionInv, StampYounger, PatchPrepared
<1>3. ASSUME ~ contended' PROVE Backed'
  <2>1. ~ contended /\ (Decide(r) = "patch" => \A q \in Replicas \ {r} : ~ AboutToPatch(q))
    BY <1>3, Zenon DEF Get
  <2>2. Backed
    BY <2>1 DEF ElectionInv
  <2>3. \A q \in Replicas : q # r => (AboutToPatch(q)' <=> AboutToPatch(q))
    BY <1>1 DEF AboutToPatch
  <2>4. AboutToPatch(r)' <=> Decide(r) = "patch"
    BY <1>1 DEF AboutToPatch
  <2>5. LonePatcher'
    BY <2>1, <2>2, <2>3, <2>4 DEF Backed, LonePatcher
  <2>6. Decide(r) = "patch" => holder # NoHolder /\ (holder = r \/ age > LeaseDuration)
    BY DEF Decide, Expired
  <2>7. PatchJustified'
    BY <1>1, <2>2, <2>3, <2>4, <2>6 DEF Backed, PatchJustified
  <2>8. ReplyBacked' /\ ClaimBacked'
    BY <1>1, <2>2 DEF Backed, ReplyBacked, ClaimBacked, ValidLeader
  <2> QED
    BY <2>5, <2>7, <2>8 DEF Backed
<1> QED
  BY <1>2, <1>3 DEF ElectionInv

\* Preparing a patch keeps the invariant: it is for an own or an expired lease, or contended.
LEMMA ElectionPrepare ==
    ASSUME ElectionTypeOK, ElectionInv, NEW r \in Replicas, Prepare(r)
    PROVE  ElectionInv'
<1> USE ConstantTypes DEF ElectionTypeOK
<1>1. /\ \A q \in Replicas : q # r => pc'[q] = pc[q] /\ lag'[q] = lag[q]
      /\ pc[r] = "got" /\ pc'[r] = decision[r] /\ lag'[r] = 0 /\ decision[r] \in {"create", "patch"}
      /\ UNCHANGED <<holder, age, decision, isLeader, belief, contended>>
  BY DEF Prepare
<1>2. StampYounger' /\ PatchPrepared'
  BY <1>1 DEF ElectionInv, StampYounger, PatchPrepared
<1>3. ASSUME Backed PROVE Backed'
  <2>1. \A q \in Replicas : AboutToPatch(q)' <=> AboutToPatch(q)
    BY <1>1 DEF AboutToPatch
  <2>2. LonePatcher' /\ PatchJustified'
    BY <1>1, <1>3, <2>1 DEF Backed, LonePatcher, PatchJustified
  <2>3. ReplyBacked' /\ ClaimBacked'
    BY <1>1, <1>3 DEF Backed, ReplyBacked, ClaimBacked, ValidLeader
  <2> QED
    BY <2>2, <2>3 DEF Backed
<1> QED
  BY <1>1, <1>2, <1>3 DEF ElectionInv

\* The API server writes the lease for r: a create, or a patch.
LEMMA ElectionWrite ==
    ASSUME ElectionTypeOK, ElectionInv, NEW r \in Replicas, CreateServed(r) \/ PatchServed(r)
    PROVE  ElectionInv'
<1> USE ConstantTypes DEF ElectionTypeOK
<1>1. /\ \A q \in Replicas : q # r => pc'[q] = pc[q]
      /\ pc[r] \in {"create", "patch"} /\ pc'[r] = "reply"
      /\ holder' = r /\ age' = lag[r]
      /\ UNCHANGED <<lag, decision, isLeader, belief, contended>>
      /\ pc[r] = "create" => holder = NoHolder
  BY DEF CreateServed, PatchServed
<1>2. StampYounger' /\ PatchPrepared'
  BY <1>1 DEF ElectionInv, StampYounger, PatchPrepared
<1>3. ASSUME Backed PROVE Backed'
  <2>1. pc[r] = "patch" => AboutToPatch(r)
    BY DEF ElectionInv, PatchPrepared, AboutToPatch
  <2>2. holder = NoHolder \/ holder = r \/ age > LeaseDuration
    BY <1>1, <1>3, <2>1 DEF Backed, PatchJustified
  <2>3. \A q \in Replicas : q # r => ~ AboutToPatch(q)
    <3>1. CASE pc[r] = "patch"
      BY <3>1, <1>3, <2>1 DEF Backed, LonePatcher
    <3>2. CASE pc[r] = "create"
      BY <3>2, <1>1, <1>3 DEF Backed, PatchJustified
    <3> QED
      BY <1>1, <3>1, <3>2
  <2>4. \A q \in Replicas : ~ AboutToPatch(q)'
    BY <1>1, <2>3 DEF AboutToPatch
  <2>5. LonePatcher' /\ PatchJustified'
    BY <2>4 DEF LonePatcher, PatchJustified
  <2>6. ClaimBacked'
    <3>1. \A q \in Replicas : ValidLeader(q) => q = r
      BY <1>3, <2>2 DEF Backed, ClaimBacked, ValidLeader
    <3>2. \A q \in Replicas : ValidLeader(q)' <=> ValidLeader(q)
      BY <1>1 DEF ValidLeader
    <3>3. ValidLeader(r) => lag[r] <= belief[r]
      BY <1>1 DEF ElectionInv, StampYounger, ValidLeader
    <3> QED
      BY <1>1, <3>1, <3>2, <3>3 DEF ClaimBacked
  <2>7. ReplyBacked'
    <3>1. \A q \in Replicas : pc[q] = "reply" /\ lag[q] <= LeaseDuration => q = r
      BY <1>3, <2>2 DEF Backed, ReplyBacked
    <3> QED
      BY <1>1, <3>1 DEF ReplyBacked
  <2> QED
    BY <2>5, <2>6, <2>7 DEF Backed
<1> QED
  BY <1>1, <1>2, <1>3 DEF ElectionInv

\* A reply raises only a claim that the Lease backs.
LEMMA ElectionReply ==
    ASSUME ElectionTypeOK, ElectionInv, NEW r \in Replicas, Reply(r)
    PROVE  ElectionInv'
<1> USE ConstantTypes DEF ElectionTypeOK
<1>1. /\ \A q \in Replicas : q # r => /\ pc'[q] = pc[q] /\ lag'[q] = lag[q]
                                       /\ isLeader'[q] = isLeader[q] /\ belief'[q] = belief[q]
      /\ pc[r] = "reply" /\ pc'[r] = "sleep"
      /\ lag[r] \in Nat
      /\ belief'[r] <= LeaseDuration => belief'[r] = lag[r] /\ lag[r] <= LeaseDuration
      /\ UNCHANGED <<holder, age, decision, contended>>
  BY DEF Reply
<1>2. StampYounger' /\ PatchPrepared'
  BY <1>1 DEF ElectionInv, StampYounger, PatchPrepared
<1>3. ASSUME Backed PROVE Backed'
  <2>1. \A q \in Replicas : AboutToPatch(q)' => AboutToPatch(q)
    BY <1>1 DEF AboutToPatch
  <2>2. LonePatcher' /\ PatchJustified'
    BY <1>1, <1>3, <2>1 DEF Backed, LonePatcher, PatchJustified
  <2>3. ReplyBacked'
    BY <1>1, <1>3 DEF Backed, ReplyBacked
  <2>4. ClaimBacked'
    <3>1. ValidLeader(r)' => holder = r /\ age <= belief'[r]
      BY <1>1, <1>3 DEF Backed, ReplyBacked, ValidLeader
    <3>2. \A q \in Replicas : q # r => (ValidLeader(q)' <=> ValidLeader(q))
      BY <1>1 DEF ValidLeader
    <3> QED
      BY <1>1, <1>3, <3>1, <3>2 DEF Backed, ClaimBacked
  <2> QED
    BY <2>2, <2>3, <2>4 DEF Backed
<1> QED
  BY <1>1, <1>2, <1>3 DEF ElectionInv

\* Nothing the invariant speaks of changes.
LEMMA ElectionIdle ==
    ASSUME ElectionInv, UNCHANGED <<holder, age, pc, lag, decision, isLeader, belief, contended>>
    PROVE  ElectionInv'
  BY DEF ElectionInv, StampYounger, PatchPrepared, Backed, ReplyBacked, LonePatcher,
     PatchJustified, ClaimBacked, AboutToPatch, ValidLeader

\* Every step keeps the invariant of the election.
LEMMA ElectionInvNext == ElectionTypeOK /\ ElectionInv /\ [ElectionNext]_electionVars => ElectionInv'
<1> SUFFICES ASSUME ElectionTypeOK, ElectionInv, [ElectionNext]_electionVars PROVE ElectionInv'
  OBVIOUS
<1>1. CASE Tick
  BY <1>1, ElectionTick
<1>2. ASSUME NEW r \in Replicas, Get(r) \/ Prepare(r) \/ CreateServed(r) \/ PatchServed(r) \/ Reply(r)
      PROVE  ElectionInv'
  BY <1>2, ElectionGet, ElectionPrepare, ElectionWrite, ElectionReply
<1>3. ASSUME NEW r \in Replicas,
             \/ Begin(r) \/ Wake(r) \/ RestartReplica(r)
             \/ Follow(r) \/ CreateConflict(r) \/ ApiError(r) \/ Crash(r)
      PROVE  ElectionInv'
  <2>1. \E p \in {"start", "reading", "sleep", "down"} : pc' = [pc EXCEPT ![r] = p]
    BY <1>3 DEF Begin, Wake, RestartReplica, Follow, CreateConflict, ApiError, Crash
  <2>2. \E t : lag' = [lag EXCEPT ![r] = t]
    <3>1. lag = [lag EXCEPT ![r] = lag[r]]
      BY DEF ElectionTypeOK
    <3> QED
      BY <1>3, <3>1 DEF Begin, Wake, RestartReplica, Follow, CreateConflict, ApiError, Crash
  <2>3. isLeader' = isLeader \/ isLeader' = [isLeader EXCEPT ![r] = FALSE]
    BY <1>3 DEF Begin, Wake, RestartReplica, Follow, CreateConflict, ApiError, Crash
  <2>4. \A q \in Replicas : isLeader'[q] => isLeader[q]
    BY <2>3 DEF ElectionTypeOK
  <2>5. UNCHANGED <<holder, age, belief, decision, contended>>
    BY <1>3 DEF Begin, Wake, RestartReplica, Follow, CreateConflict, ApiError, Crash
  <2> QED
    BY <2>1, <2>2, <2>4, <2>5, ElectionRetreat
<1>4. ASSUME NEW r \in Replicas, StartControllers(r) PROVE ElectionInv'
  BY <1>4, ElectionIdle DEF StartControllers
<1>5. CASE UNCHANGED electionVars
  BY <1>5, ElectionIdle DEF electionVars
<1> QED
  BY <1>1, <1>2, <1>3, <1>4, <1>5 DEF ElectionNext, Attempt

\* The invariant of the election holds in every reachable state.
LEMMA ElectionInvariant == ElectionSpec => []ElectionInv
  BY ElectionInvInit, ElectionInvNext, ElectionTypeCorrect, PTL DEF ElectionSpec

(***************************************************************************)
(* leader_election.rs: an unexpired claim is backed by the Lease itself    *)
(* unless two replicas have been about to patch at the same time.          *)
(***************************************************************************)
THEOREM ClaimsBacked == ElectionSpec => []ClaimIsBacked
<1>1. ElectionInv => ClaimIsBacked
  BY DEF ElectionInv, Backed, ClaimBacked, ClaimIsBacked
<1> QED
  BY <1>1, ElectionInvariant, PTL

(***************************************************************************)
(* leader_election.rs: no two replicas hold unexpired claims unless two    *)
(* replicas have been about to patch at the same time.  This is all that   *)
(* is left of "Only one replica can hold the lease at a time".             *)
(***************************************************************************)
THEOREM LeaderUnique == ElectionSpec => []UniqueUnlessContended
<1>1. ElectionInv => UniqueUnlessContended
  <2> SUFFICES ASSUME ElectionInv, ~ contended,
                      NEW r \in Replicas, NEW q \in Replicas, ValidLeader(r), ValidLeader(q)
               PROVE  r = q
    BY DEF UniqueUnlessContended, OnlyOneLeader
  <2> QED
    BY DEF ElectionInv, Backed, ClaimBacked
<1> QED
  BY <1>1, ElectionInvariant, PTL

(***************************************************************************)
(* leader_election.rs, update_lease: without competing patches the Lease   *)
(* changes hands only when it has expired at the moment of the write.      *)
(***************************************************************************)
THEOREM LiveLeaseIsSafe == ElectionSpec => NoTheftOfLiveLease
<1>1. ASSUME ElectionTypeOK, ElectionInv, [ElectionNext]_electionVars
      PROVE  (~ contended /\ holder # NoHolder /\ holder' # holder) => age > LeaseDuration
  <2> SUFFICES ASSUME ~ contended, holder # NoHolder, holder' # holder
               PROVE  age > LeaseDuration
    OBVIOUS
  <2>1. PICK r \in Replicas : CreateServed(r) \/ PatchServed(r)
    BY <1>1 DEF ElectionNext, Attempt, Tick, Begin, Get, Prepare, Follow, CreateConflict, Reply, Wake,
       ApiError, StartControllers, Crash, RestartReplica, electionVars
  <2>2. PatchServed(r)
    BY <2>1 DEF CreateServed
  <2>3. AboutToPatch(r) /\ holder # r
    BY <1>1, <2>2 DEF PatchServed, AboutToPatch, ElectionInv, PatchPrepared
  <2> QED
    BY <1>1, <2>3 DEF ElectionInv, Backed, PatchJustified
<1> QED
  BY <1>1, ElectionInvariant, ElectionTypeCorrect, PTL DEF ElectionSpec, NoTheftOfLiveLease
=============================================================================
