----------------------- MODULE RouteReconcilerProofs -----------------------
(***************************************************************************)
(* Proofs about RouteReconciler, for either kind of route, any specs of    *)
(* route and Gateway, both ways of deletion, and any number of edits,      *)
(* failing calls and restarts.                                             *)
(***************************************************************************)
EXTENDS RouteReconciler, TLAPS

----------------------------------------------------------------------------
(* Types.                                                                  *)

\* The statuses a reconcile comes to.
Judged ==
    [parents : UNION {[s.refs -> Verdicts] : s \in RouteSpecs},
     gen : 1..(MaxEdits + 1), stamp : 0..1]

(***************************************************************************)
(* The reconcile under way has the verdicts it has come to so far, or the  *)
(* fields of its step and a status it has judged itself.                   *)
(***************************************************************************)
RecType ==
    \/ rec = Idle
    \/ rec.pc = "judge" /\ \A r \in DOMAIN rec.parents : rec.parents[r] \in Verdicts
    \/ /\ rec.pc \in {"patch", "commit"}
       /\ rec = [pc |-> rec.pc, obj |-> rec.obj, status |-> rec.status]
       /\ rec.status \in Judged

TypeInv == TypeOK /\ RecType

\* A route, by its fields.
LEMMA RouteFields ==
    ASSUME NEW x \in Routes
    PROVE  /\ x = [spec |-> x.spec, gen |-> x.gen, status |-> x.status, leaving |-> x.leaving]
           /\ x.spec \in RouteSpecs /\ x.gen \in 1..(MaxEdits + 1)
           /\ x.status \in Statuses /\ x.leaving \in BOOLEAN
           /\ x.gen \in Nat
  BY BoundAssumption DEF Routes

\* A route made of fields of their types is a route.
LEMMA RouteOfFields ==
    ASSUME NEW s \in RouteSpecs, NEW g \in 1..(MaxEdits + 1), NEW st \in Statuses, NEW b \in BOOLEAN
    PROVE  [spec |-> s, gen |-> g, status |-> st, leaving |-> b] \in Routes
  BY DEF Routes

\* A route with another status, or being deleted, is a route of the same generation.
LEMMA RouteExcept ==
    ASSUME NEW x \in Routes, NEW st \in Statuses, NEW b \in BOOLEAN
    PROVE  /\ [x EXCEPT !.status = st] \in Routes /\ [x EXCEPT !.leaving = b] \in Routes
           /\ [x EXCEPT !.status = st].gen = x.gen /\ [x EXCEPT !.leaving = b].gen = x.gen
           /\ [x EXCEPT !.status = st].status = st /\ [x EXCEPT !.leaving = b].leaving = b
           /\ [x EXCEPT !.status = st].leaving = x.leaving
           /\ st = x.status => [x EXCEPT !.status = st] = x
<1>1. /\ x = [spec |-> x.spec, gen |-> x.gen, status |-> x.status, leaving |-> x.leaving]
      /\ x.spec \in RouteSpecs /\ x.gen \in 1..(MaxEdits + 1)
      /\ x.status \in Statuses /\ x.leaving \in BOOLEAN
  BY RouteFields
<1>2. /\ [x EXCEPT !.status = st] = [spec |-> x.spec, gen |-> x.gen, status |-> st, leaving |-> x.leaving]
      /\ [x EXCEPT !.leaving = b] = [spec |-> x.spec, gen |-> x.gen, status |-> x.status, leaving |-> b]
  BY <1>1
<1> QED
  BY <1>1, <1>2, RouteOfFields

\* A judged status may be stamped anew.
LEMMA StampType ==
    ASSUME NEW st \in Judged, NEW n \in 0..1
    PROVE  [st EXCEPT !.stamp = n] \in Judged
  BY DEF Judged

\* A judged status is a status.
LEMMA JudgedIsStatus == Judged \subseteq Statuses
  BY DEF Judged, Statuses

\* Every status has a stamp.
LEMMA StampOf == ASSUME NEW st \in Statuses PROVE st.stamp \in 0..1
  BY DEF Statuses, NoStatus

\* Every verdict is one of the list.
LEMMA VerdictType ==
    ASSUME NEW snap, NEW g, NEW ref
    PROVE  Verdict(snap, g, ref) \in Verdicts
  BY DEF Verdict, Verdicts, GatewayWide, FromSpec, FromPlanner

\* What the store may be.
Stores ==
    [gateway : GatewaySpecs \cup {NoGateway}, route : Routes \cup {NoRoute},
     backend : BOOLEAN, others : BOOLEAN]

\* A store made of fields of their types is a store.
LEMMA StoreOfFields ==
    ASSUME NEW g \in GatewaySpecs \cup {NoGateway}, NEW x \in Routes \cup {NoRoute},
           NEW b \in BOOLEAN, NEW o \in BOOLEAN
    PROVE  [gateway |-> g, route |-> x, backend |-> b, others |-> o] \in Stores
  BY Zenon DEF Stores

\* A store, by its fields.
LEMMA StoreFields ==
    ASSUME NEW st \in Stores
    PROVE  /\ st = [gateway |-> st.gateway, route |-> st.route,
                    backend |-> st.backend, others |-> st.others]
           /\ st.gateway \in GatewaySpecs \cup {NoGateway} /\ st.route \in Routes \cup {NoRoute}
           /\ st.backend \in BOOLEAN /\ st.others \in BOOLEAN
  BY DEF Stores

\* The store with another entry for the route keeps the rest.
LEMMA StoreExcept ==
    ASSUME NEW st \in Stores, NEW x \in Routes \cup {NoRoute}
    PROVE  [st EXCEPT !.route = x] \in Stores /\ [st EXCEPT !.route = x].route = x
  BY DEF Stores

\* The store with other Gateways and backends keeps its entry for the route.
LEMMA StoreOthers ==
    ASSUME NEW st \in Stores, NEW g \in GatewaySpecs \cup {NoGateway}, NEW o \in BOOLEAN
    PROVE  /\ [st EXCEPT !.backend = ~@] \in Stores /\ [st EXCEPT !.backend = ~@].route = st.route
           /\ [st EXCEPT !.gateway = g] \in Stores /\ [st EXCEPT !.gateway = g].route = st.route
           /\ [st EXCEPT !.others = o, !.gateway = g] \in Stores
           /\ [st EXCEPT !.others = o, !.gateway = g].route = st.route
           /\ [EmptyStore EXCEPT !.backend = st.backend] \in Stores
           /\ [EmptyStore EXCEPT !.backend = st.backend].route = NoRoute
<1> DEFINE b == ~st.backend
<1> DEFINE f == FALSE
<1>1. /\ st = [gateway |-> st.gateway, route |-> st.route, backend |-> st.backend, others |-> st.others]
      /\ st.gateway \in GatewaySpecs \cup {NoGateway} /\ st.route \in Routes \cup {NoRoute}
      /\ st.backend \in BOOLEAN /\ st.others \in BOOLEAN
  BY StoreFields
<1>2. b \in BOOLEAN /\ f \in BOOLEAN
  BY Zenon
<1>3. [st EXCEPT !.backend = ~@] = [st EXCEPT !.backend = b]
  BY Zenon
<1> HIDE DEF b, f
<1>4. [st EXCEPT !.backend = b] =
        [gateway |-> st.gateway, route |-> st.route, backend |-> b, others |-> st.others]
  BY <1>1
<1>5. [st EXCEPT !.gateway = g] =
        [gateway |-> g, route |-> st.route, backend |-> st.backend, others |-> st.others]
  BY <1>1
<1>6. [st EXCEPT !.others = o, !.gateway = g] =
        [gateway |-> g, route |-> st.route, backend |-> st.backend, others |-> o]
  <2> DEFINE y == [st EXCEPT !.others = o]
  <2>1. [st EXCEPT !.others = o, !.gateway = g] = [y EXCEPT !.gateway = g]
    OBVIOUS
  <2>2. y = [gateway |-> st.gateway, route |-> st.route, backend |-> st.backend, others |-> o]
    BY <1>1
  <2> HIDE DEF y
  <2>3. [y EXCEPT !.gateway = g] =
          [gateway |-> g, route |-> st.route, backend |-> st.backend, others |-> o]
    BY <2>2
  <2> QED
    BY <2>1, <2>3
<1>7. [EmptyStore EXCEPT !.backend = st.backend] =
        [gateway |-> NoGateway, route |-> NoRoute, backend |-> st.backend, others |-> f]
  <2>1. EmptyStore = [gateway |-> NoGateway, route |-> NoRoute, backend |-> f, others |-> f]
    BY Zenon DEF EmptyStore, f
  <2> QED
    BY <2>1
<1>8. [EmptyStore EXCEPT !.backend = st.backend] \in Stores
  BY <1>1, <1>2, <1>7, StoreOfFields
<1>9. [st EXCEPT !.gateway = g] \in Stores /\ [st EXCEPT !.others = o, !.gateway = g] \in Stores
  BY <1>1, <1>5, <1>6, StoreOfFields
<1>10. [st EXCEPT !.backend = ~@] \in Stores
  BY <1>1, <1>2, <1>3, <1>4, StoreOfFields
<1> QED
  BY <1>3, <1>4, <1>5, <1>6, <1>7, <1>8, <1>9, <1>10

\* An idle controller has no object at hand.
LEMMA IdlePc == Idle.pc = "idle"
  BY DEF Idle

\* The type invariant, in terms of the store's type.
Parts ==
    /\ route \in Routes \cup {NoRoute}
    /\ gateway \in GatewaySpecs \cup {NoGateway}
    /\ cache \in Routes \cup {NoRoute}
    /\ queue \in BOOLEAN
    /\ timer \in {"none", "resync", "retry"}
    /\ store \in Stores
    /\ rec.pc \in {"idle", "judge", "patch", "commit"}
    /\ rec.pc # "idle" => rec.obj \in Routes
    /\ rec.pc \in {"patch", "commit"} => rec.status \in Statuses
    /\ life \in {"boot", "listing", "listed", "running"}
    /\ listing \in Routes \cup {NoRoute}
    /\ edits \in 0..MaxEdits /\ faults \in 0..MaxFaults /\ restarts \in 0..MaxRestarts

\* Parts is the type invariant.
LEMMA TypeParts == (TypeOK <=> Parts) /\ (TypeOK' <=> Parts')
  BY DEF TypeOK, Parts, Stores

----------------------------------------------------------------------------
\* The cluster's steps keep the types.
LEMMA ClusterTypes ==
    ASSUME TypeInv, Cluster
    PROVE  TypeInv'
<1> USE BoundAssumption, TypeParts DEF TypeInv, Parts
<1>1. ASSUME NEW s \in RouteSpecs, EditRoute(s) PROVE TypeInv'
  <2>1. NoStatus \in Statuses
    BY DEF Statuses
  <2>2. route # NoRoute => route.status \in Statuses
    BY RouteFields
  <2>3. edits + 2 \in 1..(MaxEdits + 1) /\ edits + 1 \in 0..MaxEdits
    BY <1>1 DEF EditRoute, Edit
  <2>4. route' \in Routes
    <3> DEFINE st == IF route = NoRoute THEN NoStatus ELSE route.status
    <3>1. route' = [spec |-> s, gen |-> edits + 2, status |-> st, leaving |-> FALSE]
      BY <1>1 DEF EditRoute
    <3> QED
      BY <2>1, <2>2, <2>3, <3>1, RouteOfFields
  <2> QED
    BY <1>1, <2>3, <2>4 DEF EditRoute, Edit, RecType
<1>2. CASE DeleteRoute
  <2>1. route' \in Routes \cup {NoRoute}
    <3>1. route \in Routes /\ route.status \in Statuses
      BY <1>2, RouteFields DEF DeleteRoute
    <3>2. route' = NoRoute \/ route' = [route EXCEPT !.leaving = TRUE]
      BY <1>2 DEF DeleteRoute
    <3>3. [route EXCEPT !.leaving = TRUE] \in Routes
      BY <3>1, RouteExcept
    <3> QED
      BY <3>2, <3>3
  <2> QED
    BY <1>2, <2>1 DEF DeleteRoute, Edit, RecType
<1>3. ASSUME NEW g \in GatewaySpecs, EditGateway(g) PROVE TypeInv'
  BY <1>3 DEF EditGateway, Edit, RecType
<1>4. CASE BackendChanges
  <2>1. store' = [store EXCEPT !.backend = ~@] /\ store \in Stores
    BY <1>4 DEF BackendChanges
  <2>2. store' \in Stores
    BY <2>1, StoreOthers, Zenon
  <2> QED
    BY <1>4, <2>2 DEF BackendChanges, Edit, RecType
<1>5. CASE Restart
  <2>1. store' = [EmptyStore EXCEPT !.backend = store.backend] /\ store \in Stores
    BY <1>5 DEF Restart
  <2>2. store' \in Stores
    BY <2>1, StoreOthers, Zenon
  <2>3. RecType' /\ rec'.pc = "idle"
    BY <1>5, IdlePc DEF Restart, RecType
  <2> QED
    <3>1. restarts' \in 0..MaxRestarts
      BY <1>5 DEF Restart
    <3>2. queue' \in BOOLEAN
      BY <1>5 DEF Restart
    <3>3. Parts'
      BY <1>5, <2>2, <2>3, <3>1, <3>2, Zenon DEF Restart
    <3> QED
      BY <2>3, <3>3
<1> QED
  BY <1>1, <1>2, <1>3, <1>4, <1>5 DEF Cluster

\* Start, watch and timer keep the types.
LEMMA WatchTypes ==
    ASSUME TypeInv,
           \/ FinishDeletion \/ ListRoutes \/ StoreListing \/ StartController \/ OthersListed
           \/ SyncGateway \/ Deliver \/ TimerFires \/ DropMissing
    PROVE  TypeInv'
<1> USE TypeParts DEF TypeInv, Parts
<1>1. CASE FinishDeletion \/ ListRoutes \/ StartController \/ Deliver \/ TimerFires \/ DropMissing
  BY <1>1 DEF FinishDeletion, ListRoutes, StartController, Deliver, TimerFires, DropMissing, RecType
<1>2. CASE StoreListing
  <2>1. store' \in Stores
    BY <1>2, StoreExcept DEF StoreListing
  <2> QED
    BY <1>2, <2>1 DEF StoreListing, RecType
<1>3. CASE OthersListed
  <2> DEFINE g == IF gateway = NoGateway THEN store.gateway ELSE gateway
  <2>1. store' = [store EXCEPT !.others = TRUE, !.gateway = g]
    <3>1. store = [gateway |-> store.gateway, route |-> store.route,
                   backend |-> store.backend, others |-> store.others]
      BY StoreFields
    <3> QED
      BY <1>3, <3>1 DEF OthersListed
  <2>2. g \in GatewaySpecs \cup {NoGateway}
    BY StoreFields
  <2>3. store' \in Stores
    <3> HIDE DEF g
    <3> QED
      BY <2>1, <2>2, StoreOthers
  <2> QED
    BY <1>3, <2>3 DEF OthersListed, RecType
<1>4. CASE SyncGateway
  <2>1. store' \in Stores
    BY <1>4, StoreOthers DEF SyncGateway
  <2> QED
    BY <1>4, <2>1 DEF SyncGateway, RecType
<1> QED
  BY <1>1, <1>2, <1>3, <1>4

\* A reconcile that goes on judging, or knows the new status, has its types.
LEMMA JudgingType ==
    ASSUME NEW obj \in Routes, NEW snap, NEW ps, ps = [r \in DOMAIN ps |-> ps[r]],
           \A r \in DOMAIN ps : ps[r] \in Verdicts,
           rec' = Judging(obj, snap, ps)
    PROVE  /\ RecType' /\ rec'.pc \in {"judge", "patch"} /\ rec'.obj = obj
           /\ rec'.pc = "patch" => rec'.status \in Statuses
<1>1. obj.spec \in RouteSpecs /\ obj.gen \in 1..(MaxEdits + 1) /\ obj.status.stamp \in 0..1
  BY RouteFields, StampOf
<1>2. CASE DOMAIN ps = obj.spec.refs
  <2> DEFINE st == [parents |-> ps, gen |-> obj.gen, stamp |-> obj.status.stamp]
  <2>1. ps \in [obj.spec.refs -> Verdicts]
    BY <1>2
  <2>2. ps \in UNION {[s.refs -> Verdicts] : s \in RouteSpecs}
    BY <1>1, <2>1
  <2>3. st \in Judged
    BY <1>1, <2>2 DEF Judged
  <2>4. rec' = [pc |-> "patch", obj |-> obj, status |-> st]
    BY <1>2 DEF Judging
  <2> HIDE DEF st
  <2>5. /\ rec'.pc = "patch" /\ rec'.obj = obj /\ rec'.status = st
        /\ rec' = [pc |-> rec'.pc, obj |-> rec'.obj, status |-> rec'.status]
    BY <2>4
  <2> QED
    BY <2>3, <2>5, JudgedIsStatus DEF RecType
<1>3. CASE DOMAIN ps # obj.spec.refs
  <2>1. rec' = [pc |-> "judge", obj |-> obj, snap |-> snap, parents |-> ps]
    BY <1>3 DEF Judging
  <2>2. rec'.pc = "judge" /\ rec'.obj = obj /\ rec'.parents = ps
    BY <2>1
  <2> QED
    BY <2>2 DEF RecType
<1> QED
  BY <1>2, <1>3

\* A reconcile begins with no verdict.
LEMMA NoVerdictsYet ==
    /\ NoStatus.parents = [r \in DOMAIN NoStatus.parents |-> NoStatus.parents[r]]
    /\ \A r \in DOMAIN NoStatus.parents : NoStatus.parents[r] \in Verdicts
  BY DEF NoStatus

\* The next state judges the object, or has judged it.
Judges(obj) ==
    /\ rec'.pc \in {"judge", "patch"} /\ rec'.obj = obj
    /\ rec'.pc = "patch" => rec'.status \in Statuses

\* What each step of a reconcile makes of the reconcile at hand.
LEMMA RecStep ==
    ASSUME TypeInv
    PROVE  /\ Begin => IF cache.leaving THEN rec' = Idle
                    ELSE RecType' /\ Judges(cache)
           /\ Judge => RecType' /\ Judges(rec.obj)
           /\ Patch => /\ rec'.pc = "commit" /\ rec'.obj = rec.obj
                       /\ rec' = [pc |-> rec'.pc, obj |-> rec'.obj, status |-> rec'.status]
           /\ Patch /\ ~Patches => rec'.status = rec.status /\ route' = route
           /\ Patch /\ Patches => \E st \in Judged : rec'.status = st /\ route' = [route EXCEPT !.status = st]
           /\ Patch /\ Patches => route \in Routes /\ route # NoRoute
<1> USE TypeParts DEF TypeInv, Parts
<1>1. Begin => IF cache.leaving THEN rec' = Idle
                    ELSE RecType' /\ Judges(cache)
  <2> SUFFICES ASSUME Begin, ~cache.leaving PROVE RecType' /\ Judges(cache)
    BY DEF Begin
  <2> DEFINE sn == [ready |-> Ready(store), gateway |-> store.gateway,
                    route |-> store.route, backend |-> store.backend]
  <2>1. cache \in Routes /\ rec' = Judging(cache, sn, NoStatus.parents)
    BY DEF Begin
  <2> HIDE DEF sn
  <2> QED
    BY <2>1, JudgingType, NoVerdictsYet DEF Judges
<1>2. ASSUME Judge PROVE RecType' /\ Judges(rec.obj)
  <2>1. rec.pc = "judge" /\ rec.obj \in Routes
    BY <1>2 DEF Judge
  <2>2. \A r \in DOMAIN rec.parents : rec.parents[r] \in Verdicts
    BY <2>1, IdlePc DEF RecType
  <2>3. PICK r \in rec.obj.spec.refs \ DOMAIN rec.parents :
           rec' = Judging(rec.obj, rec.snap,
                          [q \in DOMAIN rec.parents \cup {r} |->
                             IF q = r THEN Verdict(rec.snap, gateway, r) ELSE rec.parents[q]])
    BY <1>2 DEF Judge
  <2> DEFINE ps == [q \in DOMAIN rec.parents \cup {r} |->
                      IF q = r THEN Verdict(rec.snap, gateway, r) ELSE rec.parents[q]]
  <2>4. ps = [q \in DOMAIN ps |-> ps[q]] /\ \A q \in DOMAIN ps : ps[q] \in Verdicts
    BY <2>2, VerdictType
  <2>5. rec' = Judging(rec.obj, rec.snap, ps)
    BY <2>3
  <2> HIDE DEF ps
  <2> QED
    BY <2>1, <2>4, <2>5, JudgingType DEF Judges
<1>3. ASSUME Patch
      PROVE  /\ rec'.pc = "commit" /\ rec'.obj = rec.obj
             /\ rec' = [pc |-> rec'.pc, obj |-> rec'.obj, status |-> rec'.status]
             /\ ~Patches => rec'.status = rec.status /\ route' = route
             /\ Patches => \E st \in Judged : rec'.status = st /\ route' = [route EXCEPT !.status = st]
             /\ Patches => route \in Routes /\ route # NoRoute
  <2>1. /\ rec.pc = "patch" /\ rec.status \in Judged
        /\ rec = [pc |-> rec.pc, obj |-> rec.obj, status |-> rec.status]
    BY <1>3, IdlePc DEF Patch, RecType
  <2>2. CASE Patches
    <3>1. route \in Routes /\ route # NoRoute
      BY <1>3, <2>2 DEF Patch
    <3> DEFINE st == [rec.status EXCEPT !.stamp = IF SkipsUnchanged THEN 0 ELSE 1 - route.status.stamp]
    <3>2. st \in Judged
      <4>1. (IF SkipsUnchanged THEN 0 ELSE 1 - route.status.stamp) \in 0..1
        BY <3>1, RouteFields, StampOf
      <4> QED
        BY <2>1, <4>1, StampType
    <3>3. route' = [route EXCEPT !.status = st] /\ rec' = [rec EXCEPT !.pc = "commit", !.status = st]
      BY <1>3, <2>2 DEF Patch
    <3> HIDE DEF st
    <3>4. rec' = [pc |-> "commit", obj |-> rec.obj, status |-> st]
      BY <2>1, <3>3
    <3>5. /\ rec'.pc = "commit" /\ rec'.obj = rec.obj /\ rec'.status = st
          /\ rec' = [pc |-> rec'.pc, obj |-> rec'.obj, status |-> rec'.status]
      BY <3>4
    <3> QED
      BY <2>2, <3>1, <3>2, <3>3, <3>5
  <2>3. CASE ~Patches
    <3>1. rec' = [rec EXCEPT !.pc = "commit"] /\ route' = route
      BY <1>3, <2>3 DEF Patch
    <3>2. rec' = [pc |-> "commit", obj |-> rec.obj, status |-> rec.status]
      BY <2>1, <3>1
    <3> QED
      BY <2>3, <3>1, <3>2
  <2> QED
    BY <2>2, <2>3
<1> QED
  BY <1>1, <1>2, <1>3

\* The steps of a reconcile keep the types.
LEMMA ReconcileTypes ==
    ASSUME TypeInv, Begin \/ Judge \/ Patch \/ Fault \/ PatchMissing \/ Commit
    PROVE  TypeInv'
<1> USE TypeParts DEF TypeInv, Parts
<1>1. CASE Begin
  <2>1. cache \in Routes
    BY <1>1 DEF Begin
  <2>2. CASE cache.leaving
    <3>1. store' \in Stores
      BY <1>1, <2>2, StoreExcept DEF Begin
    <3>2. RecType' /\ rec'.pc = "idle"
      BY <1>1, <2>2, IdlePc DEF Begin, RecType
    <3> QED
      BY <1>1, <3>1, <3>2 DEF Begin
  <2>3. CASE ~cache.leaving
    <3>1. store' = store /\ RecType' /\ Judges(cache)
      BY <1>1, <2>3, RecStep DEF Begin
    <3> QED
      BY <1>1, <2>1, <3>1 DEF Begin, Judges
  <2> QED
    BY <2>2, <2>3
<1>2. CASE Judge
  <2>1. RecType' /\ Judges(rec.obj) /\ rec.obj \in Routes
    BY <1>2, RecStep DEF Judge
  <2> QED
    BY <1>2, <2>1 DEF Judge, Judges
<1>3. CASE Patch
  <2>1. /\ rec.pc = "patch" /\ rec.obj \in Routes /\ rec.status \in Judged
    BY <1>3, IdlePc DEF Patch, RecType
  <2>2. /\ rec'.pc = "commit" /\ rec'.obj = rec.obj /\ rec'.status \in Judged
        /\ rec' = [pc |-> rec'.pc, obj |-> rec'.obj, status |-> rec'.status]
    BY <1>3, <2>1, RecStep
  <2>3. route' \in Routes \cup {NoRoute}
    <3>1. CASE Patches
      <4>1. PICK st \in Judged : route' = [route EXCEPT !.status = st]
        BY <1>3, <3>1, RecStep
      <4>2. route \in Routes /\ st \in Statuses
        BY <1>3, <3>1, RecStep, JudgedIsStatus
      <4> QED
        BY <4>1, <4>2, RouteExcept
    <3>2. CASE ~Patches
      BY <1>3, <3>2, RecStep
    <3> QED
      BY <3>1, <3>2
  <2>4. RecType'
    BY <2>2 DEF RecType
  <2> QED
    BY <1>3, <2>1, <2>2, <2>3, <2>4, JudgedIsStatus DEF Patch
<1>4. CASE Fault \/ PatchMissing
  <2>1. RecType' /\ rec'.pc = "idle"
    BY <1>4, IdlePc DEF Fault, PatchMissing, RecType
  <2> QED
    BY <1>4, <2>1, BoundAssumption DEF Fault, PatchMissing
<1>5. CASE Commit
  <2>1. rec.obj \in Routes /\ rec.status \in Statuses
    BY <1>5 DEF Commit
  <2>2. [rec.obj EXCEPT !.status = rec.status] \in Routes
    BY <2>1, RouteExcept
  <2>3. store' \in Stores
    <3> DEFINE x == IF HasValidParent(rec.status)
                    THEN [rec.obj EXCEPT !.status = rec.status] ELSE NoRoute
    <3>1. x \in Routes \cup {NoRoute} /\ store' = [store EXCEPT !.route = x]
      BY <1>5, <2>2 DEF Commit
    <3> HIDE DEF x
    <3> QED
      BY <3>1, StoreExcept
  <2>4. RecType' /\ rec'.pc = "idle"
    BY <1>5, IdlePc DEF Commit, RecType
  <2> QED
    BY <1>5, <2>3, <2>4 DEF Commit
<1> QED
  BY <1>1, <1>2, <1>3, <1>4, <1>5

\* Every step keeps the types.
LEMMA TypeNext == TypeInv /\ [Next]_vars => TypeInv'
<1> SUFFICES ASSUME TypeInv, [Next]_vars PROVE TypeInv'
  OBVIOUS
<1>1. CASE UNCHANGED vars
  BY <1>1 DEF vars, TypeInv, TypeOK, RecType
<1> QED
  BY <1>1, ClusterTypes, WatchTypes, ReconcileTypes DEF Next, System

\* The types hold at the start.
LEMMA TypeInit == Init => TypeInv
<1> SUFFICES ASSUME Init PROVE TypeInv
  OBVIOUS
<1>1. NoStatus \in Statuses /\ 1 \in 1..(MaxEdits + 1)
  BY BoundAssumption DEF Statuses
<1>2. route \in Routes \cup {NoRoute}
  BY <1>1, RouteOfFields DEF Init
<1> QED
  <2>1. store \in Stores
    BY StoreOfFields DEF Init, EmptyStore
  <2>2. RecType /\ rec.pc = "idle"
    BY IdlePc DEF Init, RecType
  <2> QED
    <3>1. edits \in 0..MaxEdits /\ faults \in 0..MaxFaults /\ restarts \in 0..MaxRestarts
      BY BoundAssumption DEF Init
    <3>2. Parts
      BY <1>2, <2>1, <2>2, <3>1, Zenon DEF Init, Parts
    <3> QED
      BY <2>2, <3>2, TypeParts DEF TypeInv

(***************************************************************************)
(* httproute.rs, tcproute.rs, tlsroute.rs: every variable of the route's   *)
(* controller keeps its type; every status that is written is one of the   *)
(* verdicts for each parentRef of the object that was judged.              *)
(***************************************************************************)
THEOREM TypeCorrect == Spec => []TypeOK
<1>1. TypeInv => TypeOK
  BY DEF TypeInv
<1> QED
  BY <1>1, TypeInit, TypeNext, PTL DEF Spec

----------------------------------------------------------------------------
(* Versions never go back.                                                 *)

\* Generation a is not newer than b's, when there is a b.
NotNewer(a, b) == a # NoRoute /\ b # NoRoute => a.gen <= b.gen

(***************************************************************************)
(* Before the watch runs nothing is cached, queued or reconciled; before   *)
(* the listing is stored the store is empty.                               *)
(***************************************************************************)
Phases ==
    /\ life # "running" => cache = NoRoute /\ rec = Idle /\ ~queue /\ timer = "none"
    /\ life \in {"boot", "listing"} => store.route = NoRoute
    /\ life # "listing" => listing = NoRoute

(***************************************************************************)
(* The copies of the route, from the newest to the oldest: the API server, *)
(* the watch cache, the object under reconcile, the store.  No copy is     *)
(* newer than the last edit.                                               *)
(***************************************************************************)
Versions ==
    /\ \A x \in {route, cache, listing, store.route} : x # NoRoute => x.gen <= edits + 1
    /\ rec.pc # "idle" => rec.obj.gen <= edits + 1
    /\ NotNewer(cache, route) /\ NotNewer(listing, route)
    /\ NotNewer(store.route, route) /\ NotNewer(store.route, cache)
    /\ rec.pc # "idle" => /\ NotNewer(rec.obj, route) /\ NotNewer(rec.obj, cache)
                          /\ NotNewer(store.route, rec.obj)

(***************************************************************************)
(* The reconcile works on what the cache holds, unless it is queued again, *)
(* and, once it has written the status, on the status the object has.      *)
(***************************************************************************)
Fresh ==
    rec.pc # "idle" =>
      /\ rec.obj # NoRoute /\ ~rec.obj.leaving
      /\ ~queue => cache \in {rec.obj, NoRoute}
      /\ rec.pc = "commit" /\ route = rec.obj => rec.status = rec.obj.status

RouteInv == TypeInv /\ Phases /\ Versions /\ Fresh /\ QuietStoreCurrent

\* Every copy of the route has a number for its generation.
LEMMA GensAreNumbers ==
    ASSUME TypeInv
    PROVE  /\ route # NoRoute => route.gen \in Nat
           /\ cache # NoRoute => cache.gen \in Nat
           /\ listing # NoRoute => listing.gen \in Nat
           /\ store.route # NoRoute => store.route.gen \in Nat
           /\ rec.pc # "idle" => rec.obj.gen \in Nat
           /\ edits \in Nat
  BY TypeParts, RouteFields, StoreFields, BoundAssumption DEF TypeInv, Parts

\* What each action that writes the store makes of the route's entry.
LEMMA StoreEntry ==
    ASSUME TypeInv
    PROVE  /\ BackendChanges \/ OthersListed \/ SyncGateway => store'.route = store.route
           /\ Restart => store'.route = NoRoute
           /\ StoreListing => store'.route = IF listing = NoRoute THEN store.route ELSE listing
           /\ Begin => store'.route = IF cache.leaving THEN NoRoute ELSE store.route
           /\ Commit => store'.route = IF HasValidParent(rec.status)
                                       THEN [rec.obj EXCEPT !.status = rec.status] ELSE NoRoute
<1> USE TypeParts DEF TypeInv, Parts
<1>1. store \in Stores /\ listing \in Routes \cup {NoRoute} /\ cache \in Routes \cup {NoRoute}
      /\ gateway \in GatewaySpecs \cup {NoGateway}
  OBVIOUS
<1>2. ASSUME BackendChanges PROVE store'.route = store.route
  <2>1. store' = [store EXCEPT !.backend = ~@]
    BY <1>2 DEF BackendChanges
  <2> QED
    BY <1>1, <2>1, StoreOthers, Zenon
<1>3. ASSUME OthersListed PROVE store'.route = store.route
  <2> DEFINE g == IF gateway = NoGateway THEN store.gateway ELSE gateway
  <2>1. store' = [store EXCEPT !.others = TRUE, !.gateway = g]
    <3>1. store = [gateway |-> store.gateway, route |-> store.route,
                   backend |-> store.backend, others |-> store.others]
      BY StoreFields
    <3> QED
      BY <1>3, <3>1 DEF OthersListed
  <2>2. g \in GatewaySpecs \cup {NoGateway}
    BY StoreFields
  <2> HIDE DEF g
  <2> QED
    BY <2>1, <2>2, StoreOthers
<1>4. ASSUME SyncGateway PROVE store'.route = store.route
  <2>1. store' = [store EXCEPT !.gateway = gateway]
    BY <1>4 DEF SyncGateway
  <2> QED
    BY <1>1, <2>1, StoreOthers
<1>5. ASSUME Restart PROVE store'.route = NoRoute
  <2>1. store' = [EmptyStore EXCEPT !.backend = store.backend]
    BY <1>5 DEF Restart
  <2> QED
    BY <1>1, <2>1, StoreOthers, Zenon
<1>6. StoreListing => store'.route = IF listing = NoRoute THEN store.route ELSE listing
  BY <1>1, StoreExcept DEF StoreListing
<1>7. Begin => store'.route = IF cache.leaving THEN NoRoute ELSE store.route
  BY <1>1, StoreExcept DEF Begin
<1>8. ASSUME Commit
      PROVE  store'.route = IF HasValidParent(rec.status)
                            THEN [rec.obj EXCEPT !.status = rec.status] ELSE NoRoute
  <2> DEFINE x == IF HasValidParent(rec.status)
                  THEN [rec.obj EXCEPT !.status = rec.status] ELSE NoRoute
  <2>1. x \in Routes \cup {NoRoute} /\ store' = [store EXCEPT !.route = x]
    BY <1>8, RouteExcept, RouteFields DEF Commit
  <2>2. store'.route = x
    <3> HIDE DEF x
    <3> QED
      BY <1>1, <2>1, StoreExcept
  <2> QED
    BY <2>2
<1> QED
  BY <1>2, <1>3, <1>4, <1>5, <1>6, <1>7, <1>8

\* The cluster's steps keep the order of the copies.
LEMMA ClusterKeeps ==
    ASSUME RouteInv, TypeInv', Cluster \/ FinishDeletion
    PROVE  RouteInv'
<1> USE GensAreNumbers DEF RouteInv
<1>1. ASSUME NEW s \in RouteSpecs, EditRoute(s) PROVE RouteInv'
  <2>1. /\ edits' = edits + 1
        /\ UNCHANGED <<cache, queue, timer, store, rec, life, listing>>
    BY <1>1 DEF EditRoute, Edit
  <2>2. route'.gen = edits + 2
    BY <1>1 DEF EditRoute
  <2>3. Phases' /\ Versions'
    BY <2>1, <2>2 DEF Phases, Versions, NotNewer
  <2>4. route' # NoRoute => route' # cache /\ (rec.pc # "idle" => route' # rec.obj)
    BY <2>2 DEF Versions
  <2>5. Fresh'
    BY <2>1, <2>4 DEF Fresh
  <2>6. QuietStoreCurrent'
    BY <2>1, <2>2, <2>4 DEF QuietStoreCurrent, Quiet, Versions
  <2> QED
    BY <2>3, <2>5, <2>6
<1>2. CASE DeleteRoute
  <2>1. /\ edits' = edits + 1 /\ route # NoRoute
        /\ UNCHANGED <<cache, queue, timer, store, rec, life, listing>>
    BY <1>2 DEF DeleteRoute, Edit
  <2>2. route' = NoRoute \/ (route'.leaving /\ route'.gen = route.gen)
    <3>1. route \in Routes /\ route.status \in Statuses
      BY <2>1, TypeParts, RouteFields DEF TypeInv, Parts
    <3>2. route' = NoRoute \/ route' = [route EXCEPT !.leaving = TRUE]
      BY <1>2 DEF DeleteRoute
    <3>3. ASSUME route' = [route EXCEPT !.leaving = TRUE]
          PROVE  route'.leaving /\ route'.gen = route.gen
      <4>1. route = [spec |-> route.spec, gen |-> route.gen, status |-> route.status,
                     leaving |-> route.leaving]
        BY <3>1, RouteFields
      <4>2. route'.leaving
        BY <3>3, <4>1
      <4>3. route'.gen = route.gen
        BY <3>3, <4>1
      <4> QED
        BY <4>2, <4>3
    <3>4. CASE route' = NoRoute
      BY <3>4
    <3> QED
      BY <3>2, <3>3, <3>4
  <2>3. Phases' /\ Versions'
    BY <2>1, <2>2 DEF Phases, Versions, NotNewer
  <2>4. Fresh' /\ QuietStoreCurrent'
    BY <2>1, <2>2 DEF Fresh, QuietStoreCurrent
  <2> QED
    BY <2>3, <2>4
<1>3. CASE FinishDeletion
  BY <1>3 DEF FinishDeletion, Phases, Versions, NotNewer, Fresh, QuietStoreCurrent
<1>4. CASE (\E g \in GatewaySpecs : EditGateway(g)) \/ BackendChanges
  <2>1. /\ edits' = edits + 1 /\ store'.route = store.route
        /\ UNCHANGED <<route, cache, queue, timer, rec, life, listing>>
    BY <1>4, StoreEntry DEF EditGateway, BackendChanges, Edit
  <2> QED
    BY <2>1 DEF Phases, Versions, NotNewer, Fresh, QuietStoreCurrent, Quiet
<1>5. CASE Restart
  <2>1. /\ life' = "boot" /\ store'.route = NoRoute /\ cache' = NoRoute /\ listing' = NoRoute
        /\ rec' = Idle /\ ~queue' /\ timer' = "none" /\ UNCHANGED <<route, edits>>
    BY <1>5, StoreEntry DEF Restart
  <2> QED
    BY <2>1, IdlePc DEF Phases, Versions, NotNewer, Fresh, QuietStoreCurrent, Quiet
<1> QED
  BY <1>1, <1>2, <1>3, <1>4, <1>5 DEF Cluster

\* The start of the controller, its watch and its timers keep the order of the copies.
LEMMA WatchKeeps ==
    ASSUME RouteInv, TypeInv',
           \/ ListRoutes \/ StoreListing \/ StartController \/ OthersListed
           \/ SyncGateway \/ Deliver \/ TimerFires \/ DropMissing
    PROVE  RouteInv'
<1> USE GensAreNumbers, IdlePc DEF RouteInv
<1>1. CASE ListRoutes
  BY <1>1 DEF ListRoutes, Phases, Versions, NotNewer, Fresh, QuietStoreCurrent, Quiet
<1>2. CASE StoreListing
  <2>1. /\ store'.route = listing \/ store'.route = store.route
        /\ life = "listing" /\ life' = "listed" /\ listing' = NoRoute
        /\ UNCHANGED <<route, cache, queue, timer, rec, edits>>
    BY <1>2, StoreEntry DEF StoreListing
  <2> QED
    BY <2>1 DEF Phases, Versions, NotNewer, Fresh, QuietStoreCurrent, Quiet
<1>3. CASE StartController
  <2>1. /\ life = "listed" /\ life' = "running" /\ cache' = route /\ (route # NoRoute => queue')
        /\ UNCHANGED <<route, timer, store, rec, listing, edits>>
    BY <1>3 DEF StartController
  <2>2. Phases' /\ Versions'
    BY <2>1 DEF Phases, Versions, NotNewer
  <2>3. Fresh' /\ QuietStoreCurrent'
    BY <2>1 DEF Phases, Fresh, QuietStoreCurrent, Quiet
  <2> QED
    BY <2>2, <2>3
<1>4. CASE OthersListed \/ SyncGateway
  <2>1. /\ store'.route = store.route
        /\ UNCHANGED <<route, cache, queue, timer, rec, life, listing, edits>>
    BY <1>4, StoreEntry DEF OthersListed, SyncGateway
  <2> QED
    BY <2>1 DEF Phases, Versions, NotNewer, Fresh, QuietStoreCurrent, Quiet
<1>5. CASE Deliver
  <2>1. /\ life = "running" /\ cache' = route /\ (route # NoRoute => queue') /\ (queue => queue')
        /\ UNCHANGED <<route, timer, store, rec, life, listing, edits>>
    BY <1>5 DEF Deliver
  <2>2. Phases' /\ Versions'
    BY <2>1 DEF Phases, Versions, NotNewer
  <2>3. Fresh' /\ QuietStoreCurrent'
    BY <2>1 DEF Fresh, QuietStoreCurrent, Quiet
  <2> QED
    BY <2>2, <2>3
<1>6. CASE TimerFires
  BY <1>6 DEF TimerFires, Phases, Versions, NotNewer, Fresh, QuietStoreCurrent, Quiet
<1>7. CASE DropMissing
  BY <1>7 DEF DropMissing, Phases, Versions, NotNewer, Fresh, QuietStoreCurrent, Quiet
<1> QED
  BY <1>1, <1>2, <1>3, <1>4, <1>5, <1>6, <1>7

\* The steps of a reconcile keep the order of the copies.
LEMMA ReconcileKeeps ==
    ASSUME RouteInv, TypeInv', Begin \/ Judge \/ Patch \/ Fault \/ PatchMissing \/ Commit
    PROVE  RouteInv'
<1> USE GensAreNumbers, IdlePc DEF RouteInv
<1>1. CASE Begin
  <2>1. /\ queue /\ rec.pc = "idle" /\ cache # NoRoute /\ ~queue'
        /\ store'.route = IF cache.leaving THEN NoRoute ELSE store.route
        /\ IF cache.leaving THEN rec' = Idle ELSE Judges(cache)
        /\ timer' = "none" /\ UNCHANGED <<route, cache, life, listing, edits>>
    BY <1>1, StoreEntry, RecStep DEF Begin
  <2>2. Phases' /\ Versions'
    BY <2>1 DEF Phases, Versions, NotNewer, Judges
  <2>3. Fresh' /\ QuietStoreCurrent'
    BY <2>1 DEF Fresh, QuietStoreCurrent, Quiet, Judges
  <2> QED
    BY <2>2, <2>3
<1>2. CASE Judge
  <2>1. /\ rec.pc = "judge" /\ rec'.pc \in {"judge", "patch"} /\ rec'.obj = rec.obj
        /\ UNCHANGED <<route, cache, queue, timer, store, life, listing, edits>>
    BY <1>2, RecStep DEF Judge, Judges
  <2> QED
    BY <2>1 DEF Phases, Versions, NotNewer, Fresh, QuietStoreCurrent, Quiet
<1>3. CASE Patch
  <2>1. /\ rec.pc = "patch" /\ rec'.pc = "commit" /\ rec'.obj = rec.obj
        /\ UNCHANGED <<cache, queue, timer, store, life, listing, edits>>
    BY <1>3, RecStep DEF Patch
  <2>2. /\ route # NoRoute /\ route' # NoRoute => route'.gen = route.gen
        /\ route = NoRoute => route' = NoRoute
        /\ route' = rec.obj => rec'.status = rec.obj.status
    <3>1. CASE Patches
      <4>1. PICK st \in Judged : rec'.status = st /\ route' = [route EXCEPT !.status = st]
        BY <1>3, <3>1, RecStep
      <4>2. route \in Routes /\ st \in Statuses /\ route # NoRoute
        BY <1>3, <3>1, RecStep, JudgedIsStatus
      <4>3. route'.gen = route.gen /\ route'.status = st
        BY <4>1, <4>2, RouteExcept
      <4> QED
        BY <4>1, <4>2, <4>3
    <3>2. CASE ~Patches
      BY <1>3, <2>1, <3>2, RecStep DEF Patches
    <3> QED
      BY <3>1, <3>2
  <2>3. Phases' /\ Versions'
    BY <2>1, <2>2 DEF Phases, Versions, NotNewer
  <2>4. Fresh' /\ QuietStoreCurrent'
    BY <2>1, <2>2 DEF Fresh, QuietStoreCurrent, Quiet
  <2> QED
    BY <2>3, <2>4
<1>4. CASE Fault \/ PatchMissing
  <2>1. /\ rec.pc # "idle" /\ rec' = Idle /\ timer' = "retry"
        /\ UNCHANGED <<route, cache, queue, store, life, listing, edits>>
    BY <1>4 DEF Fault, PatchMissing, Patches
  <2> QED
    BY <2>1 DEF Phases, Versions, NotNewer, Fresh, QuietStoreCurrent, Quiet
<1>5. CASE Commit
  <2>1. /\ rec.pc = "commit" /\ rec' = Idle /\ timer' = "resync"
        /\ UNCHANGED <<route, cache, queue, life, listing, edits>>
        /\ store'.route = IF HasValidParent(rec.status)
                          THEN [rec.obj EXCEPT !.status = rec.status] ELSE NoRoute
    BY <1>5, StoreEntry DEF Commit
  <2>2. rec.obj \in Routes /\ rec.status \in Statuses
    BY <2>1, TypeParts DEF TypeInv, Parts
  <2>3. /\ [rec.obj EXCEPT !.status = rec.status].gen = rec.obj.gen
        /\ rec.status = rec.obj.status => [rec.obj EXCEPT !.status = rec.status] = rec.obj
    <3>1. [rec.obj EXCEPT !.status = rec.status].gen = rec.obj.gen
      BY <2>2, RouteExcept
    <3>2. ASSUME rec.status = rec.obj.status PROVE [rec.obj EXCEPT !.status = rec.status] = rec.obj
      <4> DEFINE st == rec.status
      <4>1. st \in Statuses /\ st = rec.obj.status
        BY <2>2, <3>2
      <4> HIDE DEF st
      <4>2. [rec.obj EXCEPT !.status = st] = rec.obj
        BY <2>2, <4>1, RouteExcept, Zenon
      <4> QED
        BY <4>2 DEF st
    <3> QED
      BY <3>1, <3>2
  <2>4. Phases' /\ Versions'
    <3>1. store'.route # NoRoute => store'.route.gen = rec.obj.gen
      BY <2>1, <2>3
    <3>2. Phases'
      BY <2>1 DEF Phases
    <3> QED
      BY <2>1, <3>1, <3>2 DEF Versions, NotNewer, Fresh
  <2>5. Fresh'
    BY <2>1 DEF Fresh
  <2>6. QuietStoreCurrent'
    BY <2>1, <2>3 DEF Fresh, QuietStoreCurrent, Quiet
  <2> QED
    BY <2>4, <2>5, <2>6
<1> QED
  BY <1>1, <1>2, <1>3, <1>4, <1>5

\* Every step keeps the invariant.
LEMMA RouteInvNext == RouteInv /\ [Next]_vars => RouteInv'
<1> SUFFICES ASSUME RouteInv, [Next]_vars PROVE RouteInv'
  OBVIOUS
<1>1. TypeInv'
  BY TypeNext DEF RouteInv
<1>2. CASE UNCHANGED vars
  BY <1>1, <1>2 DEF vars, RouteInv, Phases, Versions, Fresh, QuietStoreCurrent, Quiet
<1> QED
  BY <1>1, <1>2, ClusterKeeps, WatchKeeps, ReconcileKeeps DEF Next, System

\* The invariant holds at the start.
LEMMA RouteInvInit == Init => RouteInv
<1> SUFFICES ASSUME Init PROVE RouteInv
  OBVIOUS
<1>1. TypeInv
  BY TypeInit
<1>2. /\ cache = NoRoute /\ listing = NoRoute /\ rec = Idle /\ ~queue /\ timer = "none"
      /\ life = "boot" /\ edits = 0 /\ store.route = NoRoute
      /\ route # NoRoute => route.gen = 1
  BY DEF Init, EmptyStore
<1> QED
  BY <1>1, <1>2, IdlePc DEF RouteInv, Phases, Versions, NotNewer, Fresh, QuietStoreCurrent, Quiet

(***************************************************************************)
(* httproute.rs:320-356: whenever the controller rests, the shared store   *)
(* has an accepted route exactly as the API server has it and does not     *)
(* have a rejected one, however edits, deletions, failed patches, restarts *)
(* and the other reconcilers interleave with the reconcile's awaits.       *)
(***************************************************************************)
THEOREM QuietStore == Spec => []QuietStoreCurrent
<1>1. RouteInv => QuietStoreCurrent
  BY DEF RouteInv
<1> QED
  BY <1>1, RouteInvInit, RouteInvNext, PTL DEF Spec

\* No step but a restart puts an older version of the route into the store.
LEMMA StoreForward ==
    ASSUME RouteInv, [Next]_vars, life' # "boot", store.route # NoRoute, store'.route # NoRoute
    PROVE  store'.route.gen >= store.route.gen
<1> USE GensAreNumbers, IdlePc DEF RouteInv
<1>1. CASE StoreListing
  BY <1>1, StoreEntry DEF StoreListing, Phases
<1>2. CASE Begin
  BY <1>2, StoreEntry
<1>3. CASE Commit
  <2>1. store'.route = [rec.obj EXCEPT !.status = rec.status] /\ rec.pc = "commit"
    BY <1>3, StoreEntry DEF Commit
  <2>2. rec.obj \in Routes /\ rec.status \in Statuses
    BY <2>1, TypeParts DEF TypeInv, Parts
  <2>3. store'.route.gen = rec.obj.gen
    BY <2>1, <2>2, RouteExcept
  <2> QED
    BY <2>1, <2>3 DEF Versions, NotNewer, Fresh
<1>4. CASE BackendChanges \/ OthersListed \/ SyncGateway
  BY <1>4, StoreEntry
<1>5. CASE UNCHANGED store
  BY <1>5
<1> QED
  BY <1>1, <1>2, <1>3, <1>4, <1>5 DEF Next, System, Cluster, vars, EditRoute, DeleteRoute, EditGateway,
     Restart, FinishDeletion, ListRoutes, StartController, Deliver, TimerFires, DropMissing, Judge,
     Patch, Fault, PatchMissing

(***************************************************************************)
(* httproute.rs:811-835: while the controller lives, the store never goes  *)
(* back to an older version of the route, neither by a reconcile that      *)
(* began before the last edit nor by the initial list.                     *)
(***************************************************************************)
THEOREM StoreForwardOnly == Spec => StoreNeverGoesBack
<1>1. RouteInv /\ [Next]_vars
        => [life' # "boot" /\ store.route # NoRoute /\ store'.route # NoRoute
              => store'.route.gen >= store.route.gen]_vars
  BY StoreForward
<1> QED
  BY <1>1, RouteInvInit, RouteInvNext, PTL DEF Spec, StoreNeverGoesBack

============================================================================
