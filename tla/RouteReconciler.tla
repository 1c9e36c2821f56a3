-------------------------- MODULE RouteReconciler --------------------------
(***************************************************************************)
(* One HTTPRoute (or TCPRoute, or TLSRoute) of the Kubernetes controller:  *)
(* the route object in the API server, the watch cache and work queue of   *)
(* the controller that reconciles it, and its entry in the shared store    *)
(* from which the Gateway reconciler renders the proxy's configuration.    *)
(*                                                                         *)
(* A reconcile has an await between its steps: take the object from the    *)
(* watch cache and a snapshot of the store, read the Gateway and judge one *)
(* parentRef after the other, patch the status, write the store.  The      *)
(* cluster (edits, deletions, Services coming and going), the watch, the   *)
(* requeue timer, the Gateway reconciler and a restart of the controller   *)
(* move in between.                                                        *)
(*                                                                         *)
(* Data abstraction.  A parentRef is a listener name (sectionName and port *)
(* together: "no such listener" covers both mismatches) or WholeGateway.   *)
(* A listener is [fits, admits]: whether its protocol fits the route's     *)
(* kind, and the classes of route (namespace, kind and hostnames) its      *)
(* allowedRoutes and hostname let in.  NoGateway stands for a Gateway that *)
(* does not exist and for one of a class that is not Wicket's: the code    *)
(* answers InvalidParentRef to both.                                       *)
(***************************************************************************)
EXTENDS Naturals

CONSTANTS
    Kind,           \* "HTTPRoute", or "TCPRoute" (TLSRoute has the same code)
    GatewaySpecs,   \* the specs the Gateway object may be given
    RouteSpecs,     \* the specs the route may be given: [refs, class]
    NoGateway, NoRoute, WholeGateway,
    Deletions,      \* the ways of deleting it: SUBSET {"background", "foreground"}
    MaxEdits,       \* bound: changes of the cluster
    MaxFaults,      \* bound: API calls that fail
    MaxRestarts     \* bound: restarts of the controller

ASSUME KindAssumption == Kind \in {"HTTPRoute", "TCPRoute"}
ASSUME BoundAssumption ==
    MaxEdits \in Nat /\ MaxFaults \in Nat /\ MaxRestarts \in Nat

VARIABLES
    route,      \* the route in the API server, or NoRoute
    gateway,    \* the Gateway in the API server, or NoGateway
    cache,      \* the route in the controller's watch cache (reflector)
    queue,      \* a reconcile of the route is queued
    timer,      \* a requeue is armed: "none", "resync" (60 s), "retry" (5 s)
    store,      \* the shared store: [gateway, route, backend, others]
    rec,        \* the reconcile under way: [pc, obj, snap, parents, status]
    life,       \* "boot", "listing", "listed", "running"
    listing,    \* the answer to the initial list
    edits, faults, restarts

vars == <<route, gateway, cache, queue, timer, store, rec, life, listing,
          edits, faults, restarts>>

Verdicts == {"Accepted", "BackendNotFound", "NoMatchingParent",
             "NotAllowedByListenerProtocol", "NotAllowedByListenerPolicy",
             "InvalidParentRef"}

\* is_attached: a route whose backend is missing is still accepted.
Attached == {"Accepted", "BackendNotFound"}

NoStatus == [parents |-> [r \in {} |-> "Accepted"], gen |-> 0, stamp |-> 0]

Idle == [pc |-> "idle"]

EmptyStore == [gateway |-> NoGateway, route |-> NoRoute,
               backend |-> FALSE, others |-> FALSE]

\* Mutant: a fresh timestamp is taken for a new status.
SkipsNothing == Kind = "none"

\* HTTPRoute compares the new status with the old one and leaves an equal one
\* alone; TCPRoute and TLSRoute patch a freshly stamped status every time.
SkipsUnchanged == Kind = "HTTPRoute"

HasValidParent(status) ==
    \E r \in DOMAIN status.parents : status.parents[r] \in Attached

\* Which stored routes the config generator renders.
Rendered == store.route # NoRoute /\ HasValidParent(store.route.status)

Ready(s) == s.others /\ life \in {"listed", "running"}

----------------------------------------------------------------------------
(* The verdict on one parentRef.                                           *)

\* The fallback that looks at the Gateway's spec only.
FromSpec(g, ref) ==
    IF ref \notin DOMAIN g THEN "NoMatchingParent"
    ELSE IF ~g[ref].fits THEN "NotAllowedByListenerProtocol"
    ELSE "Accepted"

\* The attachment planner's verdict: the spec's checks and the listener's
\* policy, then the backend (which only HTTPRoute reports).
FromPlanner(g, ref, spec, backend) ==
    IF FromSpec(g, ref) # "Accepted" THEN FromSpec(g, ref)
    ELSE IF spec.class \notin g[ref].admits THEN "NotAllowedByListenerPolicy"
    ELSE IF Kind = "HTTPRoute" /\ ~backend THEN "BackendNotFound"
    ELSE "Accepted"

\* A parentRef without a sectionName: some listener's protocol must fit.
GatewayWide(g) ==
    IF \E l \in DOMAIN g : g[l].fits THEN "Accepted" ELSE "NoMatchingParent"

\* The planner has a result for the ref only when the store was ready, held
\* the Gateway, and held a copy of the route that has the ref.
Planned(snap, ref) ==
    /\ snap.ready
    /\ snap.gateway # NoGateway
    /\ snap.route # NoRoute
    /\ ref \in snap.route.spec.refs

\* Mutant: the planner is never asked.
VerdictOfSpec(snap, g, ref) ==
    IF g = NoGateway THEN "InvalidParentRef"
    ELSE IF ref = WholeGateway THEN GatewayWide(g)
    ELSE FromSpec(g, ref)

Verdict(snap, g, ref) ==
    IF g = NoGateway THEN "InvalidParentRef"
    ELSE IF ref = WholeGateway THEN GatewayWide(g)
    ELSE IF Planned(snap, ref)
         THEN FromPlanner(snap.gateway, ref, snap.route.spec, snap.backend)
         ELSE FromSpec(g, ref)

----------------------------------------------------------------------------
Init ==
    /\ route \in {NoRoute} \cup
         {[spec |-> s, gen |-> 1, status |-> NoStatus, leaving |-> FALSE] : s \in RouteSpecs}
    /\ gateway \in GatewaySpecs
    /\ cache = NoRoute
    /\ queue = FALSE
    /\ timer = "none"
    /\ store = EmptyStore
    /\ rec = Idle
    /\ life = "boot"
    /\ listing = NoRoute
    /\ edits = 0 /\ faults = 0 /\ restarts = 0

----------------------------------------------------------------------------
(* The cluster.                                                            *)

Edit == edits < MaxEdits /\ edits' = edits + 1

\* A route is created, or its spec changed: a new generation, the old status.
\* Generations go on counting over a re-creation, as uid and generation do
\* together.
EditRoute(s) ==
    /\ Edit
    /\ route # NoRoute => ~route.leaving /\ route.spec # s
    /\ route' = [spec |-> s, gen |-> edits + 2, leaving |-> FALSE,
                 status |-> IF route = NoRoute THEN NoStatus ELSE route.status]
    /\ UNCHANGED <<gateway, cache, queue, timer, store, rec, life, listing, faults, restarts>>

\* Background deletion removes the object at once (no finalizer holds it);
\* foreground deletion stamps it first and removes it later.
DeleteRoute ==
    /\ Edit
    /\ route # NoRoute
    /\ \/ "background" \in Deletions /\ ~route.leaving /\ route' = NoRoute
       \/ "foreground" \in Deletions /\ ~route.leaving /\ route' = [route EXCEPT !.leaving = TRUE]
    /\ UNCHANGED <<gateway, cache, queue, timer, store, rec, life, listing, faults, restarts>>

FinishDeletion ==
    /\ route # NoRoute /\ route.leaving
    /\ route' = NoRoute
    /\ UNCHANGED <<gateway, cache, queue, timer, store, rec, life, listing,
                   edits, faults, restarts>>

EditGateway(g) ==
    /\ Edit
    /\ g # gateway
    /\ gateway' = g
    /\ UNCHANGED <<route, cache, queue, timer, store, rec, life, listing, faults, restarts>>

\* The Service behind the route comes or goes.  The store's record of it is
\* taken to be up to date whenever the store is ready.
BackendChanges ==
    /\ Edit
    /\ store' = [store EXCEPT !.backend = ~@]
    /\ UNCHANGED <<route, gateway, cache, queue, timer, rec, life, listing, faults, restarts>>

----------------------------------------------------------------------------
(* Start-up: one list into the store, then the watch.                      *)

\* api.list answers.  A list that fails is retried and changes nothing.
ListRoutes ==
    /\ life = "boot"
    /\ listing' = route
    /\ life' = "listing"
    /\ UNCHANGED <<route, gateway, cache, queue, timer, store, rec, edits, faults, restarts>>

\* Every listed route goes into the store, accepted or not, then mark_listed.
StoreListing ==
    /\ life = "listing"
    /\ store' = IF listing = NoRoute THEN store ELSE [store EXCEPT !.route = listing]
    /\ listing' = NoRoute
    /\ life' = "listed"
    /\ UNCHANGED <<route, gateway, cache, queue, timer, rec, edits, faults, restarts>>

\* Mutant: the watch is started while the listing is still being stored.
StartControllerEarly ==
    /\ life \in {"listing", "listed"}
    /\ cache' = route
    /\ queue' = (route # NoRoute)
    /\ life' = IF life = "listing" THEN life ELSE "running"
    /\ UNCHANGED <<route, gateway, timer, store, rec, listing, edits, faults, restarts>>

\* Controller::new lists and watches again, for itself.
StartController ==
    /\ life = "listed"
    /\ cache' = route
    /\ queue' = (route # NoRoute)
    /\ life' = "running"
    /\ UNCHANGED <<route, gateway, timer, store, rec, listing, edits, faults, restarts>>

\* The other eight resource classes, Gateways among them, have been listed.
OthersListed ==
    /\ ~store.others
    /\ store' = [store EXCEPT !.others = TRUE,
                   !.gateway = IF gateway = NoGateway THEN @ ELSE gateway]
    /\ UNCHANGED <<route, gateway, cache, queue, timer, rec, life, listing,
                   edits, faults, restarts>>

\* The Gateway reconciler upserts the Gateway it was called with; a Gateway
\* that went away, or left Wicket's classes, stays in the store.
SyncGateway ==
    /\ store.others
    /\ gateway \notin {NoGateway, store.gateway}
    /\ store' = [store EXCEPT !.gateway = gateway]
    /\ UNCHANGED <<route, gateway, cache, queue, timer, rec, life, listing,
                   edits, faults, restarts>>

\* The controller process dies and comes back: everything it held is gone.
Restart ==
    /\ restarts < MaxRestarts
    /\ restarts' = restarts + 1
    /\ life' = "boot"
    /\ store' = [EmptyStore EXCEPT !.backend = store.backend]
    /\ cache' = NoRoute /\ queue' = FALSE /\ timer' = "none"
    /\ rec' = Idle /\ listing' = NoRoute
    /\ UNCHANGED <<route, gateway, edits, faults>>

----------------------------------------------------------------------------
(* The watch and the queue (kube-runtime).                                 *)

\* A watch event: the cache follows the API server.  A change queues a
\* reconcile; a deletion only empties the cache (applied_objects).
Deliver ==
    /\ life = "running"
    /\ cache # route
    /\ cache' = route
    /\ queue' = (queue \/ route # NoRoute)
    /\ UNCHANGED <<route, gateway, timer, store, rec, life, listing, edits, faults, restarts>>

TimerFires ==
    /\ timer # "none"
    /\ timer' = "none"
    /\ queue' = TRUE
    /\ UNCHANGED <<route, gateway, cache, store, rec, life, listing, edits, faults, restarts>>

\* A queued reconcile whose object has left the cache: ObjectNotFound.
DropMissing ==
    /\ queue /\ rec.pc = "idle" /\ cache = NoRoute
    /\ queue' = FALSE
    /\ UNCHANGED <<route, gateway, cache, timer, store, rec, life, listing,
                   edits, faults, restarts>>

----------------------------------------------------------------------------
(* reconcile_httproute / reconcile_tcproute / reconcile_tlsroute           *)

\* The parentRefs judged so far; with all of them the new status is known.
Judging(obj, snap, parents) ==
    IF DOMAIN parents = obj.spec.refs
    THEN [pc |-> "patch", obj |-> obj,
          status |-> [parents |-> parents, gen |-> obj.gen, stamp |-> obj.status.stamp]]
    ELSE [pc |-> "judge", obj |-> obj, snap |-> snap, parents |-> parents]

\* The reconcile begins: an object being deleted leaves the store at once;
\* otherwise the store is snapshotted.
Begin ==
    /\ queue /\ rec.pc = "idle" /\ cache # NoRoute
    /\ queue' = FALSE
    /\ timer' = "none"
    /\ IF cache.leaving
       THEN /\ store' = [store EXCEPT !.route = NoRoute]
            /\ rec' = Idle
       ELSE /\ rec' = Judging(cache, [ready |-> Ready(store), gateway |-> store.gateway,
                                      route |-> store.route, backend |-> store.backend],
                              NoStatus.parents)
            /\ store' = store
    /\ UNCHANGED <<route, gateway, cache, life, listing, edits, faults, restarts>>

\* The Gateway (and its class) is read from the API server anew for every
\* parentRef, which gets its verdict.
Judge ==
    /\ rec.pc = "judge"
    /\ \E r \in rec.obj.spec.refs \ DOMAIN rec.parents :
         rec' = Judging(rec.obj, rec.snap,
                        [q \in DOMAIN rec.parents \cup {r} |->
                           IF q = r THEN Verdict(rec.snap, gateway, r) ELSE rec.parents[q]])
    /\ UNCHANGED <<route, gateway, cache, queue, timer, store, life, listing,
                   edits, faults, restarts>>

\* A status patch is sent only for a status that says something new.
Patches == rec.pc = "patch" /\ ~(SkipsUnchanged /\ rec.status = rec.obj.status)

\* The status is written, unless it says what the object already said.
Patch ==
    /\ rec.pc = "patch"
    /\ IF Patches
       THEN /\ route # NoRoute
            /\ LET status == [rec.status EXCEPT !.stamp =
                                IF SkipsUnchanged THEN 0 ELSE 1 - route.status.stamp]
               IN /\ route' = [route EXCEPT !.status = status]
                  /\ rec' = [rec EXCEPT !.pc = "commit", !.status = status]
       ELSE /\ rec' = [rec EXCEPT !.pc = "commit"]
            /\ route' = route
    /\ UNCHANGED <<gateway, cache, queue, timer, store, life, listing,
                   edits, faults, restarts>>

\* An API call of the reconcile fails: error_policy requeues in 5 s, the
\* store is not touched.
Fault ==
    /\ rec.pc = "judge" \/ Patches
    /\ faults < MaxFaults
    /\ faults' = faults + 1
    /\ rec' = Idle
    /\ timer' = "retry"
    /\ UNCHANGED <<route, gateway, cache, queue, store, life, listing, edits, restarts>>

\* The patch of a route that has been deleted meanwhile fails with 404.
PatchMissing ==
    /\ Patches
    /\ route = NoRoute
    /\ rec' = Idle
    /\ timer' = "retry"
    /\ UNCHANGED <<route, gateway, cache, queue, store, life, listing,
                   edits, faults, restarts>>

\* Mutant: a route that was accepted before and no longer is stays stored.
CommitKeeps ==
    /\ rec.pc = "commit"
    /\ store' = [store EXCEPT !.route =
                   IF HasValidParent(rec.status)
                   THEN [rec.obj EXCEPT !.status = rec.status] ELSE @]
    /\ rec' = Idle
    /\ timer' = "resync"
    /\ UNCHANGED <<route, gateway, cache, queue, life, listing, edits, faults, restarts>>

\* The store gets the route with the status just written, or loses it.
Commit ==
    /\ rec.pc = "commit"
    /\ store' = [store EXCEPT !.route =
                   IF HasValidParent(rec.status)
                   THEN [rec.obj EXCEPT !.status = rec.status] ELSE NoRoute]
    /\ rec' = Idle
    /\ timer' = "resync"
    /\ UNCHANGED <<route, gateway, cache, queue, life, listing, edits, faults, restarts>>

----------------------------------------------------------------------------
Cluster ==
    \/ \E s \in RouteSpecs : EditRoute(s)
    \/ DeleteRoute
    \/ \E g \in GatewaySpecs : EditGateway(g)
    \/ BackendChanges
    \/ Restart

System ==
    \/ FinishDeletion
    \/ ListRoutes \/ StoreListing \/ StartController \/ OthersListed \/ SyncGateway
    \/ Deliver \/ TimerFires \/ DropMissing
    \/ Begin \/ Judge \/ Patch \/ Fault \/ PatchMissing \/ Commit

Next == Cluster \/ System

Spec == Init /\ [][Next]_vars

\* Everything the controller, kube-runtime and the API server do is retried
\* or scheduled until it happens; edits and restarts are nobody's duty, and
\* a fault is not owed either.
Fairness ==
    /\ WF_vars(FinishDeletion)
    /\ WF_vars(ListRoutes) /\ WF_vars(StoreListing) /\ WF_vars(StartController)
    /\ WF_vars(OthersListed) /\ WF_vars(SyncGateway)
    /\ WF_vars(Deliver) /\ WF_vars(TimerFires) /\ WF_vars(DropMissing)
    /\ WF_vars(Begin) /\ WF_vars(Judge) /\ WF_vars(Patch) /\ WF_vars(PatchMissing)
    /\ WF_vars(Commit)

FairSpec == Spec /\ Fairness

----------------------------------------------------------------------------
Statuses ==
    {NoStatus} \cup
    [parents : UNION {[s.refs -> Verdicts] : s \in RouteSpecs},
     gen : 1..(MaxEdits + 1), stamp : 0..1]

Routes ==
    [spec : RouteSpecs, gen : 1..(MaxEdits + 1), status : Statuses, leaving : BOOLEAN]

\* The types of the variables.
TypeOK ==
    /\ route \in Routes \cup {NoRoute}
    /\ gateway \in GatewaySpecs \cup {NoGateway}
    /\ cache \in Routes \cup {NoRoute}
    /\ queue \in BOOLEAN
    /\ timer \in {"none", "resync", "retry"}
    /\ store \in [gateway : GatewaySpecs \cup {NoGateway}, route : Routes \cup {NoRoute},
                  backend : BOOLEAN, others : BOOLEAN]
    /\ rec.pc \in {"idle", "judge", "patch", "commit"}
    /\ rec.pc # "idle" => rec.obj \in Routes
    /\ rec.pc \in {"patch", "commit"} => rec.status \in Statuses
    /\ life \in {"boot", "listing", "listed", "running"}
    /\ listing \in Routes \cup {NoRoute}
    /\ edits \in 0..MaxEdits /\ faults \in 0..MaxFaults /\ restarts \in 0..MaxRestarts

\* Nothing is under way or due but the minute's resync.
Quiet ==
    /\ life = "running" /\ rec.pc = "idle" /\ ~queue /\ timer # "retry"
    /\ cache = route

\* Whenever the controller rests, the store agrees with the API server about
\* a route that is there to stay: an accepted route is stored exactly as the
\* API server has it, status included, and a rejected one is not stored
\* (httproute.rs:320-356).
QuietStoreCurrent ==
    Quiet /\ route # NoRoute /\ ~route.leaving =>
        store.route = IF HasValidParent(route.status) THEN route ELSE NoRoute

\* While the controller lives, the store never goes back to an older version
\* of the route: a reconcile of an old object cannot overwrite a newer one,
\* and neither can the initial list (httproute.rs:811-835).
StoreNeverGoesBack ==
    [][life' # "boot" /\ store.route # NoRoute /\ store'.route # NoRoute
         => store'.route.gen >= store.route.gen]_vars

\* Once the cluster stops changing, the route's status says, of its current
\* spec, what the Gateway's current listeners make of every parentRef, and
\* goes on saying so.
EventuallyAccurate ==
    <>[](route # NoRoute /\ ~route.leaving /\ gateway # NoGateway =>
           /\ route.status.gen = route.gen
           /\ \A r \in route.spec.refs : route.status.parents[r] =
                IF r = WholeGateway THEN GatewayWide(gateway)
                ELSE FromPlanner(gateway, r, route.spec, store.backend))

\* Once the cluster stops changing, the controller stops changing the route:
\* its own status patches do not keep re-queueing it.
StatusQuiesces == <>[][FALSE]_route

\* Once the cluster stops changing, the proxy's configuration either always
\* or never has the route.
RenderingSettles == <>[]Rendered \/ <>[]~Rendered

\* A route that is deleted for good leaves the store.
DeletedRouteLeaves == <>[](route = NoRoute) => <>[](store.route = NoRoute)

=============================================================================
