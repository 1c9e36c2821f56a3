---------------------------- MODULE ControlPlane ----------------------------
(***************************************************************************)
(* The controller as a whole: nine watch loops over one API server and one *)
(* shared store, the configuration they render for every Gateway and the   *)
(* proxies that load it.                                                   *)
(*                                                                         *)
(* RouteReconciler and GatewayRuntime show one route and one runtime in    *)
(* detail.  Here every kind of object is present with its real content, a  *)
(* reconcile is one step up to the point where it gives way to others, and *)
(* the questions are about the whole: does what the cluster says reach the *)
(* proxies, and do the proxies do what it says?                            *)
(*                                                                         *)
(* kube-runtime, external, queues an object when it is created or changed  *)
(* or its timer fires, drops what no longer exists by then, never handles  *)
(* one object twice at a time, and wakes Gateways for what they watch.  A  *)
(* timer fires when nothing is queued; that TCPRoutes and TLSRoutes also   *)
(* wake themselves by stamping their status again adds nothing to that.    *)
(***************************************************************************)
EXTENDS RouteVerdicts

CONSTANTS
    Worlds,     \* a sequence of [start, changes, together, settled, readonly]
    Requests,   \* HTTP requests: [host, path, method, headers]
    ServerNames \* the server names TLS clients ask for, Absent among them

INSTANCE GatewayApi

\* The objects there are or may come to be in a world, and their ids.
Objects(w) == w.start \cup {c.to : c \in {x \in w.changes : x.what = "put"}}

Ids == UNION {{IdOf(o) : o \in Objects(Worlds[i])} : i \in DOMAIN Worlds}

\* An object is a record with a kind, a namespace and a name, and says whether
\* it has a deletion timestamp.
IsObject(o) == o = [f \in DOMAIN o |-> o[f]] /\ {"kind", "ns", "name", "leaving"} \subseteq DOMAIN o

ASSUME WorldsAssumption ==
    \A i \in DOMAIN Worlds : \A o \in Objects(Worlds[i]) : IsObject(o)

VARIABLES
    world,      \* the scenario: an index of Worlds
    api,        \* the objects in the API server, by id
    todo,       \* what may still happen to the cluster and the controller
    queue,      \* the ids whose reconcile is due
    timers,     \* the armed timers: id -> "resync" or "retry"
    wakes,      \* watch events the Gateway controller has not looked up yet
    store,      \* the shared store
    work,       \* reconciles under way, by id
    files,      \* the certificate directory: path -> [crt, key]
    applied,    \* the runtime objects of every Gateway
    running,    \* the configuration its proxies have loaded
    gaps        \* history: changes that no reconcile has taken in

vars == <<world, api, todo, queue, timers, wakes, store, work, files, applied, running, gaps>>

Routes == ToSet(RouteKinds)
Watched == {"Service", "EndpointSlice", "Secret", "ReferenceGrant"}

Live(kind) == {api[id] : id \in {x \in DOMAIN api : x.kind = kind}}

\* The key of a slice is that of its Service, by its label.
WatchKey(o) == IF o.kind = "EndpointSlice" THEN <<o.ns, o.service>> ELSE KeyOf(o)

GatewayId(key) == [kind |-> "Gateway", ns |-> key[1], name |-> key[2]]

GatewayIds(keys) == {GatewayId(key) : key \in keys} \cap DOMAIN api

\* sanitize_filename_component: namespace and name, joined with a dash.
SecretPath(o) == o.ns \o o.name

NoPair == [crt |-> Absent, key |-> Absent]

PairAt(path) == IF path \in DOMAIN files THEN files[path] ELSE NoPair

\* load_certified_key: a key is named for the certificate it belongs to.
ValidPair(pair) == pair.crt # Absent /\ pair.crt = pair.key

\* The parts of a store.
IsStore(s) ==
    s = [objects |-> s.objects, present |-> s.present, endpoints |-> s.endpoints,
         secrets |-> s.secrets, listed |-> s.listed]

\* Whatever is known, queued or under way is an object of the world, under its
\* own id.  A timer may outlive its object; a directory that cannot be written
\* is empty.
TypeOK ==
    /\ world \in DOMAIN Worlds /\ todo \subseteq Worlds[world].changes
    /\ IsStore(store)
    /\ \A id \in DOMAIN api : IsObject(api[id]) /\ IdOf(api[id]) = id
    /\ DOMAIN api \subseteq Ids /\ DOMAIN work \subseteq Ids /\ DOMAIN timers \subseteq Ids
    /\ queue \subseteq DOMAIN api
    /\ \A path \in DOMAIN files : files[path] = [crt |-> files[path].crt, key |-> files[path].key]
    /\ Worlds[world].readonly => DOMAIN files = {}

Kinds(objects) == {o.kind : o \in objects}

\* The classes of which there is nothing to list, now or later, count as
\* listed from the start.
FreshStore ==
    [EmptyStore EXCEPT !.listed = ResourceKinds \ Kinds(Objects(Worlds[world]))]

Init ==
    /\ world \in DOMAIN Worlds
    /\ api = [id \in {IdOf(o) : o \in Worlds[world].start} |->
                CHOOSE o \in Worlds[world].start : IdOf(o) = id]
    /\ todo = Worlds[world].changes
    /\ store = FreshStore
    /\ queue = {} /\ timers = <<>> /\ wakes = {} /\ work = <<>>
    /\ files = <<>> /\ applied = <<>> /\ running = <<>> /\ gaps = {}

----------------------------------------------------------------------------
(* The cluster and the watches.                                            *)

\* A change of an object queues it, and the Gateways its parentRefs name.
Touched(o) ==
    {IdOf(o)} \cup (IF IsRoute(o) THEN GatewayIds(route_parent_gateways(o)) ELSE {})

\* Watches start with their controller, after its list.
Notified(ids) == {id \in ids : id.kind \in store.listed}

\* Where the start is not at issue, the first change finds the controllers at
\* rest; those after it come at any time.
Happens(c) ==
    /\ Worlds[world].settled /\ todo = Worlds[world].changes =>
          is_complete(store) /\ queue = {} /\ wakes = {} /\ work = <<>>
    /\ todo' = todo \ {c}

\* A status lives on across an edit of the spec.
WithStatus(o) ==
    IF IdOf(o) \in DOMAIN api /\ (IsRoute(o) \/ o.kind = "Gateway")
    THEN [o EXCEPT !.status = api[IdOf(o)].status] ELSE o

Put(c) ==
    /\ c.what = "put"
    /\ api' = With(api, IdOf(c.to), WithStatus(c.to))
    /\ Happens(c)
    /\ queue' = queue \cup Notified(Touched(c.to))
    /\ wakes' = IF c.to.kind \in Watched THEN wakes \cup {c.to} ELSE wakes
    /\ UNCHANGED <<world, timers, store, work, files, applied, running, gaps>>

\* What is forgotten when an object goes, but for its timer; the cluster collects the runtime
\* of a Gateway.  Only a reconcile of the leaving object could have told.
Gone(id) ==
    LET o == api[id]
        seen == o.leaving /\ id \notin queue /\ id \notin DOMAIN work /\ id.kind \in store.listed
    IN /\ api' = Without(api, id)
       /\ queue' = (queue \ {id}) \cup Notified(Touched(o) \ {id})
       /\ wakes' = IF o.kind \in Watched THEN wakes \cup {o} ELSE wakes
       /\ applied' = Without(applied, id)
       /\ running' = Without(running, id)
       /\ gaps' = IF seen /\ o.kind \notin {"Service", "EndpointSlice"} THEN gaps
                  ELSE gaps \cup {<<o.kind, WatchKey(o)>>}
       /\ UNCHANGED <<world, timers, store, work, files>>

Delete(c) ==
    /\ c.what = "delete"
    /\ c.id \in DOMAIN api
    /\ Happens(c)
    /\ Gone(c.id)

\* The last finalizer of a leaving object is taken away.
Vanish(id) ==
    /\ api[id].leaving
    /\ Gone(id)
    /\ UNCHANGED todo

\* The watches of the Gateway controller: the reverse index says whom an
\* event concerns, as it is when the event is looked at.
MapperFinds(o) ==
    CASE o.kind \in {"Service", "EndpointSlice"} -> gateways_for_service(store, WatchKey(o))
      [] o.kind = "Secret" -> gateways_for_secret(store, WatchKey(o))
      [] o.kind = "ReferenceGrant" -> gateways_for_reference_grant(store, WatchKey(o))

LookUp(o) ==
    /\ wakes' = wakes \ {o}
    /\ queue' = queue \cup Notified(GatewayIds(MapperFinds(o)))
    /\ UNCHANGED <<world, api, todo, timers, store, work, files, applied, running, gaps>>

Restart(c) ==
    /\ c.what = "restart"
    /\ Happens(c)
    /\ store' = FreshStore
    /\ queue' = {} /\ timers' = <<>> /\ wakes' = {} /\ work' = <<>> /\ gaps' = {}
    /\ UNCHANGED <<world, api, files, applied, running>>

----------------------------------------------------------------------------
(* Starting: each controller lists its kind before it watches it.          *)

IsTlsSecret(o) == o.type \in {"kubernetes.io/tls", "Opaque"} /\ o.crt # Absent /\ o.key # Absent

\* What the initial list of a controller puts into the store.  GatewayClasses
\* of others are left out, and EndpointSlices are not looked at.
ListedClasses    == {c \in Live("GatewayClass") : is_wicket_managed(c)}
ListedGateways   == Live("Gateway")
ListedHttpRoutes == Live("HTTPRoute")
ListedTcpRoutes  == Live("TCPRoute")
ListedTlsRoutes  == Live("TLSRoute")
ListedGrants     == Live("ReferenceGrant")
ListedServices   == {KeyOf(o) : o \in Live("Service")}

Listed(kind) ==
    CASE kind = "GatewayClass" -> ListedClasses
      [] kind = "Gateway" -> ListedGateways
      [] kind = "HTTPRoute" -> ListedHttpRoutes
      [] kind = "TCPRoute" -> ListedTcpRoutes
      [] kind = "TLSRoute" -> ListedTlsRoutes
      [] kind = "ReferenceGrant" -> ListedGrants
      [] OTHER -> {}

\* The pair of every TLS Secret is written and validated in turn.  Of two
\* with one path the later one's is left.
ListedSecrets == {o \in Live("Secret") : IsTlsSecret(o)}

ListedPairs(last) ==
    [path \in DOMAIN last |->
        LET pair == [crt |-> last[path].crt, key |-> last[path].key]
        IN IF ValidPair(pair) THEN pair ELSE NoPair]

List(kinds) ==
    LET objects == UNION {Listed(kind) : kind \in kinds}
        secrets == IF "Secret" \in kinds /\ ~Worlds[world].readonly THEN ListedSecrets ELSE {}
        valid == {o \in secrets : ValidPair([crt |-> o.crt, key |-> o.key])}
    IN /\ kinds # {} /\ kinds \cap store.listed = {}
       /\ store' = mark_listed([store EXCEPT
             !.objects = Overlay(@, [id \in {IdOf(o) : o \in objects} |-> api[id]]),
             !.present = IF "Service" \in kinds THEN ListedServices ELSE @,
             !.secrets = @ \cup {KeyOf(o) : o \in valid}], kinds)
       /\ \E last \in [{SecretPath(o) : o \in secrets} -> secrets] :
             /\ \A path \in DOMAIN last : SecretPath(last[path]) = path
             /\ files' = Overlay(files, ListedPairs(last))
       /\ queue' = queue \cup {id \in DOMAIN api : id.kind \in kinds}
       /\ UNCHANGED <<world, api, todo, timers, wakes, work, applied, running, gaps>>

\* A file of some Secret cannot be written: the Secrets before it are on disk
\* and in the store, of its own pair at most the certificate is on disk, and
\* after a pause Secrets are listed afresh.  A list that fails or takes too
\* long is made again and changes nothing.
FailList(c) ==
    /\ "Secret" \notin store.listed /\ ~Worlds[world].readonly
    /\ c.what = "fault"
    /\ Happens(c)
    /\ \E done \in SUBSET ListedSecrets : \E o \in ListedSecrets \ done, halfway \in BOOLEAN :
       \E last \in [{SecretPath(x) : x \in done} -> done] :
          LET written == Overlay(files, ListedPairs(last))
              path == SecretPath(o)
              before == IF path \in DOMAIN written THEN written[path] ELSE NoPair
          IN /\ \A p \in DOMAIN last : SecretPath(last[p]) = p
             /\ files' = IF halfway THEN With(written, path, [crt |-> o.crt, key |-> before.key]) ELSE written
             /\ store' = [store EXCEPT !.secrets =
                   @ \cup {KeyOf(x) : x \in {y \in done : ValidPair([crt |-> y.crt, key |-> y.key])}}]
    /\ UNCHANGED <<world, api, queue, timers, wakes, work, applied, running, gaps>>

\* One list after the other, or all at once where their order is not at issue.
Start ==
    LET missing == ResourceKinds \ store.listed
    IN IF Worlds[world].together THEN List(missing) ELSE \E kind \in missing : List({kind})

----------------------------------------------------------------------------
(* The reconcilers.                                                        *)

Due(id) == id \in queue /\ id \notin DOMAIN work

\* The timers fire once nothing is queued or under way: they are set to a
\* minute or more.  Which one is first is open all the same, since a queued
\* object waits as long as it likes.  What is gone by then is dropped.
Resync ==
    /\ queue = {} /\ work = <<>> /\ timers # <<>>
    /\ queue' = DOMAIN timers \cap DOMAIN api
    /\ timers' = <<>>
    /\ UNCHANGED <<world, api, todo, wakes, store, work, files, applied, running, gaps>>

Requeue(id, why) == timers' = With(timers, id, why)
AwaitChange(id)  == timers' = Without(timers, id)
Handled(id)      == queue' = queue \ {id}
TakenIn(id)      == gaps' = IF id \in DOMAIN api THEN gaps \ {<<id.kind, WatchKey(api[id])>>} ELSE gaps

\* error_policy_*: whatever fails is tried again soon.
RetrySoon(id) == Handled(id) /\ Requeue(id, "retry")

ReconcileGrant(id) ==
    /\ Due(id) /\ id.kind = "ReferenceGrant"
    /\ store' = IF api[id].leaving THEN remove(store, id) ELSE upsert(store, api[id])
    /\ Handled(id) /\ TakenIn(id)
    /\ IF api[id].leaving THEN AwaitChange(id) ELSE Requeue(id, "resync")
    /\ UNCHANGED <<world, api, todo, wakes, work, files, applied, running>>

\* Somebody else's class is ignored, and stays in the store if it was ours.
ReconcileClass(id) ==
    LET c == api[id]
        ours == is_wicket_managed(c) /\ ~c.leaving
    IN /\ Due(id) /\ id.kind = "GatewayClass"
       /\ store' = IF c.leaving THEN remove(store, id)
                   ELSE IF ours THEN upsert(store, c) ELSE store
       /\ api' = IF ours THEN [api EXCEPT ![id].accepted = TRUE] ELSE api
       /\ queue' = (queue \ {id}) \cup (IF api' = api THEN {} ELSE {id})
       /\ IF ours THEN Requeue(id, "resync") ELSE AwaitChange(id)
       /\ gaps' = IF ours \/ c.leaving THEN gaps \ {<<id.kind, KeyOf(c)>>}
                  ELSE IF id \in DOMAIN store.objects THEN gaps \cup {<<id.kind, KeyOf(c)>>} ELSE gaps
       /\ UNCHANGED <<world, todo, wakes, work, files, applied, running>>

----------------------------------------------------------------------------
(* Services and EndpointSlices.                                            *)

\* Before the store is complete the routes are listed instead, and any
\* backendRef with the name counts.
is_service_referenced(key) ==
    IF is_complete(store) THEN key \in service_ref_index(store)
    ELSE \E kind \in Routes : \E r \in Live(kind) : \E i \in DOMAIN BackendRefs(r) :
            key = <<NamespaceOr(BackendRefs(r)[i].ns, r.ns), BackendRefs(r)[i].name>>

ReconcileService(id) ==
    /\ Due(id) /\ id.kind = "Service"
    /\ store' = upsert_service_presence(store, KeyOf(api[id]))
    /\ Handled(id) /\ TakenIn(id)
    /\ IF is_service_referenced(KeyOf(api[id])) THEN Requeue(id, "resync") ELSE AwaitChange(id)
    /\ UNCHANGED <<world, api, todo, wakes, work, files, applied, running>>

\* The ready addresses of all slices of a Service.
ReadyAddresses(key) ==
    SetToSortSeq(UNION {o.ready : o \in {x \in Live("EndpointSlice") : WatchKey(x) = key}},
                 LAMBDA a, b : a < b)

\* A slice of a Service no route refers to is passed over, for good.
SkipSlice(id) ==
    LET key == WatchKey(api[id])
    IN /\ Due(id) /\ id.kind = "EndpointSlice"
       /\ ~is_service_referenced(key)
       /\ Handled(id) /\ AwaitChange(id)
       /\ gaps' = gaps \cup {<<"EndpointSlice", key>>}
       /\ UNCHANGED <<world, api, todo, wakes, store, work, files, applied, running>>

\* The slices are listed, and the store is written when the answer is there.
ListSlices(id) ==
    LET key == WatchKey(api[id])
    IN /\ Due(id) /\ id.kind = "EndpointSlice"
       /\ is_service_referenced(key)
       /\ Handled(id)
       /\ work' = With(work, id, [key |-> key, addrs |-> ReadyAddresses(key)])
       /\ UNCHANGED <<world, api, todo, timers, wakes, store, files, applied, running, gaps>>

StoreEndpoints(id) ==
    LET w == work[id]
    IN /\ id \in DOMAIN work /\ id.kind = "EndpointSlice"
       /\ store' = upsert_endpoints(store, w.key, w.addrs)
       /\ work' = Without(work, id)
       /\ Requeue(id, "resync")
       /\ gaps' = IF w.addrs = ReadyAddresses(w.key) THEN gaps \ {<<"EndpointSlice", w.key>>} ELSE gaps
       /\ UNCHANGED <<world, api, todo, queue, wakes, files, applied, running>>

----------------------------------------------------------------------------
(* Routes.                                                                 *)

\* The Gateway a parentRef names, if it is there and of a Wicket class.  The
\* group and kind of the parentRef are not asked for.
ParentGateway(r, p) ==
    LET id == GatewayId(<<NamespaceOr(p.ns, r.ns), p.name>>)
        ours(g) == \E c \in Live("GatewayClass") : c.name = g.class /\ is_wicket_managed(c)
    IN IF id \in DOMAIN api /\ ours(api[id]) THEN api[id] ELSE Absent

StatusFor(r) ==
    [p \in r.parents |-> ParentVerdict(planner_snapshot(store), ParentGateway(r, p), r, p)]

\* A route that is leaving is taken out of the store.
RemoveRoute(id) ==
    /\ Due(id) /\ id.kind \in Routes /\ api[id].leaving
    /\ store' = remove(store, id)
    /\ Handled(id) /\ TakenIn(id) /\ AwaitChange(id)
    /\ UNCHANGED <<world, api, todo, wakes, work, files, applied, running>>

\* Mutant: a route that is turned away is left in the store as it was.
WrittenIfTaken(s, r) == IF parents_accepted_by_wicket(r.status) THEN upsert(s, r) ELSE s

\* What a reconcile writes into the store: a route some Gateway takes, with
\* its new status, or nothing.
Written(s, r) == IF parents_accepted_by_wicket(r.status) THEN upsert(s, r) ELSE remove(s, IdOf(r))

\* Mutant: a route that has been judged is not judged again.
JudgeRouteOnce(id) ==
    LET r == api[id]
        judged == IF r.status = <<>> THEN [r EXCEPT !.status = StatusFor(r)] ELSE r
    IN /\ Due(id) /\ ~r.leaving
       /\ api' = [api EXCEPT ![id] = judged]
       /\ queue' = (queue \ {id}) \cup (IF judged = r THEN {} ELSE Notified(Touched(r)))
       /\ work' = IF Written(store, judged) = store THEN work ELSE With(work, id, judged)
       /\ timers' = IF Written(store, judged) = store THEN With(timers, id, "resync") ELSE timers
       /\ UNCHANGED <<world, todo, wakes, store, files, applied, running, gaps>>

\* Every parentRef is judged and the status is patched, which is a change of
\* the route like any other.  The store is written later, unless that would
\* change nothing.
JudgeRoute(id) ==
    LET r == api[id]
        judged == [r EXCEPT !.status = StatusFor(r)]
    IN /\ Due(id) /\ ~r.leaving
       /\ api' = [api EXCEPT ![id] = judged]
       /\ queue' = (queue \ {id}) \cup (IF judged = r THEN {} ELSE Notified(Touched(r)))
       /\ work' = IF Written(store, judged) = store THEN work ELSE With(work, id, judged)
       /\ timers' = IF Written(store, judged) = store THEN With(timers, id, "resync") ELSE timers
       /\ UNCHANGED <<world, todo, wakes, store, files, applied, running, gaps>>

reconcile_httproute(id) == id.kind = "HTTPRoute" /\ JudgeRoute(id)
reconcile_tcproute(id)  == id.kind = "TCPRoute" /\ JudgeRoute(id)
reconcile_tlsroute(id)  == id.kind = "TLSRoute" /\ JudgeRoute(id)

StoreRoute(id) ==
    /\ id \in DOMAIN work
    /\ store' = Written(store, work[id])
    /\ work' = Without(work, id)
    /\ Requeue(id, "resync")
    /\ TakenIn(id)
    /\ UNCHANGED <<world, api, todo, queue, wakes, files, applied, running>>

StoreHttpRoute(id) == id.kind = "HTTPRoute" /\ StoreRoute(id)
StoreTcpRoute(id)  == id.kind = "TCPRoute" /\ StoreRoute(id)
StoreTlsRoute(id)  == id.kind = "TLSRoute" /\ StoreRoute(id)

----------------------------------------------------------------------------
(* Secrets.                                                                *)

\* find_referencing_gateways lists the Gateways of Wicket classes afresh.
find_referencing_gateways(key) ==
    {g \in Live("Gateway") :
        /\ key \in CertRefs(g)
        /\ \E c \in Live("GatewayClass") : c.name = g.class /\ is_wicket_managed(c)}

RemoveSecret(id) ==
    /\ Due(id) /\ id.kind = "Secret" /\ api[id].leaving
    /\ store' = remove_tls_secret(store, KeyOf(id))
    /\ files' = IF Worlds[world].readonly THEN files ELSE Without(files, SecretPath(id))
    /\ Handled(id) /\ TakenIn(id) /\ AwaitChange(id)
    /\ UNCHANGED <<world, api, todo, wakes, work, applied, running>>

\* What is no TLS Secret, or no Gateway refers to, is passed over, for good.
\* A Gateway of another namespace that no ReferenceGrant lets in counts all
\* the same: the check moves on to the next Gateway and nothing else.
SkipSecret(id) ==
    LET o == api[id]
    IN /\ Due(id) /\ id.kind = "Secret" /\ ~o.leaving
       /\ ~IsTlsSecret(o) \/ find_referencing_gateways(KeyOf(o)) = {}
       /\ Handled(id) /\ AwaitChange(id)
       /\ gaps' = gaps \cup {<<"Secret", KeyOf(o)>>}
       /\ UNCHANGED <<world, api, todo, wakes, store, work, files, applied, running>>

BeginSecret(id) ==
    LET o == api[id]
    IN /\ Due(id) /\ id.kind = "Secret" /\ ~o.leaving
       /\ IsTlsSecret(o) /\ find_referencing_gateways(KeyOf(o)) # {}
       /\ Handled(id)
       /\ work' = With(work, id, [pc |-> "crt", obj |-> o])
       /\ UNCHANGED <<world, api, todo, timers, wakes, store, files, applied, running, gaps>>

\* write_tls_file: a directory that cannot be written is passed over.
write_tls_file(path, field, data) ==
    files' = IF Worlds[world].readonly THEN files
             ELSE With(files, path, [PairAt(path) EXCEPT ![field] = data])

WriteCert(id) ==
    /\ id \in DOMAIN work /\ id.kind = "Secret" /\ work[id].pc = "crt"
    /\ write_tls_file(SecretPath(id), "crt", work[id].obj.crt)
    /\ work' = [work EXCEPT ![id].pc = "key"]
    /\ UNCHANGED <<world, api, todo, queue, timers, wakes, store, applied, running, gaps>>

WriteKey(id) ==
    /\ id \in DOMAIN work /\ id.kind = "Secret" /\ work[id].pc = "key"
    /\ write_tls_file(SecretPath(id), "key", work[id].obj.key)
    /\ work' = [work EXCEPT ![id].pc = "check"]
    /\ UNCHANGED <<world, api, todo, queue, timers, wakes, store, applied, running, gaps>>

EndSecret(id, why) ==
    /\ work' = Without(work, id)
    /\ Requeue(id, why)
    /\ UNCHANGED <<world, api, queue, wakes, applied, running>>

\* Mutant: a failed write waits for the ordinary timer.
FailWriteQuietly(id, c) ==
    /\ id \in DOMAIN work /\ id.kind = "Secret" /\ work[id].pc \in {"crt", "key"}
    /\ c.what = "fault"
    /\ Happens(c)
    /\ EndSecret(id, "resync")
    /\ UNCHANGED <<store, files, gaps>>

\* The disk is full or the file cannot be renamed, at either file.
FailWrite(id, c) ==
    /\ id \in DOMAIN work /\ id.kind = "Secret" /\ work[id].pc \in {"crt", "key"}
    /\ c.what = "fault"
    /\ Happens(c)
    /\ EndSecret(id, "retry")
    /\ UNCHANGED <<store, files, gaps>>

\* The pair is read back: a good one is stored, a bad one is deleted.
CheckPair(id) ==
    LET key == KeyOf(id)
        good == ValidPair(PairAt(SecretPath(id)))
    IN /\ id \in DOMAIN work /\ id.kind = "Secret" /\ work[id].pc = "check"
       /\ store' = IF good THEN upsert_tls_secret(store, key) ELSE remove_tls_secret(store, key)
       /\ files' = IF good \/ Worlds[world].readonly THEN files ELSE Without(files, SecretPath(id))
       /\ EndSecret(id, IF good THEN "resync" ELSE "retry")
       /\ TakenIn(id)
       /\ UNCHANGED todo

----------------------------------------------------------------------------
(* Gateways and their proxies.                                             *)

\* The class from the store, or else from the API server.
ClassFor(g) ==
    LET live == {c \in Live("GatewayClass") : c.name = g.class}
    IN IF get_gateway_class(store, g.class) # Absent THEN get_gateway_class(store, g.class)
       ELSE IF live # {} THEN CHOOSE c \in live : TRUE ELSE Absent

Managed(g) == ClassFor(g) # Absent /\ is_wicket_managed(ClassFor(g))

\* One that is leaving is taken out of the store; one of another class is
\* ignored, and stays in the store if it was ours; one without a class is
\* tried again.
LeaveGateway(id) ==
    LET g == api[id]
    IN /\ Due(id) /\ id.kind = "Gateway"
       /\ g.leaving \/ ~Managed(g)
       /\ store' = IF g.leaving THEN remove(store, id) ELSE store
       /\ Handled(id)
       /\ gaps' = IF g.leaving THEN gaps \ {<<id.kind, KeyOf(g)>>}
                  ELSE IF ClassFor(g) # Absent THEN gaps \cup {<<id.kind, KeyOf(g)>>} ELSE gaps
       /\ IF g.leaving \/ ClassFor(g) # Absent THEN AwaitChange(id) ELSE Requeue(id, "retry")
       /\ UNCHANGED <<world, api, todo, wakes, work, files, applied, running>>

\* The Gateway is stored, planned and applied, and its status is patched if
\* that changes it.  Before the store is complete only the status is.
reconcile_gateway(id) ==
    LET g == api[id]
        snap == planner_snapshot(upsert(store, g))
        planned == IF snap = Absent THEN Absent ELSE plan(snap, g)
        told == [g EXCEPT !.status = ListenerStatuses(snap, g)]
        failed == snap # Absent /\ planned = Absent
    IN /\ Due(id) /\ id.kind = "Gateway" /\ ~g.leaving /\ Managed(g)
       /\ applied' = IF planned = Absent THEN applied ELSE With(applied, id, planned)
       /\ api' = IF failed THEN api ELSE [api EXCEPT ![id] = told]
       /\ store' = upsert(store, api'[id])
       /\ queue' = (queue \ {id}) \cup (IF api' = api THEN {} ELSE {id})
       /\ Requeue(id, IF planned = Absent THEN "retry" ELSE "resync")
       /\ TakenIn(id)
       /\ UNCHANGED <<world, todo, wakes, work, files, running>>

\* A request to the API server fails before anything is applied or patched;
\* a Gateway is in the store by then.  ReferenceGrants and Services make no
\* request that matters.
FailRequest(id, c) ==
    /\ Due(id) /\ ~api[id].leaving
    /\ c.what = "fault"
    /\ id.kind \in Routes \cup {"GatewayClass", "Gateway", "EndpointSlice", "Secret"}
    /\ Happens(c)
    /\ store' = IF id.kind = "Gateway" /\ Managed(api[id]) THEN upsert(store, api[id]) ELSE store
    /\ RetrySoon(id)
    /\ UNCHANGED <<world, api, wakes, work, files, applied, running, gaps>>

Loads(c) == validate(c) /\ RouterBuilds(c)

\* External: the new pods of a rollout read the file; one they refuse never
\* becomes ready and the old pods go on.
LoadConfig(id) ==
    LET c == applied[id].config
    IN /\ id \in DOMAIN running => running[id] # c
       /\ Loads(c)
       /\ running' = With(running, id, c)
       /\ UNCHANGED <<world, api, todo, queue, timers, wakes, store, work, files, applied, gaps>>

----------------------------------------------------------------------------
Reconcile(id) ==
    \/ ReconcileGrant(id) \/ ReconcileClass(id) \/ ReconcileService(id)
    \/ SkipSlice(id) \/ ListSlices(id) \/ StoreEndpoints(id)
    \/ RemoveRoute(id)
    \/ reconcile_httproute(id) \/ reconcile_tcproute(id) \/ reconcile_tlsroute(id)
    \/ StoreHttpRoute(id) \/ StoreTcpRoute(id) \/ StoreTlsRoute(id)
    \/ RemoveSecret(id) \/ SkipSecret(id) \/ BeginSecret(id)
    \/ WriteCert(id) \/ WriteKey(id) \/ CheckPair(id)
    \/ LeaveGateway(id) \/ reconcile_gateway(id)

Next ==
    \/ Start
    \/ Resync
    \/ \E o \in wakes : LookUp(o)
    \/ \E id \in queue \cup DOMAIN work : Reconcile(id)
    \/ \E id \in DOMAIN applied : LoadConfig(id)
    \/ \E c \in todo : Put(c) \/ Delete(c) \/ Restart(c) \/ FailList(c)
    \/ \E c \in todo, id \in queue \cup DOMAIN work : FailRequest(id, c) \/ FailWrite(id, c)
    \/ \E id \in DOMAIN api : Vanish(id)

\* Something to reconcile, or under way.
Busy == work # <<>> \/ \E id \in queue : Due(id)

Unloaded(id) == (id \notin DOMAIN running \/ running[id] # applied[id].config) /\ Loads(applied[id].config)

\* Controllers list, watches deliver, timers fire, rollouts end, and as long
\* as there is something to reconcile something is reconciled; what comes
\* first is open, and the cluster owes nothing.  The last two are the weak
\* fairness of Reconcile and of LoadConfig with ENABLED written out: while
\* Busy, all but finitely many steps that load nothing are reconciles.
Fairness ==
    /\ WF_vars(Start)
    /\ WF_vars(Resync)
    /\ WF_vars(\E o \in wakes : LookUp(o))
    /\ []<>~Busy \/ []<><<UNCHANGED running>>_vars
    /\ []<>(\A id \in DOMAIN applied : ~Unloaded(id)) \/ []<><<running' # running>>_vars

Spec == Init /\ [][Next]_vars /\ Fairness

----------------------------------------------------------------------------
(* What the API server says, without the store in between.                 *)

Standing(kind) == {o \in Live(kind) : ~o.leaving}

StandingRoutes == UNION {Standing(kind) : kind \in Routes}

Truth ==
    LET referenced == UNION {CoreServices(r) : r \in StandingRoutes}
    IN [gateways |-> Standing("Gateway"),
        routes |-> {r \in StandingRoutes : parents_accepted_by_wicket(r.status)},
        present |-> {KeyOf(o) : o \in Live("Service")},
        grants |-> Standing("ReferenceGrant"), labels |-> <<>>,
        endpoints |-> [key \in {k \in referenced : ReadyAddresses(k) # <<>>} |-> ReadyAddresses(key)],
        secrets |-> {}]

\* A route judged on its own, by what the API server has now.
FairStatus(r) ==
    [p \in r.parents |-> ParentVerdict([Truth EXCEPT !.routes = {r}], ParentGateway(r, p), r, p)]

\* A route only the planner turns away leaves the store, whereupon the spec
\* alone is asked and takes it in again, and so on.
Contested(r) ==
    /\ ~parents_accepted_by_wicket(FairStatus(r))
    /\ \E p \in r.parents : /\ ParentGateway(r, p) # Absent
                             /\ p.section # Absent
                             /\ IsAttached(FromSpec(r.kind, ParentGateway(r, p), p))

\* Routes of two kinds with one name and one parentRef get each other's
\* verdicts: the planner's results are looked up without the kind.
HasTwin(r) ==
    \E x \in StandingRoutes : x.kind # r.kind /\ KeyOf(x) = KeyOf(r) /\ x.parents \cap r.parents # {}

Undisturbed == gaps = {} /\ \A r \in StandingRoutes : ~Contested(r) /\ ~HasTwin(r)

Ours(g) == \E c \in Live("GatewayClass") : c.name = g.class /\ is_wicket_managed(c)

(***************************************************************************)
(* The status of every route comes to say what the Gateways, Services and  *)
(* grants of the cluster say about it, whatever was edited, in whatever    *)
(* order the nine controllers saw it, and through failed requests and a    *)
(* restart; unless an event was passed over, or the planner and the spec   *)
(* check disagree about the route for good.                                *)
(***************************************************************************)
EventuallyJudged ==
    <>[](Undisturbed => \A r \in StandingRoutes : r.status = FairStatus(r))

(***************************************************************************)
(* The runtime of every Gateway comes to be the one planned from what the  *)
(* API server has, with the endpoints that are ready, and its proxies come *)
(* to run it if it can be loaded: no lost wake-up and no stale write into  *)
(* the store outlives the timers.                                          *)
(***************************************************************************)
EventuallyRendered ==
    <>[](Undisturbed => \A g \in Standing("Gateway") :
            LET due == plan(Truth, g)
                id == IdOf(g)
            IN Ours(g) /\ due # Absent =>
                 /\ id \in DOMAIN applied /\ applied[id] = due
                 /\ Loads(due.config) => id \in DOMAIN running /\ running[id] = due.config)

(***************************************************************************)
(* Every plan has the shape of a runtime, and the proxy accepts the        *)
(* configuration in it, with two exceptions: a rule with a timeout, which  *)
(* Config::validate refuses, and a stream listener none of whose routes is *)
(* accepted or has a backend.                                              *)
(***************************************************************************)
RenderedLoads ==
    \A id \in DOMAIN applied :
        LET c == applied[id].config
        IN /\ GatewayRuntimePlan(applied[id])
           /\ \/ Loads(c)
              \/ \E i \in DOMAIN c.routes : c.routes[i].timeout # Absent
              \/ \E i \in DOMAIN c.streams : c.streams[i].upstreams = <<>>

\* The request as the rule of an HTTPRoute sees it.
HostTaken(r, host) ==
    r.hostnames = <<>> \/ (host # Absent /\ \E i \in DOMAIN r.hostnames : HostMatches(r.hostnames[i], host))

PathTaken(path, q) ==
    \/ path = Absent
    \/ path.type = "Exact" /\ q = path.value
    \/ path.type = "PathPrefix" /\ (IsPrefix(path.value, q) \/ path.value = q \o <<"/">>)

RuleTakes(r, i, q) ==
    /\ HostTaken(r, q.host)
    /\ \/ r.rules[i].matches = <<>>
       \/ \E k \in DOMAIN r.rules[i].matches :
             LET m == r.rules[i].matches[k]
             IN /\ PathTaken(m.path, q.path)
                /\ m.methods = {} \/ q.method \in m.methods
                /\ m.headers \subseteq q.headers

\* Two rules, or two Services, whose joined names are the same.
NamesClash(s, g) ==
    LET rs == routes_for_gateway(s, g)
        rules == {<<r, i>> : r \in {x \in rs : x.kind = "HTTPRoute"}, i \in 1..3}
        refs == UNION {{<<r.ns, NamespaceOr(BackendRefs(r)[i].ns, r.ns), BackendRefs(r)[i].name>> :
                          i \in DOMAIN BackendRefs(r)} : r \in {x \in rs : x.kind # "HTTPRoute"}}
    IN \/ \E x, y \in rules : x # y /\ x[2] = y[2] /\ x[1].ns \o x[1].name = y[1].ns \o y[1].name
       \/ \E x, y \in refs : x # y /\ x[1] \o x[3] = y[1] \o y[3]

HttpReaches(s, g, c, q) ==
    LET i == match_request(c.routes, q)
    IN i # 0 => \E r \in routes_for_gateway(s, g) : \E k \in DOMAIN r.rules :
                   /\ r.kind = "HTTPRoute" /\ http_route_is_accepted(r)
                   /\ RuleTakes(r, k, q)
                   /\ c.upstreams[c.routes[i].upstream] = RuleServers(s.endpoints, r, k)

TlsReaches(s, g, c, sni) ==
    \A i \in DOMAIN c.streams :
        LET st == c.streams[i]
            to == match_sni(st, sni)
        IN to # Absent =>
            \E r \in routes_for_gateway(s, g) : \E b \in ToSet(BackendRefs(r)) :
                /\ r.kind = "TLSRoute" /\ stream_route_is_accepted(r)
                /\ HostTaken(r, sni)
                /\ \A k \in DOMAIN st.upstreams :
                      st.upstreams[k].name = to => st.upstreams[k].servers = Servers(s.endpoints, r, b)

(***************************************************************************)
(* A rendered configuration sends every request, and every TLS connection, *)
(* to the backends of a rule that takes it, of a route the Gateway         *)
(* accepted: through the planner, the generator, and the router of the     *)
(* proxy, whatever the order of routes and rules; unless two names clash   *)
(* when they are joined with a dash.                                       *)
(***************************************************************************)
RequestsReachOwnBackends ==
    [][\A id \in DOMAIN applied' :
          LET s == to_planner_snapshot(store')
              c == applied'[id].config
          IN applied' # applied /\ (id \in DOMAIN applied => applied'[id] # applied[id])
             /\ ~NamesClash(s, api'[id]) =>
                /\ \A q \in Requests : HttpReaches(s, api'[id], c, q)
                /\ \A sni \in ServerNames : TlsReaches(s, api'[id], c, sni)]_vars

\* No reconcile of the object is due, under way or about to be retried, and
\* none of its events was passed over.
Settled(id) ==
    /\ id.kind \in store.listed /\ id \notin queue /\ id \notin DOMAIN work
    /\ id \in DOMAIN timers => timers[id] # "retry"
    /\ <<id.kind, KeyOf(id)>> \notin gaps

\* The store keeps a route some Gateway accepted, a class of our own, any
\* Gateway and any grant, as long as it is not leaving.  (A Gateway of another
\* class is passed over, and so never settled.)
Belongs(o) ==
    /\ ~o.leaving
    /\ CASE o.kind = "GatewayClass" -> is_wicket_managed(o)
         [] IsRoute(o) -> parents_accepted_by_wicket(o.status)
         [] OTHER -> TRUE

(***************************************************************************)
(* The store agrees with the API server about every object that has        *)
(* settled: it has the present version, status included, of each route,    *)
(* Gateway, class and grant that belongs in it, and none that left or was  *)
(* turned away.  Status patches, edits between a verdict and the write of  *)
(* the store, failed requests, lists in any order and restarts all come in *)
(* between.                                                                *)
(***************************************************************************)
StoreFollowsApi ==
    \A id \in {x \in Ids : x.kind \in Routes \cup {"GatewayClass", "Gateway", "ReferenceGrant"}} :
        Settled(id) =>
          IF id \in DOMAIN api /\ Belongs(api[id])
          THEN id \in DOMAIN store.objects /\ store.objects[id] = api[id]
          ELSE id \notin DOMAIN store.objects

(***************************************************************************)
(* Once Secrets are listed, a Secret in the store has its own valid pair   *)
(* on disk, the one the API server has, unless its reconcile is due, under *)
(* way or about to be retried, or an event of it was passed over (gaps: no *)
(* Gateway of ours named it, or it was no TLS Secret any more): no failed  *)
(* write, in a list or a reconcile, no restart and no edit between the two *)
(* files leaves a torn pair for good.  Secrets whose namespace and name    *)
(* join to one path overwrite each other and are left out.                 *)
(***************************************************************************)
SecretsOnDisk ==
    \A o \in Live("Secret") :
        LET id == IdOf(o)
            shared == \E x \in Ids : x.kind = "Secret" /\ x # id /\ SecretPath(x) = SecretPath(id)
            retried == id \in DOMAIN timers /\ timers[id] = "retry"
        IN "Secret" \in store.listed /\ KeyOf(o) \in store.secrets /\ ~shared =>
              \/ id \in queue \/ id \in DOMAIN work \/ retried
              \/ <<"Secret", KeyOf(o)>> \in gaps
              \/ PairAt(SecretPath(o)) = [crt |-> o.crt, key |-> o.key]
=============================================================================
