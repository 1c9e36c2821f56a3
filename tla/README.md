# Wicket in TLA+

Models, model checks and proofs for Wicket: an HTTP and TCP/TLS proxy (crates
`wicket`, `wicket-core`, `wicket-stream`, `wicket-tls`) and a Kubernetes Gateway API
controller (`wicket-controller`) that builds and runs such proxies. Paths below are
relative to `src/crates/` unless they say otherwise. `PROJECT.json` maps every definition
that models code to its lines, every run to its properties, and every hazard to the
properties that would catch it.

Paths in code comments of the modules are relative in the same way. Run a model with `tlc -workers 2 -config X.cfg M`, check proofs with `tlapm M.tla`.

## 1. The system

### 1.1 Data plane

| Component | State | Operations | What is hard | What makes it correct |
|---|---|---|---|---|
| L4 stream listener, `wicket-stream/src/proxy.rs` | semaphore permits, `active_tasks`, gauge, cancellation token, two `ArcSwap` slots (router, upstreams) | `run` (accept, refuse, drain), `handle_connection`, `reload` | one task per connection against a drain and a reload; six ways out of a connection | the limit holds; counters are exact on every way out; the drain returns and tells the truth; a connection sees one configuration, or the next to it |
| Backend choice and passive health, `wicket-stream/src/proxy.rs`, `health.rs` | per backend `healthy`, `unhealthy_since`, `consecutive_failures` (three atomics), a round-robin counter, an exported gauge | `next_server`, `report_success`, `report_failure` | three atomics changed one by one by many tasks | records agree with each other; a healthy backend is used; the gauge tells the truth |
| SNI, stream router, endpoints, source-IP pool, PROXY protocol: `sni.rs`, `router.rs`, `endpoint.rs`, `pool.rs`, `protocol.rs` | the pool's counter; otherwise pure | parse, match, bind, encode | byte formats, parts of messages, a counter that wraps | what is parsed is what was sent, or nothing; a receiver decodes what was encoded; addresses take turns |
| HTTP proxy and routing, `wicket-core/src/proxy.rs`, `routing.rs` | two slots, three gauges, a per-request context | the Pingora callbacks, `apply_reload`, `match_request`, the rewriting of paths, the access log | the slots are loaded in two callbacks; a request may be retried, and its path is rewritten on the way | a request is served by one configuration from match to peer; gauges return to zero; an entry of the log is one line |
| Configuration, `wicket-config/src/lib.rs` | none (pure) | `validate`, derived values | many small rules on which the other parts rely | what it admits can be served |
| Configuration watcher, `wicket/src/main.rs` | `last_modified`, the running configuration of the HTTP part and of each stream | poll, load, reload each part | edits at any moment; a file only some of its consumers accept | what is at rest is what is on disk; streams keep their listeners |
| Process start, `wicket/src/main.rs` | the PID file, systemd's socket | options, ports, PID file, notification | successor and predecessor share a file | a process serves only with what it needs; nobody removes another's PID file |
| ACME renewal, `wicket-tls/src/acme/mod.rs`, `storage.rs` | three files per certificate, the served store, expiry times | `initialize`, `check_and_renew`, `save_cert` | crash or failure between files; early returns in a pass | every domain is served; memory follows disk |
| ACME account, order and DNS-01, `acme/mod.rs`, `cloudflare.rs` | the account, records in a zone, authorizations at the server | load or create the account, `request_certificate`, clean-up | leftovers of earlier attempts, failures at every request | challenges are in place when announced; leftovers do not pile up |
| File certificates, `file_watcher.rs`, `cert_store.rs` | files, events, a debounce timer, the store shared with ACME | `load_all`, `start`, `reload_certs` | files change while they are read | the watcher rests on what is on disk; a client gets a certificate for the name it asked for |

### 1.2 Control plane (`wicket-controller/src`)

| Component | State | Operations | What is hard | What makes it correct |
|---|---|---|---|---|
| Leader election, `leader_election.rs`, `main.rs` | the Lease, `is_leader` | get, create, patch, sleep | competing and slow requests, crashes | one leader; a leader again and again |
| Route reconcilers, `reconcilers/{httproute,tcproute,tlsroute}.rs` | the API object, the watch cache, the work queue, the shared store | reconcile: judge, patch status, write the store | the cache, the store and the object differ; status patches queue the next reconcile | the store holds the accepted routes; status settles and is accurate |
| Gateway reconciler, runtime planner and applier, `gateway.rs`, `runtime_plan.rs`, `runtime_applier.rs` | four owned objects, their revision annotations, Deployment status | observe, plan, apply, report | the objects and the pods change between the steps; a rolling update is under way while it is reported on | `Programmed` is true of what has been built; the controller rests only over the latest plan; others' objects are left alone |
| Attachment planner, config generator: `attachment_planner.rs`, `config_generator.rs` | none (pure) | plan, render | many small rules, names joined with dashes, an order in which the first match wins | a request reaches the backends of a rule that takes it; what is rendered loads |
| Shared store, `store.rs`, `context.rs` | maps under one lock, a readiness set, a reverse index | upsert, remove | nine controllers write it in any order | no stale entry outlives the timers |
| Secret reconciler, `secret.rs` | TLS files, the store | validate, write certificate, write key, remove | two files, one after the other, in place of a pair in use | an offered Secret has its own pair on disk |
| Service, EndpointSlice, ReferenceGrant, GatewayClass reconcilers, `service.rs`, `referencegrant.rs`, `gateway_class.rs` | the store | reconcile | slices of one Service are reconciled side by side; events that are passed over | the endpoints in use are the ready ones |

### 1.3 How the parts interact

- `main.rs` loads the configuration, sets up TLS (file watcher, ACME provider), builds the HTTP
  service and one stream proxy per listener, and starts the watcher. The watcher calls
  `reload` on the HTTP part and on each stream (ConfigReload -> HttpProxy, StreamProxy).
- `StreamProxy::reload` replaces the router and the `Upstream` objects, so health starts afresh
  (StreamProxy -> StreamUpstream).
- The file watcher and the ACME provider publish into one `CertManager` (FileCerts <-> AcmeRenewal);
  the provider's orders are made by the ACME client (AcmeRenewal -> AcmeOrder).
- The route reconcilers write the store, the Gateway reconciler renders it into a ConfigMap and a
  Deployment, whose pods run the data plane (RouteReconciler -> GatewayRuntime -> ConfigReload). ControlPlane
  has all nine controllers, their store, the rendered configurations and the proxies that load them in one module.
- Every replica of the controller runs an election loop beside its controllers.

## 2. Modules

One module per component, an `MC` module with the instances TLC uses, `*Proofs` with theorems. Components that are proved about in one module have
no names in common: the specification of ConfigReload is `WatcherSpec`, that of AcmeOrder `OrderSpec`, that of LeaderElection `ElectionSpec`, and so are the names of their parts.

| Module | Code | Shape of the model |
|---|---|---|
| StreamUpstream | `proxy.rs` of `wicket-stream`, `health.rs` | one action per atomic access; a *generation* is the set of `Upstream` objects of one configuration |
| StreamUpstreamProofs | | theorems about StreamUpstream |
| StreamProxy | `proxy.rs` of `wicket-stream` | the accept loop, a task per connection, the drain loop, `reload` in its two stores |
| StreamAdmission | (specification) | clients are admitted and leave; it closes, is quiet, or is forced |
| StreamProxyProofs | | theorems about StreamProxy |
| ClientHello | `sni.rs` | operators: the server name in the bytes that were peeked |
| StreamBackend | `endpoint.rs`, `pool.rs`, `protocol.rs` | operators: endpoints, source addresses, PROXY headers |
| ProxyConfig | `wicket-config/src/lib.rs`, `routing.rs`, `router.rs` | operators: the file, `validate`, matching of requests and server names |
| HttpProxy | `proxy.rs` of `wicket-core` | EXTENDS ProxyConfig; the callbacks of a request, `apply_reload` in its two stores |
| AccessLog | `proxy.rs` of `wicket-core` | operators: which lines are written, and how |
| ConfigReload | `main.rs` of `wicket` | start, the polling task, the reloads, edits, restart |
| HttpProxyProofs | | EXTENDS HttpProxy and ConfigReload; theorems about both |
| ProcessStart | `main.rs` of `wicket` | operators: options, ports, PID file, notification, log level |
| AcmeRenewal | `acme/mod.rs`, `acme/storage.rs` | initialization and passes, one action per file operation group |
| AcmeOrder | `acme/mod.rs`, `acme/cloudflare.rs` | one action per request of an account or an order |
| AcmeProofs | | EXTENDS AcmeRenewal and AcmeOrder; theorems about both |
| FileCerts | `file_watcher.rs`, `cert_store.rs` | the watcher task, reading a file at a time, and whoever changes the files |
| FileCertsProofs | | theorems about FileCerts |
| CertSelection | `cert_store.rs`, `cert_manager.rs`, `config.rs`, `acme/mod.rs`, `acme/cloudflare.rs` | operators: the certificate a client gets, the token and the zone for an order |
| LeaderElection | `leader_election.rs`, `main.rs` | requests are sent, served and answered in separate steps, under a clock |
| RouteReconciler | `httproute.rs`, `tcproute.rs`, `tlsroute.rs`, `status_helpers.rs`, `store.rs`, ... | API server, list, watch, queue, and one reconcile in its steps |
| RouteReconcilerProofs | | theorems about RouteReconciler |
| GatewayStatus | `gateway.rs`, `status_helpers.rs`, `runtime_plan.rs` | operators: rollout, conditions, addresses, names |
| RuntimeObjects | `runtime_applier.rs`, `runtime_plan.rs` | EXTENDS GatewayStatus; operators: the four objects of a plan and its revision |
| GatewayRuntime | `gateway.rs`, `runtime_plan.rs`, `runtime_applier.rs` | EXTENDS RuntimeObjects; Gateway, the four objects, the Deployment's rollout, the address, and one reconcile in its steps |
| GatewayRuntimeProofs | | theorems about GatewayRuntime |
| AttachmentPlanner | `attachment_planner.rs` | operators on a snapshot: which routes attach where, and why not |
| ConfigGenerator | `config_generator.rs`, `runtime_plan.rs` | EXTENDS AttachmentPlanner, INSTANCE ProxyConfig; operators: the plan of a Gateway, which is a configuration in the proxy's own terms |
| ResourceStore | `store.rs` | EXTENDS ConfigGenerator; the store as a value, its writes, its indices |
| RouteVerdicts | `httproute.rs`, `tcproute.rs`, `tlsroute.rs`, `gateway.rs` | EXTENDS ResourceStore; the conditions of routes and listeners |
| GatewayApi | `crds/*.rs`, `contracts.rs` | the types of resources and plans |
| ControlPlane | all reconcilers | EXTENDS RouteVerdicts, INSTANCE GatewayApi; the API server, nine watch loops, the store, the TLS files, the proxies |
| ControllerProofs | | EXTENDS ControlPlane and LeaderElection; theorems about both |

The MC modules bring together what a run needs: MCStreamProxy also EXTENDS ClientHello and StreamBackend, MCHttpProxy AccessLog; MCConfigReload
INSTANCEs ProcessStart, MCFileCerts CertSelection, MCAcmeRenewal ProxyConfig.

A comment at the head of each module says what its variables stand for and what it leaves out. What
the reader should know of each:

**StreamUpstream, StreamProxy.** Atomics are interleaved sequentially. `active_tasks` is updated
with weaker orderings in the code, which can only delay a decrement as the drain loop sees it, and
the drain loop polls. A connection's name is what one peek shows (`Snis`), the writing of a PROXY header
may succeed or fail, and takes as long as it takes (the code sets no timeout); the bytes of both are in ClientHello and StreamBackend. Panics of a task are left out. The upstream that a route names is a
function `RouteOf` of the configuration version, `UpstreamNames` are the upstreams of that version, and
`StreamProxyAssumption` says what `Config::validate` ensures: a route names an upstream of its own version.
History variables (`born`, `tainted`, `alone`, `steady`) are only read by properties.

**HttpProxy.** Pingora is external: it calls the callbacks in the order the code relies on, and it calls
`upstream_peer` again when a pooled connection turns out to be closed. A request has a host, a path, a method, headers and a
TLS name; a configuration is a value of ProxyConfig, so matching, the check of Host against SNI (421) and the rewriting of
paths are the code's.

**ConfigReload.** A file is a version (its modification time) and what its consumers think of it:
whether it loads, whether the HTTP part can be built, which streams cannot, and which listeners it has.
`EditsAtBoot` says whether the file may change between its loading and the watcher's first look.

**AcmeRenewal.** One unit of time is one check interval. A certificate is a serial; a file holds the
part of a serial. `FaultKinds` says which failures a run allows. The history variables `torn` and
`lost` record a save that was cut short and a pass that was given up.

**AcmeOrder.** The ACME server validates an authorization when its challenge is ready and decides by
the records in the zone at that moment. `txt_name`, one of `Namings`, gives the record name of each authorization: distinct names, or one name for a domain and its wildcard. The account is loaded, or created and saved, before the first order.

**FileCerts.** `linked` is the part of `LinkSwaps` that is behind a link in this deployment. The two files of a certificate are written one after the other, in place (then a
reader may find either of them truncated) or by a rename, or a directory link is swapped. The debounce timer may
fire whenever it is armed. A watch that cannot be registered ends the task (`WatchFails`); the store of the start is served from then on. The event channel (100) is not bounded.

**LeaderElection.** `lag` is the time since a replica read its clock, so a request is served late and
carries an old timestamp. Assumed: replicas' clocks agree, and a request the client gave up is not
served later. The patch carries no resourceVersion, so a conflict is never answered. `contended` is the history
of two replicas that were about to patch at the same time.

**RouteReconciler.** One route with a set of parentRefs to one Gateway. A parentRef is a listener (section
and port) or the whole Gateway; a `class` stands for what a listener's policy looks at (namespace, kind,
hostnames). kube-runtime is external: a watch cache, a queue with deduplication, a requeue timer,
`ObjectNotFound` for an object that left the cache. Conditions are stamped with one bit of time: two reconciles may or may
not get different stamps. Generations count on when a route is created again. `Kind` selects the code of
`httproute.rs` or of `tcproute.rs` (the `tlsroute.rs` code has the same shape). The parentRefs are judged one by one, and for each the Gateway is read anew, so it may change in between.

**GatewayRuntime.** A Gateway's spec is a `shape` (what changes the pod template) and a `conf` (what
changes only the rendered configuration). A configuration is the spec and a version of the
routes; hashes are injective. The Deployment has one replica and the default rolling update with surge,
which is external, as are the pods and the cloud that gives the Service its address (`Cloud`). Watch events reach the queue at once. Each reconcile writes its Gateway to
the store before it plans, so the store's copy is not kept apart. `copy` is the status a reconcile was called
with: the decision whether to patch compares with it, not with what the API server has by then. The lookup of the class (`ClassNotFound`) and the plan (`PlanFails`) may fail; both only ask for a retry.

**ControlPlane.** Every kind of object is there with its real content, and a reconcile is one step up to the point where it gives way to others (the two writes of a
Secret, the list and the write of a Service's slices). `Worlds` are small clusters: the objects at the start, the changes that may happen, in any order and between any two
steps, whether all kinds are listed in one step, whether the changes wait until the controller has settled, and whether the directory of the TLS files is read-only. A write that fails during the initial list of Secrets leaves the Secrets before it written and has the list made again (`FailList`). A timer is armed whether or not its object is still there; kube-runtime drops it when it fires for nothing. What a watch passes over is recorded in `gaps`. A rendered configuration
is loaded by the Gateway's proxies if ProxyConfig's `validate` accepts it. `WorldsAssumption` says that every object has a kind, a namespace and a name, as everything the API server returns does. Rollouts and `Programmed` are GatewayRuntime's and left out here.

## 3. Runs

One run per question; every passing run holds in all reachable states of its instance.

| Run | Instance | Shows |
|---|---|---|
| upstream_health | two connections, two backends, cooldown of one tick, three picks, one reload | a record on which no two reports overlapped is consistent at rest (`CleanSlotConsistent`); a backend healthy during a whole scan is not passed over (`NoSteadySlotSkipped`) |
| listener | two clients, a limit of one, drain timeout of two, two reloads that each rename the upstream, with and without a server name; every outcome of a connection, refused clients, accept errors | `ConnectionLimit`; `CountersExact`: permits, `active_tasks` and gauge are the number of tasks that hold them; `DrainedMeansQuiet`; `SnapshotFresh`: the upstream map a connection loads is at most one version behind the router it loaded before, and both are as new as the last reload complete when its task began (the map may be newer by any number of reloads); `UnknownUpstreamOnlyIfTorn`; the refinement `ImplementsAdmission`; `ShutdownReturns` even if clients never close |
| election | two replicas, lease of two ticks, renewal every tick, requests up to two ticks late, two faults, one replica that may crash for good | `UniqueUnlessContended`, `ClaimIsBacked`, `NoTheftOfLiveLease`, `LeaderEmerges` again and again |
| acme_renewal | two certificates with a lifetime of four check intervals, renewed two before the end, seven intervals, three failed orders, reads, writes or crashes | `AllDomainsServed`, `TornIsRenewed`, `SleepServesDisk` |
| acme_order | an account, two authorizations with distinct names or one name, four attempts, three failures | `LastChallengeInPlace`: the last authorization of every record name has its record in the zone from the announcement until it is decided; `NoPileUp`; `EventuallyIssued` where no two authorizations share a name |
| file_certs | two certificates, one of them perhaps behind a link, two rotations each, in place (a rename is the case that nobody looks between truncation and writing), ACME publishing into the same store, a watcher that may fail to start | `QuietMeansCurrent`, `EventuallyServed` |
| config_reload | two streams, files of five kinds (good, garbled, a host pattern that does not compile, a server that does not parse, other listeners), three edits, one restart | `RestsOnlyWhenApplied`, `StreamsMatchListeners`, `EventuallyApplied` |
| http_reload | two requests of five kinds, five configurations (two of which cannot be built, one in each part; some rewrite paths), one retry | `QuietRequestsServedByOne`: a request that no reload overlapped gets the first matching route, the rewritten path and the peer of one configuration, and never misses its upstream; `RequestGaugesExact` |
| route | one HTTPRoute with up to two parentRefs, four Gateways (missing, without a listener, with another protocol), two edits, a fault, a restart, both kinds of deletion | `QuietStoreCurrent`: at rest the store holds exactly the accepted route of the API server; `StoreNeverGoesBack`; `EventuallyAccurate`; `StatusQuiesces` |
| gateway_build | three specs, two edits, a fault (any call, the class lookup or the plan), a failing pod, changed ConfigMap data, four of these together | `ProgrammedIsBuilt`: `Programmed` for a generation means that pods of its shape, or of a later one's, exist; `NoOneCycleLie`: the reconcile that starts a rollout does not report it as finished; `RestsOnlyWhenBuilt` |
| gateway_live | one edit, one change of the routes, a restart, and an object that is deleted, drifted or a stranger's, two of these together | `EventuallyProgrammed`, with the address of the load balancer |
| control_plane | twelve clusters, below | `StoreFollowsApi`: of every route, Gateway, class and grant for which nothing is due or to be retried the store has the version the API server has, if it belongs there, and otherwise nothing; `EventuallyJudged`: every route's status comes to say what the cluster says about it; `EventuallyRendered`: every Gateway's runtime comes to be the one planned from what the API server has, and its proxies run it; `RenderedLoads`: the proxy accepts what is rendered, with two named exceptions; `RequestsReachOwnBackends`: through planner, generator and the proxy's router, a request reaches the backends of a rule that takes it; `SecretsOnDisk`: no torn pair of a Secret stays |

The clusters of control_plane: *Boot* (the controllers list in any order while a slice goes away), *Slices* (endpoints move between two slices), *Leave* (a route is edited, leaves, a request
fails, a restart), *Grants* (a route of another namespace, its grant, a Gateway that no longer lets it in), *Streams* (TLSRoutes and a TCPRoute), *Certificates* (a Secret replaced, deleted, a failed write, a restart),
*SharedPath* and *ReadOnly* (two Secrets with one file name), *Unasked* (a slice and a Secret before anything refers to them), *Taken* (class and Gateway pass to
another controller), *Odd* (joined names that clash, a timeout, a stream without backends), *HardStart* (a write fails during the first list of Secrets while one of them is replaced).

**Pure operators** are checked as named `ASSUME`s of the MC modules, which TLC evaluates over bounded inputs at the start of the run:

| Module | Assumptions | Over |
|---|---|---|
| MCStreamProxy | `SniFound`, `SniOfPart`, `SniRefused`: the name of a hello is found, every part of it gives no name, a malformed one none; `EndpointsRoundTrip`; `PoolIsFair`, `SourcesTakeTurns`; `HeadersDecode`: a receiver decodes both PROXY headers | hellos built field by field, every prefix of them; a counter of four bits |
| MCHttpProxy | `FieldsReadBack`, `OneLinePerEntry`: whatever a client sends, a log entry is one line from which its fields can be read; `LogWhenAsked` | texts of every escaped character |
| MCConfigReload | `AskingNeverServes`, `RunsOnlyComplete`, `HttpsPortsDiffer`, `PortsApart`, `SuccessorKeepsPid`, `NotifyLengths`, `LevelsInOrder` | all options, boundary ports and lengths |
| MCFileCerts | `ServedIsCovered`, `NamesComeAlong`, `EmptyServesNobody`: a client gets a certificate for its name; `ClosestZone`, `TokenFileFirst`, `FirstBlockOnly`, `RefusalsShow` | stores of two insertions, hosts of up to three labels |
| MCAcmeRenewal | `AutoDomainsCovered`: with a file that validates, every automatic route with a host gets a certificate | all files of two automatic routes and two providers |
| MCGatewayRuntime | `ConvergedIsRolledOut`, `NoStatusNotConverged`, `ListenersFollowGateway`, `RestampingIsIdempotent`, `NodeOrderIsNoMatter`, `AddressesInOrder`, `OwnedNamesDiffer`, `ReplicasFit`, `MetricsOfTheListed`, `RevisionCoversShape`, `SelectorsNeverChange`, `OwnIsRecognised`, `EverySecretMounted` | Deployment statuses, nodes, statuses and plans of small sets |

The operators of the planner, the generator and the proxy's router are checked in context, by the properties of control_plane and http_reload.

**Bounds.** Two actors suffice for every pair of overlapping steps, and no property counts more than a pair; the theorems of section 4 hold for any number of connections, replicas, servers, certificates and authorizations. Three picks let a third report see what
two overlapping ones left behind. Two reloads are the fewest with which a snapshot could be two versions old. A certificate is renewed twice in seven intervals, with a failed pass in between. Four attempts exceed three
failures, as `EventuallyIssued` needs. Two edits of a route or a Gateway let one fall into a reconcile of another; `MaxTroubles` bounds edits, faults and drifts together. A cluster of control_plane has two to four changes, so that the second
falls between two steps the first has caused. Each bound is a constant of its module.

**Fairness** (weak throughout). *listener*: the drain loop is polled and time passes; nothing is assumed of clients, backends or connection tasks. *election*: time passes and each loop goes on while its pod is up; a crashed pod need not come back; faults are
bounded, since an API server that refuses everything elects no one. *acme_order*: the task runs, the ACME server validates, a failed call is repeated (the renewal loop does that). *file_certs*: the task runs, its timer fires,
a rotation that was begun is finished. *config_reload*: the polling task runs. *route*: list, watch, queue, timers and the steps of a reconcile; edits, faults and restarts are not owed. *gateway_live*: the same, the Deployment controller, the
kubelet and the cloud that gives an address go on, and a foreign object is removed in the end, which is the manual resolution the ADR asks for. *control_plane*: the controllers list, watches deliver, timers fire, what is queued is
reconciled in some order, and proxies load what they were given.

**Deadlock** is checked for LeaderElection, HttpProxy, GatewayRuntime and ControlPlane, which go on for ever. The other programs may stop: a drained listener, a process whose budget of edits, attempts or serials is used up, a controller that has no route to
look at. **Symmetry** is used for the connections of upstream_health only, where no temporal property is checked. Each module with variables but HttpProxy has a `TypeOK`; for StreamUpstream, StreamProxy,
LeaderElection, ConfigReload, AcmeRenewal, AcmeOrder, FileCerts, RouteReconciler and ControlPlane it is proved; the cfg of GatewayRuntime can have it added. What HttpProxy's proofs need of types is in their invariants (`Shape`).

## 4. Proofs

The theorems hold for every value of the constants that satisfies the `ASSUME`s of the component's module; the bounds on edits, faults, reloads and time are constants as well, so they hold for any number of them. Where a theorem
has a hypothesis of its own, the run that checks the property has it too, and section 6 says what the code does without it. Every inductive invariant below was first checked by TLC on the instance of the component's run.

| Property of a run | Theorem | Hypothesis |
|---|---|---|
| StreamUpstream `NoSteadySlotSkipped`, `CleanSlotConsistent` | `SteadySlotsAreNotSkipped`, `CleanSlotsAgree` | |
| StreamProxy `CountersExact`, `ConnectionLimit`, `SnapshotFresh`, `UnknownUpstreamOnlyIfTorn`, `DrainedMeansQuiet`, `ImplementsAdmission` | `CountersAlwaysExact`, `LimitRespected`, `SnapshotsFresh`, `UnknownOnlyIfTorn`, `DrainedIsQuiet`, `ListenerImplementsAdmission` | |
| ControlPlane `SecretsOnDisk`, `StoreFollowsApi` | `SecretPairsOnDisk`, `StoreFollows` | |
| LeaderElection `ClaimIsBacked`, `UniqueUnlessContended`, `NoTheftOfLiveLease` | `ClaimsBacked`, `LeaderUnique`, `LiveLeaseIsSafe` | |
| HttpProxy `RequestGaugesExact` | `GaugesExact` | |
| HttpProxy `QuietRequestsServedByOne` | `QuietRequests` | the path a client asks for begins with `/` |
| RouteReconciler `QuietStoreCurrent`, `StoreNeverGoesBack` | `QuietStore`, `StoreForwardOnly` | |
| ConfigReload `StreamsMatchListeners` | `StreamsKeepListeners` | |
| ConfigReload `RestsOnlyWhenApplied` | `NeverRestsStale` | `EditsAtBoot = FALSE` |
| AcmeRenewal `AllDomainsServed`, `TornIsRenewed`, `SleepServesDisk` | `EveryDomainServed`, `TornSetsAreRenewed`, `SleepingServesDisk` | |
| AcmeOrder `LastChallengeInPlace`, `NoPileUp` | `LastChallengeStaysInPlace`, `RecordsDoNotPileUp` | |
| FileCerts `QuietMeansCurrent` | `QuietIsCurrent` | `ChangesAtBoot = FALSE` |
| GatewayRuntime `NoOneCycleLie` | `NoLieInOneCycle` | `Untampered`: nobody edits a template or deletes an object by hand |
| GatewayRuntime `ProgrammedIsBuilt`, `RestsOnlyWhenBuilt` | `ProgrammedStaysBuilt`, `RestIsBuilt` | `Undisturbed`: nobody but the controller changes more than ConfigMap data, and no restart |

**StreamProxyProofs** (assuming `StreamProxyAssumption`: finite set of connections, natural limit, timeout and number of reloads, and routes that name upstreams of
their own version).

- `TypeCorrect`, `CountersAlwaysExact`: the types alone are not inductive, because a decrement leaves the naturals unless the counter counts the task that
  decrements it. `CountersInv` joins the types with `CountersExact` and with where a reload is; the lemma `MovePhase` says how the number of connections
  in a set of phases changes when one of them moves.
- `LimitRespected`: from the exact number of permits, since those left and those held add up to the limit.
- `SnapshotsFresh`: `SnapInv` adds what is known *between* a connection's two loads, where the router may already be one version ahead of the upstream map.
- `UnknownOnlyIfTorn`: from the assumption on validated configurations and the snapshot.
- `DrainedIsQuiet`: `DrainInv`: nothing is accepted while draining, so a count of zero that was loaded stays true until it is looked at.
- `ListenerImplementsAdmission`: every initial state and step of the listener maps to one of StreamAdmission or to a stutter.

**StreamUpstreamProofs** (assuming `UpstreamAssumption`: at least one server, natural bounds; labels may be shared in any way).

- `TypeCorrect`: the types with `ScanRange`, that a scan has not gone round. `OwnerType` shows that the first slot of a label exists, from the well-foundedness of the naturals.
- `SteadySlotsAreNotSkipped`: `ScanInv` says that the slots a scan still counts as steady are healthy, that it has passed none of them, and that the slot whose stamp it is reading is not one of them. It is about the moment between the
  load of `healthy` and the load of the stamp, where another connection may report.
- `CleanSlotsAgree`: `CleanSlotConsistent` says nothing while a report is half done. `AloneInv` says that a report on an untainted record has it for itself, and `RecordedInv` how far such a report has come, atomic by atomic;
  the last store of a report then makes the record consistent.

**HttpProxyProofs** (assuming `HttpProxyAssumption`: every configuration was parsed and has passed `validate`, the first one can be built, and there are finitely many request slots).

- `GaugesExact`: `GaugeInv`. A gauge changes by one when a request enters, is matched or is logged. The proof names the requests a label counts (`Counted`) and shows how that set and the set of requests in flight change in these three
  callbacks (`GaugesNewCtx`, `GaugesFilter`, `GaugesLogging`) and that no other step changes them (`GaugesStay`). It needs that a request still in `request_filter` has no match, for `logging` decides by the match whether to take the request out again.
- `QuietRequests`: `ServedInv`. `SlotInv` says where a reload is: whatever it stores has been built, and the slots differ only between its two stores. `ServedSoFar` says, of a request during which no slot was stored, that while it may still load a slot
  it has been served by the configuration in both slots, and afterwards by some configuration that was built. That the upstream of a match exists and has a backend comes from `validate` and from the building of the slots (`MatchParts`,
  `PeerFound`); that the path sent is absolute, from the rules of `validate_route_filters` (`ReplacedPrefix`, `SentAbsolute`). `FirstMatch` shows, from the well-foundedness of the naturals, that the router answers with one of its routes or with none.
  The hypothesis leaves out `OPTIONS *` and `CONNECT`.

In the same module, about the watcher (assuming `ConfigReloadAssumption`: the contents are well-formed, the first one is acceptable).

- `WatcherTypeCorrect`, `StreamsKeepListeners` (an action property; its step lemma needs that streams are only left to do while the listeners are those of the start, `TodoMatches`).
- `NeverRestsStale`: `CopiesBehind` (no copy is ahead of the file, and one of the same version is the file), `BootIsFresh`, `ChangePending` (while a change is being applied, `last_modified` is still behind the file) and `ReloadSoFar`
  (what the reload has done so far runs the file it read). An edit during the reload makes the version that is remembered older than the file, so the next poll sees it. `BootIsFresh` is false when the file may change between its loading and the watcher's first look:
  that is the hypothesis.

**AcmeProofs** (assuming `AcmeRenewalAssumption`: natural bounds, at least one certificate, any kinds of failure).

- `TypeCorrect`, `TornSetsAreRenewed`: `DiskInv` and `SaveInv`: the three files are written in the order certificate, key, meta, so that a torn set still has its old meta, which asks for renewal.
- `EveryDomainServed`, `SleepingServesDisk`: `BuiltSoFar` says what a pass has put into the new store, `ServedUntilRenewed` that as long as it has renewed nothing the old store is what is on disk, which is why not publishing is right then.

In the same module, about an order (assuming `AcmeOrderAssumption`: natural bounds, at least one authorization; names are arbitrary).

- `OrderTypeCorrect`; `RecordsDoNotPileUp`: `StaleListed` (what was listed under a name contains every record of that name that is not excused, until it is deleted) and `OnePerName`.
- `LastChallengeStaysInPlace`: for any names, shared ones included. An authorization is the last of its name if none after it has that name (`LastOfName`): the deletion of stale records, which goes by name, takes the records of the others. `RecordsSoFar` is the claim while records are still being created, `NothingProcessing` that the server validates nothing
  before it is told. Where names are distinct every authorization is the last of its name.

**FileCertsProofs** (assuming `FileCertsAssumption`: `None` is no pair, links are among the certificates).

- `TypeCorrect`: types with `ChainRead` and `PairsWhole`, since what is stored must have been read from files that were not empty.
- `QuietIsCurrent`: an entry is `Settled` when no event, no timer and no rotation concerns it. `BuiltSoFar` says that a store under construction has the settled entries it has read as they are on disk, also between the reading of the two files of one
  entry; `ServedCurrent` says it of the published store. `BootQuiet` needs the hypothesis: the files are read before the watches are registered.

**RouteReconcilerProofs** (assuming the `ASSUME`s of RouteReconciler; both kinds of route).

- `TypeCorrect`: the types with `RecType`, what a reconcile carries at each of its steps.
- `QuietStore`, `StoreForwardOnly`: `RouteInv`. `Phases` says that nothing is cached, queued or reconciled before the watch runs, and that the store is empty before the listing is stored. `Versions` orders the copies of the route: none is newer than
  the API server's, the store's is no newer than the one in the watch cache, nor than the one under reconcile. `Fresh` says that a reconcile works on what the cache holds unless another is queued, and that after its status patch the status it is
  about to store is the one the object has. `QuietStoreCurrent` alone is not inductive: it says nothing until the rest is reached, and an edit, a deletion or a new creation may fall between the judging, the patch and the store write. `StoreNeverGoesBack` follows
  from `Versions` step by step.

**GatewayRuntimeProofs** (assuming `DriftAssumption`, `BoundAssumption` and `AbsentAssumption`: the value for a missing object is no object).

- `BaseInv` needs no hypothesis: the shapes of objects and of the reconcile's record, that the reconcile works on a spec the Gateway has had and on the latest unless another is queued (`GenInv`), that the status it compares with is still the one the API server has, since nobody else writes it (`CopyInv`), and that a rollout its controller has counted has a pod (`CountedInv`).
- `NoLieInOneCycle`: `ObservedInv` says that what was observed of the Deployment still holds when the reconcile reports, and that an apply that leaves the annotation as it was leaves the template as it was. Restarts, strangers' objects, edits of the
  Gateway, failing calls and pods are allowed; a hand-made template or a deletion between the observation and the write is what the code does not see.
- `ProgrammedStaysBuilt`, `RestIsBuilt`: `BuiltSoFar` follows a reconcile from the observation to the report and says what has been built at each point; `ProgrammedFrom` that the Deployment has the shape of the reported generation or of a
  later one. After a restart, or with a stranger's Deployment, a store that is not ready reports from the observation alone, which is why both are excluded.

**ControllerProofs** (assuming `WorldsAssumption`: any number of worlds, with any objects and changes).

- `SecretPairsOnDisk`: `SecretInv`. `SecretsOnDisk` alone is not inductive, because it says nothing of a Secret that is due or under way. `WorkFresh` follows such a reconcile: it works on the object the API server has, unless the
  object is queued again, and what it has written so far is on disk. `NotBegun` says that before Secrets are listed none is queued, under way, waited for or stored, so that an edit that arrives before the list loses nothing. `OnDisk` is the claim for one
  Secret, and `TypeOK` says that what is queued, timed or under way goes by the ids of objects there are, and that a directory that cannot be written is empty (`ControlPlaneTypeCorrect`, proved from the same invariant).
  Every step is about one object: `ApartKeeps` shows that it needs to be looked at for that one only, `ElsewhereKeeps` that the reconciles of other kinds need not be looked at at all, and `AboutSecretKeeps` that the writes for one Secret reach no other, for
  their keys differ and, by the condition `Unshared`, so do their paths. What is left are the steps about the Secret itself: its edit, its deletion, the initial list, the two writes, the check that stores or deletes the pair, and the failures between them.
- `StoreFollows`: `StoreInv`, which adds to `SecretInv` what is known of a route, Gateway, class or grant before it settles. `StoreFollowsApi` alone is not inductive, because a route is written to the store one step after its verdict was patched, and an edit,
  a deletion or a restart may come between. `JudgedFresh` says that a verdict under way is about the object the API server has unless that object is queued again; `LeavingQuiet` that nothing is under way or to be retried for an object whose leaving was taken in;
  `GoneIsGone` that one that is gone is not in the store unless its going was passed over; `Unknown` that before a kind is listed nothing of it is queued, under way or stored. As for Secrets, a step is about one object, and `SparedKeeps` takes care of all others.

In the same module, about leader election (assuming `LeaderElectionAssumption`: natural durations, a renewal interval within the allowed lag, `NoHolder` no replica).

- `ElectionTypeCorrect`.
- `ClaimsBacked`, `LeaderUnique`, `LiveLeaseIsSafe`: unless two patches compete. `ElectionInv` says that the stamp about to be written is no older than the claim it renews
  (`StampYounger`), that a patch under way was prepared for a lease that is the replica's own or has expired (`PatchPrepared`, `PatchJustified`), that only one replica is about to patch
  (`LonePatcher`), and that replies and claims are backed by the Lease (`ReplyBacked`, `ClaimBacked`). Without it a late reply could
  raise a claim that the Lease no longer supports.

## 5. Only model-checked, or not modelled

Liveness under fairness, and with it ENABLED, is checked by TLC only: `ShutdownReturns`, `LeaderEmerges`, `EventuallyIssued`, `EventuallyServed`, `EventuallyApplied`, `EventuallyAccurate`, `StatusQuiesces`, `EventuallyProgrammed`, `EventuallyJudged`,
`EventuallyRendered`. So are two safety properties of ControlPlane: `RenderedLoads` (which also says that the plans are well formed) and `RequestsReachOwnBackends` rest on planning and rendering, folds over sequences of routes, rules and listeners whose correctness for every input would
need induction over data. So are the pure operators, over the inputs listed in section 3. TLC's results hold for the instances above.

Not modelled, because there is no behaviour of Wicket's own to state: metrics other than the active and health gauges, serialization (TOML, YAML, PEM blocks, the text of messages), health endpoints, packaging, ALPN (rustls), sockets that
are handed over in an upgrade (Pingora), task panics, and memory orderings weaker than sequential consistency.

Not modelled, because nothing runs it: active HTTP health checks and the load-balancing strategy (configured and never used), `SniExtractor` and `peek_sni`, `replace_all` of the store, `load_service_endpoints` (`gateway.rs`) and `load_all_service_endpoints`
(`service.rs`), `CloudflareClient::from_env_or_file`.

Not modelled yet: the eBPF socket map behind its feature flag.

Abstracted where a module says so: a prefix is compared character by character as the code does, with "/" the only character that is told apart; of an HTTPRoute
not the query parameters and filters, which the generator does not render, nor the type of a header match; in ControlPlane the repeated status patches of TCPRoutes and TLSRoutes (RouteReconciler has them), the
rollout and `Programmed` (GatewayRuntime has them), and the initial events of the watches that wake Gateways.

## 6. Where the code and its documents part

Most properties hold because they say *unless*: unless reports overlap, unless a reload was under way, unless patches compete, unless the file changed during the start. This section says what happens then. Each row names a property that is defined
in the module and is what a document, a comment or a metric's description says; TLC refutes it when it is put into the cfg of the module's run (instead of the properties there), with the constants changed as given.

| Property | Constants | What the code does | What is said |
|---|---|---|---|
| StreamUpstream `UnhealthyIsStamped` | | `record_success` (`health.rs:63`) erases the stamp of an overlapping failure; the backend has no cooldown until the next success | `health.rs:14` "0 = never" |
| StreamUpstream `GaugeReportsHealth` | | a reload starts every backend healthy and leaves the gauge at 0 (`wicket-stream/src/proxy.rs:372`) | `metrics.rs:100` "1=healthy, 0=unhealthy" |
| StreamProxy `NoUnknownUpstream` | | a connection that loads between the two stores (`proxy.rs:388`) is refused | `proxy.rs:366` "atomically swaps" |
| LeaderElection `OnlyOneLeader` | | the patch has no resourceVersion (`leader_election.rs:194`): two replicas that read one expired lease both lead | `leader_election.rs:4` "Only one replica can hold the lease at a time" |
| LeaderElection `OnlyLeadersWork` | | nothing reads `is_leader` (`main.rs:145`) | `deploy/helm/wicket/values.yaml:34` "only one is active" |
| AcmeRenewal `ServedPairMatches` | | a save that fails between its files (`storage.rs:147`) makes the fallback serve a chain with another key | `acme/mod.rs:222` "Keep using existing cert" |
| AcmeRenewal `FreshOnDiskIsServed` | | a pass that returns early after a renewal (`acme/mod.rs:213`) drops the new store, and no later pass publishes it | `docs/src/tls.md:53` "automatically obtained and renewed" |
| AcmeOrder `ChallengeInPlace` | | for a domain and its wildcard the second authorization deletes the record of the first (`acme/mod.rs:449`) | `acme/mod.rs:448` "from previous failed attempts" |
| FileCerts `EventuallyServed` | `ChangesAtBoot = TRUE` | files are read before the watches are registered (`file_watcher.rs:135`) | `docs/src/tls.md:30` "automatically reloaded when files change" |
| FileCerts `EventuallyAllServed` | | events of a swapped link name other paths (`file_watcher.rs:191`) | `docs/src/tls.md:216` "when cert-manager rotates" |
| FileCerts `NoDomainDropped` | `Mixed = FALSE` | a certificate that cannot be read at that moment is left out (`file_watcher.rs:78`) | `docs/src/tls.md:10` "Zero-downtime certificate updates" |
| FileCerts `AcmeKeepsFileCerts` | | file and ACME stores replace each other (`acme/mod.rs:164`) | `docs/src/configuration.md:405` "Combines file-based and ACME certificates" |
| ConfigReload `EventuallyApplied` | `EditsAtBoot = TRUE` | the watcher's first look comes long after the loading (`wicket/src/main.rs:928`) | `docs/src/usage.md:135` "watches the config file for changes" |
| ConfigReload `ReloadIsAtomic` | | streams are reloaded from a file the HTTP part refused (`main.rs:946`) | `docs/src/usage.md:135` "The reload is atomic" |
| ConfigReload `TimeoutsFollow` | | a stream's timeouts are fixed at start (`wicket-stream/src/proxy.rs:388`) | `docs/src/usage.md:137` "can hot-reload routes/upstreams/timeouts" |
| RouteReconciler `RenderingSettles` | `RouteSpecs <- UnwelcomeRoutes`, `MaxEdits = 0` | a rejected route leaves the store, and with it the planner's knowledge; the fallback accepts it again (`httproute.rs:707`) | `httproute.rs:295` "avoids the reconcile-loop" |
| RouteReconciler `StatusQuiesces` | `Kind = "TCPRoute"`, `MaxEdits = 0` | status is stamped and patched every time (`tcproute.rs:262`) | `status_helpers.rs:3` names this loop as the bug its helpers avoid |
| RouteReconciler `DeletedRouteLeaves` | `MaxEdits = 1`, `MaxRestarts = 0` | without a finalizer a deletion in the background is never reconciled (`httproute.rs:110`) | `httproute.rs:109` "Handle deletion: remove from store" |
| GatewayRuntime `ProgrammedIsServing` | `MaxEdits = 1` | with surge, one created new pod and one ready old pod pass both tests (`runtime_plan.rs:263`) | `runtime_plan.rs:226` "ensures that the rollout has completed and the new revision is serving" |
| GatewayRuntime `NoOneCycleLie` | `Drifts = {"template"}` | the forced apply undoes a hand-edited template and starts a rollout that the annotation does not show (`runtime_applier.rs:769`) | `gateway.rs:652` "to avoid a one-cycle lie" |
| GatewayRuntime `ProgrammedIsBuilt` | `MaxRestarts = 1` | while the store warms up the old Deployment's health is reported for the new generation (`gateway.rs:874`) | the ADR, line 60 |
| GatewayRuntime `RestsOnlyWhenRendered` | `MaxRoutes = 1` | the store write of a route queues nothing (`httproute.rs:328`); the Gateway waits 300 s | `httproute.rs:320` "trigger configuration update" |
| GatewayRuntime `NeverTakesOver` | `Drifts = {"foreign"}` | the ownership check is a read, the write is forced (`runtime_applier.rs:430`) | the ADR, lines 506-508 "no automated adoption" |
| GatewayRuntime `EventuallyProgrammed` | the cfg of gateway_live, `Drifts = {"data"}`, `MaxEdits = 0`, `MaxRestarts = 0` | data changed under the same annotation is never repaired (`runtime_applier.rs:488`) | the ADR, lines 235-236 |

The ADR is `docs/ADR_WICKET_CONTROLLER_MANAGED_GATEWAY_RUNTIME.md`.

What else the modules say of the code, in the modelled form, where a reader may have expected something different:

- *Reload.* A request matched between the two stores of `apply_reload` may get 503 (`wicket-core/src/proxy.rs:145`), which is why `QuietRequestsServedByOne` excepts overlapped requests. A retried request raises the gauge of
  active upstream connections twice and lowers it once (`proxy.rs:589`).
- *Matching.* The prefix `/api/` also takes `/api`, of which it is no prefix: a rewrite then appends the whole path. A Host with a final dot passes the check against the TLS name but matches no exact host; `a.com.:443` keeps its dot. Names of headers
  in routes are compared as written, those of requests are in lower case.
- *Ports and process.* The computed HTTPS port is cut off at 65535 (`HttpsPortsDiffer`). `run_forever` does not return, so the PID file is removed only if the notification of systemd fails. An abstract socket name of 108 bytes passes the check and is refused
  by the kernel (`NotifyLengths`). Stream listeners accept before the steps of the start that can still fail.
- *Sources.* A source-IP pool of both families loses the turns of the other family's addresses (`SourcesTakeTurns`).
- *ACME.* A domain named by two automatic routes is ordered twice. `tls = "auto"` without a `[tls]` section is not refused. A deletion that Cloudflare refuses without an error counts as done (`RefusalsShow`).
- *Rendering.* A rule with a timeout, or a stream none of whose routes has a backend, makes the whole configuration unloadable (the exceptions of `RenderedLoads`). Only the first host name of an HTTPRoute and the first TCP or TLS listener are
  rendered; a TCPRoute gives upstreams but no route to them; a route one Gateway accepted is rendered for every Gateway it names, also with `RefNotPermitted` or `BackendNotFound`. Names joined with dashes can be the same
  for different objects (`NamesClash`), also those of TLS files (`SharedPath`).
- *Mounts.* A certificate's directory is named by the Secret alone, and pods mount Secrets of the Gateway's own namespace; volume names are cut at 63 characters (`EverySecretMounted`).
- *Wake-ups.* A route that points elsewhere does not wake its old Gateway, a Gateway's edit wakes no route (60 s), a grant is indexed by its target's name and wakes nobody, an address that the cloud gives wakes nobody (300 s). A slice or Secret that nothing
  refers to when its event comes is not looked at again, nor is an object without a finalizer when it is deleted (`gaps`); a deleted Service stays present, and namespace labels are never filled in.
- *Verdicts.* `result_for_route_parent_ref` does not compare kinds (`HasTwin`); a route that only the planner turns away changes its mind with every resync (`Contested`).
- *Secrets.* In a directory that cannot be written the writes are skipped without an error; the validation that follows finds no files, so the reconcile fails and is tried again after 5 s (`secret.rs:174`), and the Secret stays out of the store.
- *Endpoints.* EndpointSlices count as listed before any endpoint is stored (`service.rs:400`), so the first plan after a start may use the DNS names of Services where later ones use addresses.

## 7. Plan

Done: the modules of section 2 in the order StreamUpstream, StreamProxy with its abstract specification and proofs, LeaderElection with proofs, AcmeRenewal, AcmeOrder, ConfigReload, HttpProxy, FileCerts,
RouteReconciler, GatewayRuntime; then the pure rules (ProxyConfig, ClientHello, StreamBackend, CertSelection, AccessLog, ProcessStart, AttachmentPlanner, ConfigGenerator, GatewayStatus, RuntimeObjects) and ControlPlane, which composes
planner, generator, store, all reconcilers and the proxy's router.

Next, model:

1. `SockmapPairs`: registration of two sockets, partial failure, removal.
2. `LeaderControllers`: LeaderElection composed with two replicas of a reconciler, to say what two active replicas can do to one object; ConfigReload composed with
   StreamProxy and HttpProxy through an abstract "published configuration" that both implement.

Proved: the safety invariants of StreamUpstream, StreamProxy, LeaderElection, ConfigReload, AcmeRenewal, AcmeOrder, FileCerts, HttpProxy, RouteReconciler and GatewayRuntime that the runs check, and those of ControlPlane about Secrets, the store and types (section 4).

Next, prove, in the proof modules there are: a GatewayRuntime invariant for strangers' objects without restarts, which needs a weaker `ProgrammedFrom`; ConfigReload and FileCerts with changes during the start, as the claim that only the first
configuration or the first store can stay stale; StreamProxy's accept loop with an abstract specification of reload that ConfigReload implements as well.
