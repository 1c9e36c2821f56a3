----------------------------- MODULE StreamProxy -----------------------------
(***************************************************************************)
(* One L4 listener: the accept loop, the connection limit, the tasks it    *)
(* spawns, hot reload and the drain at shutdown.                           *)
(*                                                                         *)
(* Source: crates/wicket-stream/src/proxy.rs (StreamProxy::run, reload,    *)
(* handle_connection, ConnectionGuard).  Server choice and health are      *)
(* abstracted to the outcome of the connect; StreamUpstream has them.      *)
(*                                                                         *)
(* A configuration is known by its version: version 0 is the one the       *)
(* process started with, version v the one the v-th successful reload      *)
(* builds.  Router and upstream map live in two ArcSwaps, each stored and  *)
(* loaded on its own.                                                      *)
(***************************************************************************)
EXTENDS Integers, FiniteSets

CONSTANTS
    Conns,           \* client connections
    MaxConnections,  \* max_connections; 0 means unlimited
    DrainTimeout,    \* drain_timeout_secs, in ticks
    UseSockmap,      \* the eBPF path is compiled in, loaded and attached
    Snis,            \* what the peeked bytes may say, "no SNI" included
    RouteOf,         \* version -> SNI -> upstream name or NoUpstream
    UpstreamNames,   \* version -> names of the upstreams it defines
    NoUpstream,      \* match_sni returned None
    MaxReloads       \* bound: successful reloads

Versions == 0 .. MaxReloads
Limited  == MaxConnections > 0

\* Config::validate_stream: every route names an upstream of its own config.
ASSUME StreamProxyAssumption ==
    /\ IsFiniteSet(Conns)
    /\ MaxConnections \in Nat
    /\ DrainTimeout \in Nat
    /\ UseSockmap \in BOOLEAN
    /\ MaxReloads \in Nat
    /\ \A v \in Versions, s \in Snis :
           RouteOf[v][s] \in UpstreamNames[v] \cup {NoUpstream}
    /\ \A v \in Versions : NoUpstream \notin UpstreamNames[v]

VARIABLES
    run,         \* where StreamProxy::run is
    remaining,   \* run: active_tasks as last loaded by the drain loop
    elapsed,     \* run: drain_start.elapsed()
    shutdown,    \* the cancellation token
    permits,     \* connection_semaphore: permits left
    active,      \* active_tasks
    gauge,       \* STREAM_CONNECTIONS_ACTIVE
    phase,       \* where each connection is
    outcome,     \* how handle_connection ended
    routerVer,   \* version in self.router
    upVer,       \* version in self.upstreams
    reloadPc,    \* where StreamProxy::reload is
    snapR,       \* router a connection loaded
    snapU,       \* upstream map a connection loaded
    born         \* history: last reload completed when the task began

runVars    == <<run, remaining, elapsed, shutdown>>
reloadVars == <<routerVer, upVer, reloadPc>>
snapVars   == <<snapR, snapU, born>>
counters   == <<permits, active, gauge>>
vars       == <<runVars, counters, phase, outcome, reloadVars, snapVars>>

Returned == {"drained", "timed_out", "failed"}
Draining == {"load", "check", "sleep"}

\* A task between tokio::spawn and the decrement of active_tasks, ...
Handling == {"spawned", "router", "peek", "connect", "header", "copy", "kernel"}
Counted  == Handling \cup {"returned"}
\* ... between ConnectionGuard::new and its drop, and holding its permit.
Guarded  == Handling \ {"spawned", "router"}
Holding  == Counted \cup {"counted"}
Phases   == Holding \cup {"waiting", "rejected", "done"}

Outcomes == {"none", "peek_error", "no_route", "unknown_upstream",
             "connect_error", "header_error", "closed"}

In(S) == {c \in Conns : phase[c] \in S}

TypeOK ==
    /\ run \in {"accepting"} \cup Draining \cup Returned
    /\ remaining \in Nat
    /\ elapsed \in 0 .. DrainTimeout
    /\ shutdown \in BOOLEAN
    /\ permits \in 0 .. MaxConnections
    /\ active \in Nat
    /\ gauge \in Nat
    /\ phase \in [Conns -> Phases]
    /\ outcome \in [Conns -> Outcomes]
    /\ routerVer \in Versions
    /\ upVer \in Versions
    /\ reloadPc \in {"idle", "build", "store_router", "store_upstreams"}
    /\ snapR \in [Conns -> Versions]
    /\ snapU \in [Conns -> Versions]
    /\ born \in [Conns -> Versions]

Init ==
    /\ run = "accepting"
    /\ remaining = 0
    /\ elapsed = 0
    /\ shutdown = FALSE
    /\ permits = MaxConnections
    /\ active = 0
    /\ gauge = 0
    /\ phase = [c \in Conns |-> "waiting"]
    /\ outcome = [c \in Conns |-> "none"]
    /\ routerVer = 0
    /\ upVer = 0
    /\ reloadPc = "idle"
    /\ snapR = [c \in Conns |-> 0]
    /\ snapU = [c \in Conns |-> 0]
    /\ born = [c \in Conns |-> 0]

-----------------------------------------------------------------------------
(* StreamProxy::run *)

\* Mutant: the limit is off by one.
AcceptOneMore(c) ==
    /\ run = "accepting"
    /\ phase[c] = "waiting"
    /\ ~ Limited \/ permits >= 0
    /\ permits' = IF Limited THEN permits - 1 ELSE permits
    /\ active' = active + 1
    /\ phase' = [phase EXCEPT ![c] = "spawned"]
    /\ UNCHANGED <<runVars, gauge, outcome, reloadVars, snapVars>>

\* Mutant: the listener goes on accepting during the drain.
AcceptWhileDraining(c) ==
    /\ run \notin Returned
    /\ phase[c] = "waiting"
    /\ ~ Limited \/ permits > 0
    /\ permits' = IF Limited THEN permits - 1 ELSE permits
    /\ active' = active + 1
    /\ phase' = [phase EXCEPT ![c] = "spawned"]
    /\ UNCHANGED <<runVars, gauge, outcome, reloadVars, snapVars>>

\* listener.accept() wins the select: take a permit, count, spawn.  The
\* select is unbiased, so this may still happen once the token is cancelled.
Accept(c) ==
    /\ run = "accepting"
    /\ phase[c] = "waiting"
    /\ ~ Limited \/ permits > 0
    /\ permits' = IF Limited THEN permits - 1 ELSE permits
    /\ active' = active + 1
    /\ phase' = [phase EXCEPT ![c] = "spawned"]
    /\ UNCHANGED <<runVars, gauge, outcome, reloadVars, snapVars>>

\* try_acquire_owned fails: the client is dropped and the loop goes on.
Reject(c) ==
    /\ run = "accepting"
    /\ phase[c] = "waiting"
    /\ Limited /\ permits = 0
    /\ phase' = [phase EXCEPT ![c] = "rejected"]
    /\ UNCHANGED <<runVars, counters, outcome, reloadVars, snapVars>>

\* accept() fails: `result?` leaves run at once, without the drain loop.
AcceptError ==
    /\ run = "accepting"
    /\ run' = "failed"
    /\ UNCHANGED <<remaining, elapsed, shutdown, counters, phase, outcome, reloadVars, snapVars>>

\* SIGTERM or SIGINT: the process cancels the token shared by all listeners.
Shutdown ==
    /\ ~ shutdown
    /\ shutdown' = TRUE
    /\ UNCHANGED <<run, remaining, elapsed, counters, phase, outcome, reloadVars, snapVars>>

\* shutdown.cancelled() wins the select: stop accepting, start the drain.
BeginDrain ==
    /\ run = "accepting"
    /\ shutdown
    /\ run' = "load"
    /\ elapsed' = 0
    /\ UNCHANGED <<remaining, shutdown, counters, phase, outcome, reloadVars, snapVars>>

\* let remaining = active_tasks.load()
DrainLoad ==
    /\ run = "load"
    /\ remaining' = active
    /\ run' = "check"
    /\ UNCHANGED <<elapsed, shutdown, counters, phase, outcome, reloadVars, snapVars>>

\* Mutant: the drain is reported complete with one connection left.
DrainCheckEarly ==
    /\ run = "check"
    /\ run' = CASE remaining <= 1          -> "drained"
                [] /\ remaining > 1
                   /\ elapsed >= DrainTimeout -> "timed_out"
                [] OTHER                   -> "sleep"
    /\ UNCHANGED <<remaining, elapsed, shutdown, counters, phase, outcome, reloadVars, snapVars>>

\* Mutant: the drain has no timeout.
DrainCheckPatient ==
    /\ run = "check"
    /\ run' = IF remaining = 0 THEN "drained" ELSE "sleep"
    /\ UNCHANGED <<remaining, elapsed, shutdown, counters, phase, outcome, reloadVars, snapVars>>

\* Nothing left, or out of time, or sleep 100 ms and look again.
DrainCheck ==
    /\ run = "check"
    /\ run' = CASE remaining = 0           -> "drained"
                [] /\ remaining # 0
                   /\ elapsed >= DrainTimeout -> "timed_out"
                [] OTHER                   -> "sleep"
    /\ UNCHANGED <<remaining, elapsed, shutdown, counters, phase, outcome, reloadVars, snapVars>>

DrainWake ==
    /\ run = "sleep"
    /\ run' = "load"
    /\ UNCHANGED <<remaining, elapsed, shutdown, counters, phase, outcome, reloadVars, snapVars>>

\* Time passes during the drain; past the timeout it no longer matters.
Tick ==
    /\ run \in Draining
    /\ elapsed < DrainTimeout
    /\ elapsed' = elapsed + 1
    /\ UNCHANGED <<run, remaining, shutdown, counters, phase, outcome, reloadVars, snapVars>>

-----------------------------------------------------------------------------
(* The spawned task: handle_connection, then the two releases *)

\* self.router.load()
LoadRouter(c) ==
    /\ phase[c] = "spawned"
    /\ snapR' = [snapR EXCEPT ![c] = routerVer]
    /\ born' = [born EXCEPT ![c] = upVer]
    /\ phase' = [phase EXCEPT ![c] = "router"]
    /\ UNCHANGED <<runVars, counters, outcome, reloadVars, snapU>>

\* self.upstreams.load(), ConnectionGuard::new()
LoadUpstreams(c) ==
    /\ phase[c] = "router"
    /\ snapU' = [snapU EXCEPT ![c] = upVer]
    /\ gauge' = gauge + 1
    /\ phase' = [phase EXCEPT ![c] = "peek"]
    /\ UNCHANGED <<runVars, permits, active, outcome, reloadVars, snapR, born>>

\* handle_connection returns on whatever path: the guard is dropped.
Return(c, why) ==
    /\ gauge' = gauge - 1
    /\ outcome' = [outcome EXCEPT ![c] = why]
    /\ phase' = [phase EXCEPT ![c] = "returned"]
    /\ UNCHANGED <<runVars, permits, active, reloadVars, snapVars>>

\* handle_connection goes on to its next phase.
Proceed(c, to) ==
    /\ phase' = [phase EXCEPT ![c] = to]
    /\ UNCHANGED <<runVars, counters, outcome, reloadVars, snapVars>>

\* Mutant: the early return of a failed peek leaves the gauge as it is.
PeekErrorLeaks(c) ==
    /\ phase[c] = "peek"
    /\ outcome' = [outcome EXCEPT ![c] = "peek_error"]
    /\ phase' = [phase EXCEPT ![c] = "returned"]
    /\ UNCHANGED <<runVars, counters, reloadVars, snapVars>>

\* client.peek() fails.
PeekError(c) ==
    /\ phase[c] = "peek"
    /\ Return(c, "peek_error")

\* Mutant: the upstream is looked up in the live map, not in the snapshot.
RouteLive(c) ==
    /\ phase[c] = "peek"
    /\ \E s \in Snis :
         LET name == RouteOf[snapR[c]][s] IN
         \/ /\ name = NoUpstream
            /\ Return(c, "no_route")
         \/ /\ name # NoUpstream
            /\ name \notin UpstreamNames[upVer]
            /\ Return(c, "unknown_upstream")
         \/ /\ name # NoUpstream
            /\ name \in UpstreamNames[upVer]
            /\ Proceed(c, "connect")

\* The name is looked up in one snapshot, the upstream in the other.
Route(c) ==
    /\ phase[c] = "peek"
    /\ \E s \in Snis :
         LET name == RouteOf[snapR[c]][s] IN
         \/ /\ name = NoUpstream
            /\ Return(c, "no_route")
         \/ /\ name # NoUpstream
            /\ name \notin UpstreamNames[snapU[c]]
            /\ Return(c, "unknown_upstream")
         \/ /\ name # NoUpstream
            /\ name \in UpstreamNames[snapU[c]]
            /\ Proceed(c, "connect")

\* Refused, unreachable or past connect_timeout; otherwise connected.
Connect(c) ==
    /\ phase[c] = "connect"
    /\ \/ Return(c, "connect_error")
       \/ Proceed(c, "header")

\* PROXY protocol header, if configured; its write may fail.
SendHeader(c) ==
    /\ phase[c] = "header"
    /\ \/ Return(c, "header_error")
       \/ UseSockmap /\ Proceed(c, "kernel")      \* register_pair succeeded
       \/ Proceed(c, "copy")                      \* userspace, or fallback

\* copy_bidirectional ends (its error is only counted), or a registered
\* socket became readable and the pair is unregistered.
Finish(c) ==
    /\ phase[c] \in {"copy", "kernel"}
    /\ Return(c, "closed")

\* task_counter.fetch_sub(1), before the permit is dropped.
Uncount(c) ==
    /\ phase[c] = "returned"
    /\ active' = active - 1
    /\ phase' = [phase EXCEPT ![c] = "counted"]
    /\ UNCHANGED <<runVars, permits, gauge, outcome, reloadVars, snapVars>>

\* The end of the async block drops _permit.
DropPermit(c) ==
    /\ phase[c] = "counted"
    /\ permits' = IF Limited THEN permits + 1 ELSE permits
    /\ phase' = [phase EXCEPT ![c] = "done"]
    /\ UNCHANGED <<runVars, active, gauge, outcome, reloadVars, snapVars>>

TaskStep(c) ==
    \/ LoadRouter(c) \/ LoadUpstreams(c) \/ PeekError(c) \/ Route(c) \/ Connect(c)
    \/ SendHeader(c) \/ Finish(c) \/ Uncount(c) \/ DropPermit(c)

-----------------------------------------------------------------------------
(* StreamProxy::reload, called by the one config watcher task *)

ReloadBegin ==
    /\ reloadPc = "idle"
    /\ routerVer < MaxReloads
    /\ reloadPc' = "build"
    /\ UNCHANGED <<runVars, counters, phase, outcome, routerVer, upVer, snapVars>>

\* A backend endpoint does not parse: nothing has been stored yet.
ReloadFail ==
    /\ reloadPc = "build"
    /\ reloadPc' = "idle"
    /\ UNCHANGED <<runVars, counters, phase, outcome, routerVer, upVer, snapVars>>

\* Mutant: the reload forgets to store the router.
ReloadBuiltHalf ==
    /\ reloadPc = "build"
    /\ reloadPc' = "store_upstreams"
    /\ UNCHANGED <<runVars, counters, phase, outcome, routerVer, upVer, snapVars>>

ReloadBuilt ==
    /\ reloadPc = "build"
    /\ reloadPc' = "store_router"
    /\ UNCHANGED <<runVars, counters, phase, outcome, routerVer, upVer, snapVars>>

\* self.router.store(...)
StoreRouter ==
    /\ reloadPc = "store_router"
    /\ routerVer' = routerVer + 1
    /\ reloadPc' = "store_upstreams"
    /\ UNCHANGED <<runVars, counters, phase, outcome, upVer, snapVars>>

\* self.upstreams.store(...)
StoreUpstreams ==
    /\ reloadPc = "store_upstreams"
    /\ upVer' = upVer + 1
    /\ reloadPc' = "idle"
    /\ UNCHANGED <<runVars, counters, phase, outcome, routerVer, snapVars>>

ReloadStep == ReloadBegin \/ ReloadFail \/ ReloadBuilt \/ StoreRouter \/ StoreUpstreams

DrainStep == BeginDrain \/ DrainLoad \/ DrainCheck \/ DrainWake

Next ==
    \/ \E c \in Conns : Accept(c) \/ Reject(c) \/ TaskStep(c)
    \/ AcceptError
    \/ Shutdown
    \/ DrainStep
    \/ Tick
    \/ ReloadStep

Spec == Init /\ [][Next]_vars

\* The run task is polled and time passes.  Nothing is assumed of clients,
\* backends or the other tasks: a connection may stay open for ever.
FairSpec == Spec /\ WF_vars(DrainStep) /\ WF_vars(Tick)

-----------------------------------------------------------------------------
(***************************************************************************)
(* The semaphore and the counters are exact at every moment: every way out *)
(* of handle_connection gives back the permit, the active_tasks count and  *)
(* the gauge once, and a rejected client took none of them.                *)
(***************************************************************************)
CountersExact ==
    /\ active = Cardinality(In(Counted))
    /\ gauge = Cardinality(In(Guarded))
    /\ Limited => permits + Cardinality(In(Holding)) = MaxConnections

(***************************************************************************)
(* max_connections bounds the connections being handled, whatever the      *)
(* order in which tasks end and clients arrive.                            *)
(***************************************************************************)
ConnectionLimit == Limited => Cardinality(In(Handling)) <= MaxConnections

(***************************************************************************)
(* run returns after a drain without timeout only when no connection is    *)
(* being handled: a task is counted before it is spawned, and none is      *)
(* accepted once the drain has begun.                                      *)
(***************************************************************************)
DrainedMeansQuiet == run = "drained" => In(Handling) = {}

(***************************************************************************)
(* The two loads of a connection may straddle a reload, but both stores    *)
(* and both loads go router first: the upstream map is at most one version *)
(* behind the router, and both are at least as new as the last reload that *)
(* had completed when the task began.                                      *)
(***************************************************************************)
SnapshotFresh ==
    \A c \in In(Guarded) :
        /\ snapU[c] >= snapR[c] - 1
        /\ snapR[c] >= born[c]
        /\ snapU[c] >= born[c]

(***************************************************************************)
(* Configurations are validated, so the "Unknown upstream" routing error   *)
(* of handle_connection can only come from a snapshot torn by a reload.    *)
(***************************************************************************)
UnknownUpstreamOnlyIfTorn ==
    \A c \in Conns : outcome[c] = "unknown_upstream" => snapR[c] # snapU[c]

(***************************************************************************)
(* proxy.rs:366, on reload: "On success, atomically swaps in the new       *)
(* router and upstreams", and proxy.rs:490 "Snapshot config at connection  *)
(* start -- a mid-connection reload won't affect this conn".  Between two  *)
(* valid configurations no connection meets an unknown upstream.           *)
(***************************************************************************)
NoUnknownUpstream == \A c \in Conns : outcome[c] # "unknown_upstream"

(***************************************************************************)
(* proxy.rs:402: on shutdown run waits up to drain_timeout, then returns.  *)
(* It does so even if clients never close and even though the unbiased     *)
(* select may go on accepting for a while.                                 *)
(***************************************************************************)
ShutdownReturns == shutdown ~> run \in Returned

(***************************************************************************)
(* The listener implements StreamAdmission: the permits, active_tasks and  *)
(* the polling drain loop together admit at most max_connections clients,  *)
(* admit none after the drain has begun, and report a completed drain only *)
(* when every admitted task has finished handling its client.              *)
(***************************************************************************)
AdmissionState ==
    CASE run = "accepting"  -> "open"
      [] run \in Draining   -> "closing"
      [] run = "drained"    -> "quiet"
      [] run = "timed_out"  -> "forced"
      [] run = "failed"     -> "failed"

Admission == INSTANCE StreamAdmission
                WITH Clients <- Conns, Limit <- MaxConnections,
                     live <- In(Counted), state <- AdmissionState

ImplementsAdmission == Admission!Spec
=============================================================================
