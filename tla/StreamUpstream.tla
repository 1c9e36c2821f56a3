--------------------------- MODULE StreamUpstream ---------------------------
(***************************************************************************)
(* Passive health tracking of the L4 proxy: one stream upstream, its       *)
(* backends and the connections that choose among them.                    *)
(*                                                                         *)
(* Sources: crates/wicket-stream/src/health.rs (BackendHealth) and the     *)
(* Upstream half of crates/wicket-stream/src/proxy.rs (next_server,        *)
(* report_success, report_failure), with the connect outcome of            *)
(* handle_connection as the environment.                                   *)
(*                                                                         *)
(* Every field of BackendHealth is an atomic of its own, and connections   *)
(* run on a multi-threaded runtime: each load, store, swap and fetch_add   *)
(* is one step of the connection that executes it.  A reload builds fresh  *)
(* Upstream objects, while a connection keeps the Arc it loaded: the state *)
(* is indexed by the generation of the object.  The exported health gauge  *)
(* is keyed by backend label and is shared by all generations.             *)
(***************************************************************************)
EXTENDS Integers, FiniteSets

CONSTANTS
    Conns,          \* connections (a finished one is reused by a later client)
    NumServers,     \* servers.len(); configuration validation refuses 0
    Label,          \* label of each server slot; duplicates are legal
    Cooldown,       \* health_cooldown_secs
    MaxTime,        \* bound: the wall clock stops here
    MaxPicks,       \* bound: next_server calls per generation
    MaxReloads      \* bound: reloads, hence generations

Slots == 0 .. NumServers - 1
Gens  == 0 .. MaxReloads

ASSUME UpstreamAssumption ==
    /\ NumServers \in Nat \ {0}
    /\ Cooldown \in Nat
    /\ MaxTime \in Nat \ {0}
    /\ MaxPicks \in Nat
    /\ MaxReloads \in Nat

VARIABLES
    healthy,        \* BackendHealth.healthy, per generation and slot
    since,          \* BackendHealth.unhealthy_since
    fails,          \* BackendHealth.consecutive_failures
    counter,        \* Upstream.counter, per generation
    gauge,          \* STREAM_UPSTREAM_HEALTH, per slot that owns a label
    gen,            \* generation the proxy hands to new connections
    now,            \* wall clock
    pc,             \* where each connection is
    mygen,          \* generation whose Arc a connection holds
    start,          \* next_server: counter value drawn
    off,            \* next_server: the loop variable i
    srv,            \* slot chosen by next_server
    seenSince,      \* a loaded unhealthy_since, or now_ms about to be stored
    wasHealthy,     \* report_*: health read before recording
    swapWas         \* record_failure: value returned by the swap

\* History variables: they record what happened and guard nothing.
VARIABLES
    tainted,        \* two reports on this slot have overlapped
    alone,          \* no other report touched the slot during this one
    steady          \* slots healthy at every moment since the pick

shared   == <<healthy, since, fails, counter, gauge, gen, now>>
local    == <<pc, mygen, start, off, srv, seenSince, wasHealthy, swapWas>>
history  == <<tainted, alone, steady>>
vars     == <<shared, local, history>>

ScanPcs    == {"scan", "scan_since", "scan_now"}
OkPcs      == {"ok_read", "ok_swap", "ok_fails", "ok_since"}
FailPcs    == {"fail_read", "fail_swap", "fail_fails", "fail_clock", "fail_since"}
GaugePcs   == {"ok_gauge", "fail_gauge"}
RecordPcs  == OkPcs \cup FailPcs
Pcs        == {"idle", "loaded", "connect"} \cup ScanPcs \cup RecordPcs \cup GaugePcs

TypeOK ==
    /\ healthy \in [Gens -> [Slots -> BOOLEAN]]
    /\ since \in [Gens -> [Slots -> 0 .. MaxTime]]
    /\ fails \in [Gens -> [Slots -> Nat]]
    /\ counter \in [Gens -> Nat]
    /\ gauge \in [Slots -> {"absent", "up", "down"}]
    /\ gen \in Gens
    /\ now \in 1 .. MaxTime
    /\ pc \in [Conns -> Pcs]
    /\ mygen \in [Conns -> Gens]
    /\ start \in [Conns -> Nat]
    /\ off \in [Conns -> 0 .. NumServers]
    /\ srv \in [Conns -> Slots]
    /\ seenSince \in [Conns -> 0 .. MaxTime]
    /\ wasHealthy \in [Conns -> BOOLEAN]
    /\ swapWas \in [Conns -> BOOLEAN]
    /\ tainted \in [Gens -> [Slots -> BOOLEAN]]
    /\ alone \in [Conns -> BOOLEAN]
    /\ steady \in [Conns -> SUBSET Slots]

-----------------------------------------------------------------------------
\* health.iter().find(|h| h.label() == label): the first slot with the label.
OwnerSlot(s) ==
    CHOOSE t \in Slots : /\ Label[t] = Label[s]
                         /\ \A u \in Slots : Label[u] = Label[s] => t <= u

\* Mutant: the loop variable is forgotten and the same slot is asked each time.
ScanSlotStuck(c) == start[c] % NumServers

\* The slot next_server looks at, and the one a connection reports to.
ScanSlot(c)   == (start[c] + off[c]) % NumServers
ReportSlot(c) == OwnerSlot(srv[c])

\* Connections inside report_* on slot s of generation g, up to the last
\* update of the health record.
Reporting(g, s) ==
    {c \in Conns : pc[c] \in RecordPcs /\ mygen[c] = g /\ ReportSlot(c) = s}

\* now_ms.saturating_sub(since) >= cooldown
CooledDown(t, s) == (IF t >= s THEN t - s ELSE 0) >= Cooldown

\* Update one field of the health record the connection reports to.
SetSlot(field, c, v) == [field EXCEPT ![mygen[c]][ReportSlot(c)] = v]

-----------------------------------------------------------------------------
\* BackendHealth::new for every server of a fresh Upstream.
Init ==
    /\ healthy = [g \in Gens |-> [s \in Slots |-> TRUE]]
    /\ since = [g \in Gens |-> [s \in Slots |-> 0]]
    /\ fails = [g \in Gens |-> [s \in Slots |-> 0]]
    /\ counter = [g \in Gens |-> 0]
    /\ gauge = [s \in Slots |-> "absent"]
    /\ gen = 0
    /\ now = 1
    /\ pc = [c \in Conns |-> "idle"]
    /\ mygen = [c \in Conns |-> 0]
    /\ start = [c \in Conns |-> 0]
    /\ off = [c \in Conns |-> 0]
    /\ srv = [c \in Conns |-> 0]
    /\ seenSince = [c \in Conns |-> 0]
    /\ wasHealthy = [c \in Conns |-> TRUE]
    /\ swapWas = [c \in Conns |-> TRUE]
    /\ tainted = [g \in Gens |-> [s \in Slots |-> FALSE]]
    /\ alone = [c \in Conns |-> FALSE]
    /\ steady = [c \in Conns |-> {}]

Tick ==
    /\ now < MaxTime
    /\ now' = now + 1
    /\ UNCHANGED <<healthy, since, fails, counter, gauge, gen, local, history>>

\* StreamProxy::reload stores a map of fresh Upstream objects.
Reload ==
    /\ gen < MaxReloads
    /\ gen' = gen + 1
    /\ UNCHANGED <<healthy, since, fails, counter, gauge, now, local, history>>

\* handle_connection: self.upstreams.load().
Load(c) ==
    /\ pc[c] = "idle"
    /\ pc' = [pc EXCEPT ![c] = "loaded"]
    /\ mygen' = [mygen EXCEPT ![c] = gen]
    /\ UNCHANGED <<shared, start, off, srv, seenSince, wasHealthy, swapWas, history>>

\* next_server: counter.fetch_add(1).
Pick(c) ==
    /\ pc[c] = "loaded"
    /\ counter[mygen[c]] < MaxPicks
    /\ start' = [start EXCEPT ![c] = counter[mygen[c]]]
    /\ counter' = [counter EXCEPT ![mygen[c]] = @ + 1]
    /\ off' = [off EXCEPT ![c] = 0]
    /\ pc' = [pc EXCEPT ![c] = "scan"]
    /\ steady' = [steady EXCEPT ![c] = {s \in Slots : healthy[mygen[c]][s]}]
    /\ UNCHANGED <<healthy, since, fails, gauge, gen, now, mygen, srv, seenSince,
                   wasHealthy, swapWas, tainted, alone>>

Select(c, s) ==
    /\ srv' = [srv EXCEPT ![c] = s]
    /\ pc' = [pc EXCEPT ![c] = "connect"]

\* is_eligible: self.is_healthy().
ScanHealthy(c) ==
    /\ pc[c] = "scan"
    /\ off[c] < NumServers
    /\ \/ /\ healthy[mygen[c]][ScanSlot(c)]
          /\ Select(c, ScanSlot(c))
       \/ /\ ~ healthy[mygen[c]][ScanSlot(c)]
          /\ pc' = [pc EXCEPT ![c] = "scan_since"]
          /\ UNCHANGED srv
    /\ UNCHANGED <<shared, mygen, start, off, seenSince, wasHealthy, swapWas, history>>

\* is_eligible: unhealthy_since.load(), 0 counts as eligible.
ScanSince(c) ==
    LET stamp == since[mygen[c]][ScanSlot(c)] IN
    /\ pc[c] = "scan_since"
    /\ \/ /\ stamp = 0
          /\ Select(c, ScanSlot(c))
          /\ UNCHANGED seenSince
       \/ /\ stamp # 0
          /\ seenSince' = [seenSince EXCEPT ![c] = stamp]
          /\ pc' = [pc EXCEPT ![c] = "scan_now"]
          /\ UNCHANGED srv
    /\ UNCHANGED <<shared, mygen, start, off, wasHealthy, swapWas, history>>

\* is_eligible: the clock is read after the stamp; not eligible, next slot.
ScanNow(c) ==
    /\ pc[c] = "scan_now"
    /\ \/ /\ CooledDown(now, seenSince[c])
          /\ Select(c, ScanSlot(c))
          /\ UNCHANGED off
       \/ /\ ~ CooledDown(now, seenSince[c])
          /\ off' = [off EXCEPT ![c] = @ + 1]
          /\ pc' = [pc EXCEPT ![c] = "scan"]
          /\ UNCHANGED srv
    /\ UNCHANGED <<shared, mygen, start, seenSince, wasHealthy, swapWas, history>>

\* The loop of next_server is over: fail open with servers[start % len].
FailOpen(c) ==
    /\ pc[c] = "scan"
    /\ off[c] = NumServers
    /\ Select(c, start[c] % NumServers)
    /\ UNCHANGED <<shared, mygen, start, off, seenSince, wasHealthy, swapWas, history>>

\* The backend answers; or it refuses, or the connect timeout expires.
Connected(c) ==
    /\ pc[c] = "connect"
    /\ \E entry \in {"ok_read", "fail_read"} : pc' = [pc EXCEPT ![c] = entry]
    /\ LET others == Reporting(mygen[c], ReportSlot(c)) IN
       /\ alone' = [d \in Conns |->
                      IF d = c THEN others = {}
                      ELSE alone[d] /\ d \notin others]
       /\ tainted' = SetSlot(tainted, c,
                             tainted[mygen[c]][ReportSlot(c)] \/ others # {})
    /\ UNCHANGED <<shared, mygen, start, off, srv, seenSince, wasHealthy, swapWas, steady>>

\* report_success / report_failure: let was_healthy = h.is_healthy().
ReadHealth(c) ==
    /\ \/ /\ pc[c] = "ok_read"
          /\ pc' = [pc EXCEPT ![c] = "ok_swap"]
       \/ /\ pc[c] = "fail_read"
          /\ pc' = [pc EXCEPT ![c] = "fail_swap"]
    /\ wasHealthy' = [wasHealthy EXCEPT ![c] = healthy[mygen[c]][ReportSlot(c)]]
    /\ UNCHANGED <<shared, mygen, start, off, srv, seenSince, swapWas, history>>

\* record_success, first step: healthy.swap(true).
OkSwap(c) ==
    /\ pc[c] = "ok_swap"
    /\ healthy' = SetSlot(healthy, c, TRUE)
    /\ pc' = [pc EXCEPT ![c] = "ok_fails"]
    /\ UNCHANGED <<since, fails, counter, gauge, gen, now, mygen, start, off, srv,
                   seenSince, wasHealthy, swapWas, history>>

\* record_success, second step: consecutive_failures.store(0).
OkFails(c) ==
    /\ pc[c] = "ok_fails"
    /\ fails' = SetSlot(fails, c, 0)
    /\ pc' = [pc EXCEPT ![c] = "ok_since"]
    /\ UNCHANGED <<healthy, since, counter, gauge, gen, now, mygen, start, off, srv,
                   seenSince, wasHealthy, swapWas, history>>

\* Mutant: record_success leaves the stamp.
OkSinceKept(c) ==
    /\ pc[c] = "ok_since"
    /\ pc' = [pc EXCEPT ![c] = IF wasHealthy[c] THEN "idle" ELSE "ok_gauge"]
    /\ tainted' = IF alone[c] THEN SetSlot(tainted, c, FALSE) ELSE tainted
    /\ UNCHANGED <<healthy, since, fails, counter, gauge, gen, now, mygen, start, off,
                   srv, seenSince, wasHealthy, swapWas, alone, steady>>

\* record_success, third step: unhealthy_since.store(0).
OkSince(c) ==
    /\ pc[c] = "ok_since"
    /\ since' = SetSlot(since, c, 0)
    /\ pc' = [pc EXCEPT ![c] = IF wasHealthy[c] THEN "idle" ELSE "ok_gauge"]
    /\ tainted' = IF alone[c] THEN SetSlot(tainted, c, FALSE) ELSE tainted
    /\ UNCHANGED <<healthy, fails, counter, gauge, gen, now, mygen, start, off, srv,
                   seenSince, wasHealthy, swapWas, alone, steady>>

\* record_failure, first step: healthy.swap(false).  The slot stops being
\* steady for every connection that scans this generation.
FailSwap(c) ==
    /\ pc[c] = "fail_swap"
    /\ swapWas' = [swapWas EXCEPT ![c] = healthy[mygen[c]][ReportSlot(c)]]
    /\ healthy' = SetSlot(healthy, c, FALSE)
    /\ pc' = [pc EXCEPT ![c] = "fail_fails"]
    /\ steady' = [d \in Conns |-> IF mygen[d] = mygen[c]
                                  THEN steady[d] \ {ReportSlot(c)} ELSE steady[d]]
    /\ UNCHANGED <<since, fails, counter, gauge, gen, now, mygen, start, off, srv,
                   seenSince, wasHealthy, tainted, alone>>

\* Where record_failure and then report_failure go on.
AfterFailRecord(c) == IF wasHealthy[c] THEN "fail_gauge" ELSE "idle"

\* record_failure, second step: consecutive_failures.fetch_add(1).
FailFails(c) ==
    /\ pc[c] = "fail_fails"
    /\ fails' = SetSlot(fails, c, fails[mygen[c]][ReportSlot(c)] + 1)
    /\ pc' = [pc EXCEPT ![c] = IF swapWas[c] THEN "fail_clock" ELSE AfterFailRecord(c)]
    /\ UNCHANGED <<healthy, since, counter, gauge, gen, now, mygen, start, off, srv,
                   seenSince, wasHealthy, swapWas, history>>

\* record_failure: the clock is read ...
FailClock(c) ==
    /\ pc[c] = "fail_clock"
    /\ seenSince' = [seenSince EXCEPT ![c] = now]
    /\ pc' = [pc EXCEPT ![c] = "fail_since"]
    /\ UNCHANGED <<shared, mygen, start, off, srv, wasHealthy, swapWas, history>>

\* ... and stored in unhealthy_since.
FailSince(c) ==
    /\ pc[c] = "fail_since"
    /\ since' = SetSlot(since, c, seenSince[c])
    /\ pc' = [pc EXCEPT ![c] = AfterFailRecord(c)]
    /\ UNCHANGED <<healthy, fails, counter, gauge, gen, now, mygen, start, off, srv,
                   seenSince, wasHealthy, swapWas, history>>

\* report_success / report_failure: a transition sets the exported gauge.
SetGauge(c) ==
    /\ \/ /\ pc[c] = "ok_gauge"
          /\ gauge' = [gauge EXCEPT ![ReportSlot(c)] = "up"]
       \/ /\ pc[c] = "fail_gauge"
          /\ gauge' = [gauge EXCEPT ![ReportSlot(c)] = "down"]
    /\ pc' = [pc EXCEPT ![c] = "idle"]
    /\ UNCHANGED <<healthy, since, fails, counter, gen, now, mygen, start, off, srv,
                   seenSince, wasHealthy, swapWas, history>>

ConnStep(c) ==
    \/ Load(c) \/ Pick(c)
    \/ ScanHealthy(c) \/ ScanSince(c) \/ ScanNow(c) \/ FailOpen(c)
    \/ Connected(c) \/ ReadHealth(c)
    \/ OkSwap(c) \/ OkFails(c) \/ OkSince(c)
    \/ FailSwap(c) \/ FailFails(c) \/ FailClock(c) \/ FailSince(c)
    \/ SetGauge(c)

Next ==
    \/ Tick
    \/ Reload
    \/ \E c \in Conns : ConnStep(c)

Spec == Init /\ [][Next]_vars

-----------------------------------------------------------------------------
\* The three fields of a health record tell one story.
Consistent(g, s) ==
    /\ healthy[g][s] <=> since[g][s] = 0
    /\ healthy[g][s] <=> fails[g][s] = 0

(***************************************************************************)
(* health.rs keeps three atomics and updates them one by one.  At rest     *)
(* they agree (healthy, no failures counted, no stamp; or unhealthy,       *)
(* counted and stamped) unless two reports on the slot overlapped, and one *)
(* success that runs alone repairs whatever an overlap left behind.        *)
(***************************************************************************)
CleanSlotConsistent ==
    \A g \in Gens, s \in Slots :
        (~ tainted[g][s] /\ Reporting(g, s) = {}) => Consistent(g, s)

(***************************************************************************)
(* next_server passes a slot over only if the slot was unhealthy at some   *)
(* moment of this call: a slot healthy from the fetch_add on is never      *)
(* skipped, whatever other connections record in between.  When the loop   *)
(* is over every slot has been passed, so next_server fails open only if   *)
(* no backend stayed healthy throughout ("If all backends are unhealthy    *)
(* and within cooldown, fails open").                                      *)
(***************************************************************************)
NoSteadySlotSkipped ==
    \A c \in Conns : pc[c] \in ScanPcs =>
        \A i \in 0 .. off[c] - 1 : (start[c] + i) % NumServers \notin steady[c]

(***************************************************************************)
(* health.rs:14, on unhealthy_since: "Unix timestamp (millis) when marked  *)
(* unhealthy. 0 = never."  At rest, an unhealthy slot carries its stamp.   *)
(***************************************************************************)
UnhealthyIsStamped ==
    \A g \in Gens, s \in Slots :
        (Reporting(g, s) = {} /\ ~ healthy[g][s]) => since[g][s] # 0

(***************************************************************************)
(* metrics.rs:100, on STREAM_UPSTREAM_HEALTH: "Backend health status       *)
(* (1=healthy, 0=unhealthy)".  With nothing in flight, a gauge that has    *)
(* been set agrees with the health the current generation tracks.          *)
(***************************************************************************)
GaugeReportsHealth ==
    (\A c \in Conns : pc[c] = "idle") =>
        \A s \in Slots :
            gauge[s] # "absent" => (gauge[s] = "up" <=> healthy[gen][s])
=============================================================================
