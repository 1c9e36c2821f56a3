--------------------------- MODULE LeaderElection ---------------------------
(***************************************************************************)
(* Leader election of the Gateway API controller on a Kubernetes Lease.    *)
(*                                                                         *)
(* Sources: crates/wicket-controller/src/leader_election.rs and the        *)
(* election task of crates/wicket-controller/src/main.rs.  The API server  *)
(* is external: it serves each request at one moment, between the moment   *)
(* the replica reads its clock for it and the moment the reply arrives.    *)
(*                                                                         *)
(* Time is kept as ages.  renewTime is the age of the stamp in the lease,  *)
(* and a replica's own clock reading is the lag since it was taken, so the *)
(* state space is finite without bounding the run.  Replica clocks agree.  *)
(***************************************************************************)
EXTENDS Integers, FiniteSets

CONSTANTS
    Replicas,        \* controller replicas, known by holder_identity
    NoHolder,        \* the Lease object does not exist
    LeaseDuration,   \* lease_duration, in ticks
    RenewEvery,      \* pause between attempts, in ticks
    MaxLag,          \* bound: ticks a request may take
    Crashable,       \* replicas that may crash
    MaxFaults        \* bound: failed requests and crashes

ASSUME LeaderElectionAssumption ==
    /\ NoHolder \notin Replicas
    /\ LeaseDuration \in Nat
    /\ RenewEvery \in Nat
    /\ MaxLag \in Nat
    /\ RenewEvery <= MaxLag
    /\ Crashable \subseteq Replicas
    /\ MaxFaults \in Nat

\* From these ages on, an expired stamp stays expired whatever the lag.
AgeCap    == LeaseDuration + 1 + MaxLag
BeliefCap == LeaseDuration + 1

VARIABLES
    holder,     \* Lease: spec.holderIdentity
    age,        \* Lease: time since spec.renewTime
    pc,         \* where each replica's election loop is
    lag,        \* time since the replica last read its clock, or since it slept
    decision,   \* what the lease just read tells the replica to do
    isLeader,   \* the is_leader flag of main.rs
    belief,     \* time since the renewTime the replica last wrote
    working,    \* the controllers of the replica are running
    faults,     \* failed requests and crashes so far
    contended   \* history: two replicas were about to patch at the same time

electionVars == <<holder, age, pc, lag, decision, isLeader, belief, working, faults, contended>>

InFlight == {"reading", "got", "create", "patch", "reply"}
Pcs      == {"start", "sleep", "down"} \cup InFlight

ElectionTypeOK ==
    /\ holder \in Replicas \cup {NoHolder}
    /\ age \in 0 .. AgeCap
    /\ pc \in [Replicas -> Pcs]
    /\ lag \in [Replicas -> 0 .. MaxLag]
    /\ decision \in [Replicas -> {"create", "patch", "follow"}]
    /\ isLeader \in [Replicas -> BOOLEAN]
    /\ belief \in [Replicas -> 0 .. BeliefCap]
    /\ working \in [Replicas -> BOOLEAN]
    /\ faults \in 0 .. MaxFaults
    /\ contended \in BOOLEAN

ElectionInit ==
    /\ holder = NoHolder
    /\ age = 0
    /\ pc = [r \in Replicas |-> "start"]
    /\ lag = [r \in Replicas |-> 0]
    /\ decision = [r \in Replicas |-> "follow"]
    /\ isLeader = [r \in Replicas |-> FALSE]
    /\ belief = [r \in Replicas |-> BeliefCap]
    /\ working = [r \in Replicas |-> FALSE]
    /\ faults = 0
    /\ contended = FALSE

\* Mutant: a lease counts as expired one tick early.
ExpiredEarly(r) == age - lag[r] >= LeaseDuration

\* now > renew_time + lease_duration, with the clock as read lag ticks ago.
Expired(r) == age - lag[r] > LeaseDuration

\* The replica takes itself for the leader and its own expire_time is ahead.
ValidLeader(r) == isLeader[r] /\ belief[r] <= LeaseDuration

\* The replica has read a lease it may take and has not yet written it.
AboutToPatch(r) == pc[r] \in {"got", "patch"} /\ decision[r] = "patch"

Older(a, cap) == IF a < cap THEN a + 1 ELSE a

-----------------------------------------------------------------------------
Tick ==
    /\ \A r \in Replicas : pc[r] \in InFlight => lag[r] < MaxLag
    /\ age' = Older(age, AgeCap)
    /\ lag' = [r \in Replicas |-> Older(lag[r], MaxLag)]
    /\ belief' = [r \in Replicas |-> Older(belief[r], BeliefCap)]
    /\ UNCHANGED <<holder, pc, decision, isLeader, working, faults, contended>>

\* try_acquire_or_renew: let now = Utc::now(), then the GET is sent.
Begin(r) ==
    /\ pc[r] = "start"
    /\ pc' = [pc EXCEPT ![r] = "reading"]
    /\ lag' = [lag EXCEPT ![r] = 0]
    /\ UNCHANGED <<holder, age, decision, isLeader, belief, working, faults, contended>>

\* Mutant: an expired lease of another replica is not taken over.
DecideTimid(r) ==
    CASE holder = NoHolder -> "create"
      [] holder = r -> "patch"
      [] OTHER -> "follow"

\* What try_acquire_or_renew makes of the lease it has read.
Decide(r) ==
    CASE holder = NoHolder -> "create"
      [] holder # NoHolder /\ (holder = r \/ Expired(r)) -> "patch"
      [] OTHER -> "follow"

\* The GET is served; what the replica will do follows from what it returns.
Get(r) ==
    /\ pc[r] = "reading"
    /\ decision' = [decision EXCEPT ![r] = Decide(r)]
    /\ pc' = [pc EXCEPT ![r] = "got"]
    /\ contended' = \/ contended
                    \/ /\ Decide(r) = "patch"
                       /\ \E q \in Replicas \ {r} : AboutToPatch(q)
    /\ UNCHANGED <<holder, age, lag, isLeader, belief, working, faults>>

\* create_lease and update_lease read the clock again before they write.
Prepare(r) ==
    /\ pc[r] = "got"
    /\ decision[r] # "follow"
    /\ pc' = [pc EXCEPT ![r] = decision[r]]
    /\ lag' = [lag EXCEPT ![r] = 0]
    /\ UNCHANGED <<holder, age, decision, isLeader, belief, working, faults, contended>>

\* Someone else holds a valid lease: is_leader is cleared.
Follow(r) ==
    /\ pc[r] = "got"
    /\ decision[r] = "follow"
    /\ isLeader' = [isLeader EXCEPT ![r] = FALSE]
    /\ pc' = [pc EXCEPT ![r] = "sleep"]
    /\ lag' = [lag EXCEPT ![r] = 0]
    /\ UNCHANGED <<holder, age, decision, belief, working, faults, contended>>

\* The API server creates the Lease.
CreateServed(r) ==
    /\ pc[r] = "create"
    /\ holder = NoHolder
    /\ holder' = r
    /\ age' = lag[r]
    /\ pc' = [pc EXCEPT ![r] = "reply"]
    /\ UNCHANGED <<lag, decision, isLeader, belief, working, faults, contended>>

\* Mutant: a 409 on create is taken for success.
CreateConflictLeads(r) ==
    /\ pc[r] = "create"
    /\ holder # NoHolder
    /\ isLeader' = [isLeader EXCEPT ![r] = TRUE]
    /\ belief' = [belief EXCEPT ![r] = lag[r]]
    /\ pc' = [pc EXCEPT ![r] = "sleep"]
    /\ lag' = [lag EXCEPT ![r] = 0]
    /\ UNCHANGED <<holder, age, decision, working, faults, contended>>

\* 409: the Lease already exists, this replica is not the leader.
CreateConflict(r) ==
    /\ pc[r] = "create"
    /\ holder # NoHolder
    /\ isLeader' = [isLeader EXCEPT ![r] = FALSE]
    /\ pc' = [pc EXCEPT ![r] = "sleep"]
    /\ lag' = [lag EXCEPT ![r] = 0]
    /\ UNCHANGED <<holder, age, decision, belief, working, faults, contended>>

\* The merge patch carries no resourceVersion: the API server applies it to
\* whatever the Lease has become since it was read.
PatchServed(r) ==
    /\ pc[r] = "patch"
    /\ holder' = r
    /\ age' = lag[r]
    /\ pc' = [pc EXCEPT ![r] = "reply"]
    /\ UNCHANGED <<lag, decision, isLeader, belief, working, faults, contended>>

\* Mutant: expire_time is computed from the moment the reply arrives.
ReplyFresh(r) ==
    /\ pc[r] = "reply"
    /\ isLeader' = [isLeader EXCEPT ![r] = TRUE]
    /\ belief' = [belief EXCEPT ![r] = 0]
    /\ pc' = [pc EXCEPT ![r] = "sleep"]
    /\ lag' = [lag EXCEPT ![r] = 0]
    /\ UNCHANGED <<holder, age, decision, working, faults, contended>>

\* The reply arrives: is_leader.store(true).
Reply(r) ==
    /\ pc[r] = "reply"
    /\ isLeader' = [isLeader EXCEPT ![r] = TRUE]
    /\ belief' = [belief EXCEPT ![r] = IF lag[r] < BeliefCap THEN lag[r] ELSE BeliefCap]
    /\ pc' = [pc EXCEPT ![r] = "sleep"]
    /\ lag' = [lag EXCEPT ![r] = 0]
    /\ UNCHANGED <<holder, age, decision, working, faults, contended>>

\* Any other API error, the loss of a reply included: is_leader.store(false).
ApiError(r) ==
    /\ pc[r] \in {"reading", "create", "patch", "reply"}
    /\ faults < MaxFaults
    /\ faults' = faults + 1
    /\ isLeader' = [isLeader EXCEPT ![r] = FALSE]
    /\ pc' = [pc EXCEPT ![r] = "sleep"]
    /\ lag' = [lag EXCEPT ![r] = 0]
    /\ UNCHANGED <<holder, age, decision, belief, working, contended>>

\* tokio::time::sleep(5 s), then the loop begins again.
Wake(r) ==
    /\ pc[r] = "sleep"
    /\ lag[r] >= RenewEvery
    /\ pc' = [pc EXCEPT ![r] = "start"]
    /\ UNCHANGED <<holder, age, lag, decision, isLeader, belief, working, faults, contended>>

\* main: one second after the election task was spawned the controllers are
\* started; nothing reads is_leader.
StartControllers(r) ==
    /\ pc[r] # "down"
    /\ ~ working[r]
    /\ working' = [working EXCEPT ![r] = TRUE]
    /\ UNCHANGED <<holder, age, pc, lag, decision, isLeader, belief, faults, contended>>

\* The pod dies with everything it keeps in memory; the Lease stays.
Crash(r) ==
    /\ r \in Crashable
    /\ pc[r] # "down"
    /\ faults < MaxFaults
    /\ faults' = faults + 1
    /\ pc' = [pc EXCEPT ![r] = "down"]
    /\ isLeader' = [isLeader EXCEPT ![r] = FALSE]
    /\ working' = [working EXCEPT ![r] = FALSE]
    /\ UNCHANGED <<holder, age, lag, decision, belief, contended>>

RestartReplica(r) ==
    /\ pc[r] = "down"
    /\ pc' = [pc EXCEPT ![r] = "start"]
    /\ UNCHANGED <<holder, age, lag, decision, isLeader, belief, working, faults, contended>>

Attempt(r) ==
    \/ Begin(r) \/ Get(r) \/ Prepare(r) \/ Follow(r)
    \/ CreateServed(r) \/ CreateConflict(r) \/ PatchServed(r)
    \/ Reply(r) \/ Wake(r)

ElectionNext ==
    \/ Tick
    \/ \E r \in Replicas :
         Attempt(r) \/ ApiError(r) \/ StartControllers(r) \/ Crash(r) \/ RestartReplica(r)

ElectionSpec == ElectionInit /\ [][ElectionNext]_electionVars

\* Election loops run, requests are answered, time passes.  A crashed pod need
\* not come back.
FairElectionSpec == ElectionSpec /\ WF_electionVars(Tick) /\ \A r \in Replicas : WF_electionVars(Attempt(r))

-----------------------------------------------------------------------------
(***************************************************************************)
(* leader_election.rs:4: "Only one replica can hold the lease at a time."  *)
(* No two replicas have a claim they take for unexpired.                   *)
(***************************************************************************)
OnlyOneLeader ==
    \A r, q \in Replicas : ValidLeader(r) /\ ValidLeader(q) => r = q

(***************************************************************************)
(* What the code does give: no two unexpired claims, unless two replicas   *)
(* were about to patch a lease each of them had read as its own or as      *)
(* expired.  Slow requests, lost replies, crashes, restarts and the race   *)
(* to create the first Lease alone do not break it.                        *)
(***************************************************************************)
UniqueUnlessContended == ~ contended => OnlyOneLeader

(***************************************************************************)
(* A replica with an unexpired claim is the one the Lease names, and the   *)
(* Lease expires no earlier than the claim, unless patches have competed.  *)
(***************************************************************************)
ClaimIsBacked ==
    ~ contended =>
        \A r \in Replicas : ValidLeader(r) => holder = r /\ age <= belief[r]

(***************************************************************************)
(* Without competing patches a Lease changes hands only when it has        *)
(* expired at the moment of the write, not just when it was read.          *)
(***************************************************************************)
NoTheftOfLiveLease ==
    [][ (~ contended /\ holder # NoHolder /\ holder' # holder)
           => age > LeaseDuration ]_electionVars

(***************************************************************************)
(* Faults stop at some point, and at least one replica stays up: again and *)
(* again some replica holds an unexpired claim (a crashed leader's lease   *)
(* runs out and is taken over).                                            *)
(***************************************************************************)
LeaderEmerges == []<>(\E r \in Replicas : ValidLeader(r))

(***************************************************************************)
(* deploy/helm/wicket/values.yaml:34: "Number of controller replicas (only *)
(* one is active via leader election)".                                    *)
(***************************************************************************)
OnlyLeadersWork ==
    \A r, q \in Replicas : working[r] /\ working[q] => r = q
=============================================================================
