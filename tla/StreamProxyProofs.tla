-------------------------- MODULE StreamProxyProofs --------------------------
(***************************************************************************)
(* Proofs about StreamProxy, for any set of connections, any connection    *)
(* limit, any drain timeout and any number of reloads.                     *)
(***************************************************************************)
EXTENDS StreamProxy, FiniteSetTheorems, TLAPS

(***************************************************************************)
(* The types of the numeric constants, and version 0 is a version.         *)
(***************************************************************************)
LEMMA ConstantTypes ==
    /\ MaxConnections \in Nat
    /\ DrainTimeout \in Nat
    /\ MaxReloads \in Nat
    /\ 0 \in Versions
  BY StreamProxyAssumption DEF StreamProxyAssumption, Versions

(***************************************************************************)
(* Every set of connections the counters count is finite.                  *)
(***************************************************************************)
LEMMA InFinite ==
    ASSUME NEW S
    PROVE  IsFiniteSet(In(S)) /\ Cardinality(In(S)) \in Nat
  BY StreamProxyAssumption, FS_Subset, FS_CardinalityType DEF In, StreamProxyAssumption

(***************************************************************************)
(* When one connection changes phase, the number of connections in a set   *)
(* of phases changes by one exactly if it enters or leaves that set.       *)
(***************************************************************************)
LEMMA MovePhase ==
    ASSUME TypeOK, NEW c \in Conns, NEW p,
           phase' = [phase EXCEPT ![c] = p], NEW S
    PROVE  /\ p \in S /\ phase[c] \notin S =>
                 Cardinality(In(S))' = Cardinality(In(S)) + 1
           /\ p \notin S /\ phase[c] \in S =>
                 /\ Cardinality(In(S))' = Cardinality(In(S)) - 1
                 /\ Cardinality(In(S)) > 0
           /\ (p \in S <=> phase[c] \in S) =>
                 Cardinality(In(S))' = Cardinality(In(S))
<1>1. IsFiniteSet(In(S)) /\ Cardinality(In(S)) \in Nat
  BY InFinite
<1>2. \A d \in Conns : phase'[d] = IF d = c THEN p ELSE phase[d]
  BY DEF TypeOK
<1>3. CASE p \in S /\ phase[c] \notin S
  <2>1. In(S)' = In(S) \cup {c} /\ c \notin In(S)
    BY <1>2, <1>3 DEF In
  <2> QED
    BY <2>1, <1>1, <1>3, FS_AddElement
<1>4. CASE p \notin S /\ phase[c] \in S
  <2>1. In(S)' = In(S) \ {c} /\ c \in In(S)
    BY <1>2, <1>4 DEF In
  <2>2. Cardinality(In(S))' = Cardinality(In(S)) - 1
    BY <2>1, <1>1, FS_RemoveElement
  <2>3. Cardinality(In(S)) # 0
    BY <2>1, <1>1, FS_EmptySet
  <2> QED
    BY <2>2, <2>3, <1>1, <1>4
<1>5. CASE p \in S <=> phase[c] \in S
  <2>1. In(S)' = In(S)
    BY <1>2, <1>5 DEF In
  <2> QED
    BY <2>1, <1>5
<1> QED
  BY <1>3, <1>4, <1>5

(***************************************************************************)
(* How far a reload has come determines how the two versions relate.       *)
(***************************************************************************)
ReloadInv ==
    /\ reloadPc = "store_upstreams" => routerVer = upVer + 1
    /\ reloadPc # "store_upstreams" => routerVer = upVer
    /\ reloadPc \in {"build", "store_router"} => routerVer < MaxReloads

(***************************************************************************)
(* The inductive invariant behind the types: no counter is decremented     *)
(* below zero because it counts the very connection that decrements it,    *)
(* and no version exceeds the last one because a reload in progress has a  *)
(* version left.                                                           *)
(***************************************************************************)
CountersInv == TypeOK /\ CountersExact /\ ReloadInv

USE DEF Handling, Counted, Guarded, Holding, Phases, Limited, Draining, Returned

\* At the start no task holds anything.
LEMMA CountersInit == Init => CountersInv
<1> SUFFICES ASSUME Init PROVE CountersInv
  OBVIOUS
<1>1. TypeOK
  <2>1. /\ run \in {"accepting"} \cup Draining \cup Returned
        /\ remaining \in Nat
        /\ elapsed \in 0 .. DrainTimeout
    BY ConstantTypes DEF Init
  <2>0. shutdown \in BOOLEAN
    BY Zenon DEF Init
  <2>2. /\ permits \in 0 .. MaxConnections
        /\ active \in Nat
        /\ gauge \in Nat
    BY ConstantTypes DEF Init
  <2>3. phase \in [Conns -> Phases] /\ outcome \in [Conns -> Outcomes]
    BY DEF Init, Outcomes
  <2>4. /\ routerVer \in Versions
        /\ upVer \in Versions
        /\ reloadPc \in {"idle", "build", "store_router", "store_upstreams"}
        /\ snapR \in [Conns -> Versions]
        /\ snapU \in [Conns -> Versions]
        /\ born \in [Conns -> Versions]
    BY ConstantTypes DEF Init
  <2> QED
    BY <2>0, <2>1, <2>2, <2>3, <2>4 DEF TypeOK
<1>2. In(Counted) = {} /\ In(Guarded) = {} /\ In(Holding) = {}
  BY DEF Init, In
<1>3. CountersExact
  BY <1>2, FS_EmptySet, ConstantTypes DEF Init, CountersExact
<1>4. ReloadInv
  BY DEF Init, ReloadInv
<1> QED
  BY <1>1, <1>3, <1>4 DEF CountersInv

\* A step that moves no connection and no counter.
LEMMA CountersIdle ==
    ASSUME CountersInv, UNCHANGED <<counters, phase>>
    PROVE  CountersExact'
<1>1. In(Counted)' = In(Counted) /\ In(Guarded)' = In(Guarded) /\ In(Holding)' = In(Holding)
  BY DEF In
<1> QED
  BY <1>1 DEF CountersInv, CountersExact, counters

\* A step of connection c that leaves gauge, count and permit alone.
LEMMA CountersProceed ==
    ASSUME CountersInv, NEW c \in Conns, NEW p \in Handling \ {"spawned", "router"},
           phase[c] \in Guarded, Proceed(c, p)
    PROVE  CountersInv'
<1>1. TypeOK'
  BY DEF CountersInv, TypeOK, Proceed, runVars, counters, reloadVars, snapVars
<1>2. /\ Cardinality(In(Counted))' = Cardinality(In(Counted))
      /\ Cardinality(In(Guarded))' = Cardinality(In(Guarded))
      /\ Cardinality(In(Holding))' = Cardinality(In(Holding))
  <2>1. phase' = [phase EXCEPT ![c] = p]
    BY DEF Proceed
  <2>2. /\ p \in Counted /\ p \in Guarded /\ p \in Holding
        /\ phase[c] \in Counted /\ phase[c] \in Holding
    OBVIOUS
  <2> HIDE DEF Counted, Guarded, Holding
  <2> QED
    BY <2>1, <2>2, MovePhase DEF CountersInv
<1> QED
  BY <1>1, <1>2 DEF CountersInv, CountersExact, Proceed, counters, ReloadInv, reloadVars

\* A return from handle_connection drops the guard.
LEMMA CountersReturn ==
    ASSUME CountersInv, NEW c \in Conns, NEW why \in Outcomes,
           phase[c] \in Guarded, Return(c, why)
    PROVE  CountersInv'
<1>1. /\ Cardinality(In(Counted))' = Cardinality(In(Counted))
      /\ Cardinality(In(Guarded))' = Cardinality(In(Guarded)) - 1
      /\ Cardinality(In(Guarded)) > 0
      /\ Cardinality(In(Holding))' = Cardinality(In(Holding))
  <2>1. phase' = [phase EXCEPT ![c] = "returned"]
    BY DEF Return
  <2>2. /\ "returned" \in Counted /\ "returned" \notin Guarded /\ "returned" \in Holding
        /\ phase[c] \in Counted /\ phase[c] \in Holding
    OBVIOUS
  <2> HIDE DEF Counted, Guarded, Holding
  <2> QED
    BY <2>1, <2>2, MovePhase DEF CountersInv
<1>2. Cardinality(In(Guarded)) \in Nat
  BY InFinite
<1>3. CountersExact'
  BY <1>1, <1>2 DEF CountersInv, CountersExact, Return
<1>4. TypeOK'
  BY <1>1, <1>2 DEF CountersInv, CountersExact, TypeOK, Return, runVars, reloadVars, snapVars
<1> QED
  BY <1>3, <1>4 DEF CountersInv, ReloadInv, Return, reloadVars

\* Admission, the decrement of active_tasks and the drop of the permit.
LEMMA CountersAdmit ==
    ASSUME CountersInv, NEW c \in Conns,
           Accept(c) \/ Reject(c) \/ Uncount(c) \/ DropPermit(c)
    PROVE  CountersInv'
<1> USE ConstantTypes
<1>0. /\ Cardinality(In(Counted)) \in Nat
      /\ Cardinality(In(Guarded)) \in Nat
      /\ Cardinality(In(Holding)) \in Nat
  BY InFinite
<1>1. CASE Accept(c)
  <2>1. phase' = [phase EXCEPT ![c] = "spawned"] /\ phase[c] = "waiting"
    BY <1>1 DEF Accept
  <2>2. /\ "spawned" \in Counted /\ "spawned" \notin Guarded /\ "spawned" \in Holding
        /\ "waiting" \notin Counted /\ "waiting" \notin Guarded /\ "waiting" \notin Holding
    OBVIOUS
  <2>3. /\ Cardinality(In(Counted))' = Cardinality(In(Counted)) + 1
        /\ Cardinality(In(Guarded))' = Cardinality(In(Guarded))
        /\ Cardinality(In(Holding))' = Cardinality(In(Holding)) + 1
    <3> HIDE DEF Counted, Guarded, Holding
    <3> QED
      BY <2>1, <2>2, MovePhase DEF CountersInv
  <2>4. CountersExact'
    BY <1>0, <1>1, <2>3 DEF CountersInv, CountersExact, Accept, TypeOK
  <2>5. TypeOK'
    BY <1>0, <1>1 DEF CountersInv, TypeOK, Accept, runVars, reloadVars, snapVars
  <2> QED
    BY <1>1, <2>4, <2>5 DEF CountersInv, ReloadInv, Accept, reloadVars
<1>2. CASE Reject(c)
  <2>1. phase' = [phase EXCEPT ![c] = "rejected"] /\ phase[c] = "waiting"
    BY <1>2 DEF Reject
  <2>2. /\ "rejected" \notin Counted /\ "rejected" \notin Guarded /\ "rejected" \notin Holding
        /\ "waiting" \notin Counted /\ "waiting" \notin Guarded /\ "waiting" \notin Holding
    OBVIOUS
  <2>3. /\ Cardinality(In(Counted))' = Cardinality(In(Counted))
        /\ Cardinality(In(Guarded))' = Cardinality(In(Guarded))
        /\ Cardinality(In(Holding))' = Cardinality(In(Holding))
    <3> HIDE DEF Counted, Guarded, Holding
    <3> QED
      BY <2>1, <2>2, MovePhase DEF CountersInv
  <2>4. CountersExact'
    BY <1>0, <1>2, <2>3 DEF CountersInv, CountersExact, Reject, TypeOK, counters
  <2>5. TypeOK'
    BY <1>2 DEF CountersInv, TypeOK, Reject, runVars, reloadVars, snapVars, counters
  <2> QED
    BY <1>2, <2>4, <2>5 DEF CountersInv, ReloadInv, Reject, reloadVars
<1>3. CASE Uncount(c)
  <2>1. phase' = [phase EXCEPT ![c] = "counted"] /\ phase[c] = "returned"
    BY <1>3 DEF Uncount
  <2>2. /\ "counted" \notin Counted /\ "counted" \notin Guarded /\ "counted" \in Holding
        /\ "returned" \in Counted /\ "returned" \notin Guarded /\ "returned" \in Holding
    OBVIOUS
  <2>3. /\ Cardinality(In(Counted))' = Cardinality(In(Counted)) - 1
        /\ Cardinality(In(Counted)) > 0
        /\ Cardinality(In(Guarded))' = Cardinality(In(Guarded))
        /\ Cardinality(In(Holding))' = Cardinality(In(Holding))
    <3> HIDE DEF Counted, Guarded, Holding
    <3> QED
      BY <2>1, <2>2, MovePhase DEF CountersInv
  <2>4. CountersExact'
    BY <1>0, <1>3, <2>3 DEF CountersInv, CountersExact, Uncount, TypeOK
  <2>5. TypeOK'
    BY <1>0, <1>3, <2>3 DEF CountersInv, CountersExact, TypeOK, Uncount, runVars, reloadVars, snapVars
  <2> QED
    BY <1>3, <2>4, <2>5 DEF CountersInv, ReloadInv, Uncount, reloadVars
<1>4. CASE DropPermit(c)
  <2>1. phase' = [phase EXCEPT ![c] = "done"] /\ phase[c] = "counted"
    BY <1>4 DEF DropPermit
  <2>2. /\ "counted" \notin Counted /\ "counted" \notin Guarded /\ "counted" \in Holding
        /\ "done" \notin Counted /\ "done" \notin Guarded /\ "done" \notin Holding
    OBVIOUS
  <2>3. /\ Cardinality(In(Counted))' = Cardinality(In(Counted))
        /\ Cardinality(In(Guarded))' = Cardinality(In(Guarded))
        /\ Cardinality(In(Holding))' = Cardinality(In(Holding)) - 1
        /\ Cardinality(In(Holding)) > 0
    <3> HIDE DEF Counted, Guarded, Holding
    <3> QED
      BY <2>1, <2>2, MovePhase DEF CountersInv
  <2>4. CountersExact'
    BY <1>0, <1>4, <2>3 DEF CountersInv, CountersExact, DropPermit, TypeOK
  <2>5. TypeOK'
    BY <1>0, <1>4, <2>3 DEF CountersInv, CountersExact, TypeOK, DropPermit, runVars, reloadVars, snapVars
  <2> QED
    BY <1>4, <2>4, <2>5 DEF CountersInv, ReloadInv, DropPermit, reloadVars
<1> QED
  BY <1>1, <1>2, <1>3, <1>4

\* The two loads of a task; the second one creates the guard.
LEMMA CountersLoad ==
    ASSUME CountersInv, NEW c \in Conns, LoadRouter(c) \/ LoadUpstreams(c)
    PROVE  CountersInv'
<1>0. Cardinality(In(Guarded)) \in Nat
  BY InFinite
<1>1. CASE LoadRouter(c)
  <2>1. phase' = [phase EXCEPT ![c] = "router"] /\ phase[c] = "spawned"
    BY <1>1 DEF LoadRouter
  <2>2. /\ "spawned" \in Counted /\ "spawned" \notin Guarded /\ "spawned" \in Holding
        /\ "router" \in Counted /\ "router" \notin Guarded /\ "router" \in Holding
    OBVIOUS
  <2>3. /\ Cardinality(In(Counted))' = Cardinality(In(Counted))
        /\ Cardinality(In(Guarded))' = Cardinality(In(Guarded))
        /\ Cardinality(In(Holding))' = Cardinality(In(Holding))
    <3> HIDE DEF Counted, Guarded, Holding
    <3> QED
      BY <2>1, <2>2, MovePhase DEF CountersInv
  <2>4. CountersExact'
    BY <1>1, <2>3 DEF CountersInv, CountersExact, LoadRouter, counters
  <2>5. TypeOK'
    BY <1>1 DEF CountersInv, TypeOK, LoadRouter, runVars, reloadVars, counters
  <2> QED
    BY <1>1, <2>4, <2>5 DEF CountersInv, ReloadInv, LoadRouter, reloadVars
<1>2. CASE LoadUpstreams(c)
  <2>1. phase' = [phase EXCEPT ![c] = "peek"] /\ phase[c] = "router"
    BY <1>2 DEF LoadUpstreams
  <2>2. /\ "peek" \in Counted /\ "peek" \in Guarded /\ "peek" \in Holding
        /\ "router" \in Counted /\ "router" \notin Guarded /\ "router" \in Holding
    OBVIOUS
  <2>3. /\ Cardinality(In(Counted))' = Cardinality(In(Counted))
        /\ Cardinality(In(Guarded))' = Cardinality(In(Guarded)) + 1
        /\ Cardinality(In(Holding))' = Cardinality(In(Holding))
    <3> HIDE DEF Counted, Guarded, Holding
    <3> QED
      BY <2>1, <2>2, MovePhase DEF CountersInv
  <2>4. CountersExact'
    BY <1>0, <1>2, <2>3 DEF CountersInv, CountersExact, LoadUpstreams
  <2>5. TypeOK'
    BY <1>2 DEF CountersInv, TypeOK, LoadUpstreams, runVars, reloadVars
  <2> QED
    BY <1>2, <2>4, <2>5 DEF CountersInv, ReloadInv, LoadUpstreams, reloadVars
<1> QED
  BY <1>1, <1>2

\* The phases of handle_connection between the loads and the decrement.
LEMMA CountersHandle ==
    ASSUME CountersInv, NEW c \in Conns,
           PeekError(c) \/ Route(c) \/ Connect(c) \/ SendHeader(c) \/ Finish(c)
    PROVE  CountersInv'
<1>1. phase[c] \in Guarded
  BY DEF PeekError, Route, Connect, SendHeader, Finish
<1>2. \/ \E why \in Outcomes : Return(c, why)
      \/ \E p \in Handling \ {"spawned", "router"} : Proceed(c, p)
  BY DEF PeekError, Route, Connect, SendHeader, Finish, Outcomes
<1> QED
  BY <1>1, <1>2, CountersReturn, CountersProceed

\* The accept loop and the drain loop touch no counter.
LEMMA CountersRun ==
    ASSUME CountersInv, AcceptError \/ Shutdown \/ DrainStep \/ Tick
    PROVE  CountersInv'
<1>1. UNCHANGED <<counters, phase, outcome, reloadVars, snapVars>>
  BY DEF AcceptError, Shutdown, DrainStep, BeginDrain, DrainLoad, DrainCheck, DrainWake, Tick
<1>2. CountersExact'
  BY <1>1, CountersIdle
<1>3. /\ run' \in {"accepting"} \cup Draining \cup Returned
      /\ remaining' \in Nat
      /\ elapsed' \in 0 .. DrainTimeout
  BY ConstantTypes DEF CountersInv, TypeOK, AcceptError, Shutdown, DrainStep, BeginDrain,
     DrainLoad, DrainCheck, DrainWake, Tick
<1>4. shutdown' \in BOOLEAN
  BY Zenon DEF CountersInv, TypeOK, AcceptError, Shutdown, DrainStep, BeginDrain,
     DrainLoad, DrainCheck, DrainWake, Tick
<1>5. TypeOK'
  BY <1>1, <1>3, <1>4 DEF CountersInv, TypeOK, counters, reloadVars, snapVars
<1> QED
  BY <1>1, <1>2, <1>5 DEF CountersInv, ReloadInv, reloadVars

\* Neither does a reload; its version stays within bounds.
LEMMA CountersReload ==
    ASSUME CountersInv, ReloadStep
    PROVE  CountersInv'
<1>1. UNCHANGED <<runVars, counters, phase, outcome, snapVars>>
  BY DEF ReloadStep, ReloadBegin, ReloadFail, ReloadBuilt, StoreRouter, StoreUpstreams
<1>2. CountersExact'
  BY <1>1, CountersIdle
<1>3. ReloadInv' /\ routerVer' \in Versions /\ upVer' \in Versions
      /\ reloadPc' \in {"idle", "build", "store_router", "store_upstreams"}
  BY ConstantTypes DEF CountersInv, TypeOK, ReloadInv, Versions,
     ReloadStep, ReloadBegin, ReloadFail, ReloadBuilt, StoreRouter, StoreUpstreams
<1>4. TypeOK'
  BY <1>1, <1>3 DEF CountersInv, TypeOK, runVars, counters, snapVars
<1> QED
  BY <1>2, <1>3, <1>4 DEF CountersInv

\* Every step keeps the counters exact.
LEMMA CountersNext == CountersInv /\ [Next]_vars => CountersInv'
<1> SUFFICES ASSUME CountersInv, [Next]_vars PROVE CountersInv'
  OBVIOUS
<1>1. ASSUME NEW c \in Conns, Accept(c) \/ Reject(c) \/ TaskStep(c)
      PROVE  CountersInv'
  BY <1>1, CountersAdmit, CountersLoad, CountersHandle DEF TaskStep
<1>2. CASE AcceptError \/ Shutdown \/ DrainStep \/ Tick
  BY <1>2, CountersRun
<1>3. CASE ReloadStep
  BY <1>3, CountersReload
<1>4. CASE UNCHANGED vars
  <2>1. CountersExact'
    BY <1>4, CountersIdle DEF vars
  <2> QED
    BY <1>4, <2>1 DEF CountersInv, TypeOK, ReloadInv, vars, runVars, counters, reloadVars, snapVars
<1> QED
  BY <1>1, <1>2, <1>3, <1>4 DEF Next

\* The counters are exact in every reachable state.
LEMMA CountersInvariant == Spec => []CountersInv
  BY CountersInit, CountersNext, PTL DEF Spec

(***************************************************************************)
(* proxy.rs, StreamProxy: every variable keeps its type; in particular no  *)
(* counter underflows and no permit is returned twice.                     *)
(***************************************************************************)
THEOREM TypeCorrect == Spec => []TypeOK
  BY CountersInvariant, PTL DEF CountersInv

(***************************************************************************)
(* proxy.rs, run and handle_connection: permits, active_tasks and the      *)
(* active-connections gauge are exact in every state.                      *)
(***************************************************************************)
THEOREM CountersAlwaysExact == Spec => []CountersExact
  BY CountersInvariant, PTL DEF CountersInv

(***************************************************************************)
(* proxy.rs, run: max_connections bounds the connections being handled.    *)
(***************************************************************************)
THEOREM LimitRespected == Spec => []ConnectionLimit
<1>1. CountersInv => ConnectionLimit
  <2> SUFFICES ASSUME CountersInv, Limited PROVE Cardinality(In(Handling)) <= MaxConnections
    BY DEF ConnectionLimit
  <2>1. In(Handling) \subseteq In(Holding)
    BY DEF In
  <2>2. Cardinality(In(Handling)) <= Cardinality(In(Holding))
    BY <2>1, InFinite, FS_Subset
  <2>3. Cardinality(In(Handling)) \in Nat /\ Cardinality(In(Holding)) \in Nat
    BY InFinite
  <2> QED
    BY <2>2, <2>3, ConstantTypes DEF CountersInv, CountersExact, TypeOK
<1> QED
  BY <1>1, CountersInvariant, PTL

-----------------------------------------------------------------------------
(***************************************************************************)
(* Snapshots.  Both stores and both loads go router first, so a connection *)
(* that has loaded the router holds a version at most one ahead of the     *)
(* upstream map it is about to load, and upVer never goes back.            *)
(***************************************************************************)
SnapInv ==
    \A c \in Conns :
        /\ phase[c] = "router" => /\ snapR[c] <= upVer + 1
                                  /\ born[c] <= snapR[c]
                                  /\ born[c] <= upVer
        /\ phase[c] \in Guarded => /\ snapU[c] >= snapR[c] - 1
                                   /\ snapR[c] >= born[c]
                                   /\ snapU[c] >= born[c]

\* At the start no connection has loaded anything.
LEMMA SnapInit == Init => SnapInv
  BY DEF Init, SnapInv

\* Every step keeps what is known of loaded snapshots.
LEMMA SnapNext == CountersInv /\ SnapInv /\ [Next]_vars => SnapInv'
<1> SUFFICES ASSUME CountersInv, SnapInv, [Next]_vars PROVE SnapInv'
  OBVIOUS
<1>0. /\ upVer \in Int /\ routerVer \in Int
      /\ \A d \in Conns : snapR[d] \in Int /\ snapU[d] \in Int /\ born[d] \in Int
  BY ConstantTypes DEF CountersInv, TypeOK, Versions
<1>1. ASSUME UNCHANGED <<phase, snapR, snapU, born, upVer>> PROVE SnapInv'
  BY <1>1 DEF SnapInv
<1>2. ASSUME NEW c \in Conns, LoadRouter(c) PROVE SnapInv'
  BY <1>0, <1>2 DEF SnapInv, LoadRouter, CountersInv, ReloadInv, TypeOK, reloadVars
<1>3. ASSUME NEW c \in Conns, LoadUpstreams(c) PROVE SnapInv'
  BY <1>0, <1>3 DEF SnapInv, LoadUpstreams, CountersInv, TypeOK, reloadVars
<1>4. ASSUME NEW c \in Conns, NEW p, UNCHANGED <<snapR, snapU, born, upVer>>,
             phase' = [phase EXCEPT ![c] = p],
             p \notin Guarded \/ phase[c] \in Guarded, p # "router"
      PROVE  SnapInv'
  BY <1>4 DEF SnapInv, CountersInv, TypeOK
<1>5. ASSUME NEW c \in Conns,
             \/ Accept(c) \/ Reject(c) \/ Uncount(c) \/ DropPermit(c)
             \/ PeekError(c) \/ Route(c) \/ Connect(c) \/ SendHeader(c) \/ Finish(c)
      PROVE  SnapInv'
  <2>1. /\ UNCHANGED <<snapR, snapU, born, upVer>>
        /\ \E p : /\ phase' = [phase EXCEPT ![c] = p]
                  /\ p \notin Guarded \/ phase[c] \in Guarded
                  /\ p # "router"
    BY <1>5 DEF Accept, Reject, Uncount, DropPermit, PeekError, Route, Connect, SendHeader,
       Finish, Return, Proceed, snapVars, reloadVars
  <2> QED
    BY <2>1, <1>4
<1>6. CASE AcceptError \/ Shutdown \/ DrainStep \/ Tick
  BY <1>1, <1>6 DEF AcceptError, Shutdown, DrainStep, BeginDrain, DrainLoad, DrainCheck,
     DrainWake, Tick, snapVars, reloadVars
<1>7. CASE ReloadStep
  <2>1. UNCHANGED <<phase, snapR, snapU, born>> /\ upVer' \in {upVer, upVer + 1}
    BY <1>7 DEF ReloadStep, ReloadBegin, ReloadFail, ReloadBuilt, StoreRouter, StoreUpstreams,
       snapVars
  <2> QED
    BY <1>0, <2>1 DEF SnapInv
<1>8. CASE UNCHANGED vars
  BY <1>1, <1>8 DEF vars, snapVars, reloadVars
<1> QED
  BY <1>2, <1>3, <1>5, <1>6, <1>7, <1>8 DEF Next, TaskStep

(***************************************************************************)
(* proxy.rs, reload and handle_connection: the upstream map a connection   *)
(* uses is at most one version behind its router, and neither is older     *)
(* than the last reload that had completed when the task began.            *)
(***************************************************************************)
THEOREM SnapshotsFresh == Spec => []SnapshotFresh
<1>1. SnapInv => SnapshotFresh
  BY DEF SnapInv, SnapshotFresh, In
<1> QED
  BY <1>1, SnapInit, SnapNext, CountersInvariant, PTL DEF Spec

-----------------------------------------------------------------------------
(***************************************************************************)
(* Outcomes.  A connection keeps the snapshots it was routed with: the     *)
(* outcome is set once, after both loads.                                  *)
(***************************************************************************)
OutcomeInv ==
    \A c \in Conns :
        /\ phase[c] \in Handling \cup {"waiting", "rejected"} => outcome[c] = "none"
        /\ outcome[c] = "unknown_upstream" => snapR[c] # snapU[c]

\* At the start no connection has an outcome.
LEMMA OutcomeInit == Init => OutcomeInv
  BY DEF Init, OutcomeInv

\* Every step keeps unknown-upstream outcomes torn.
LEMMA OutcomeNext == TypeOK /\ OutcomeInv /\ [Next]_vars => OutcomeInv'
<1> SUFFICES ASSUME TypeOK, OutcomeInv, [Next]_vars PROVE OutcomeInv'
  OBVIOUS
<1>1. ASSUME UNCHANGED <<phase, outcome, snapR, snapU>> PROVE OutcomeInv'
  BY <1>1 DEF OutcomeInv
<1>2. ASSUME NEW c \in Conns, LoadRouter(c) \/ LoadUpstreams(c) PROVE OutcomeInv'
  BY <1>2 DEF OutcomeInv, LoadRouter, LoadUpstreams, TypeOK
<1>3. ASSUME NEW c \in Conns, Accept(c) \/ Reject(c) \/ Uncount(c) \/ DropPermit(c)
      PROVE  OutcomeInv'
  BY <1>3 DEF OutcomeInv, Accept, Reject, Uncount, DropPermit, TypeOK, snapVars
<1>4. ASSUME NEW c \in Conns, NEW p \in Handling, phase[c] \in Handling, Proceed(c, p)
      PROVE  OutcomeInv'
  BY <1>4 DEF OutcomeInv, Proceed, TypeOK, snapVars
<1>5. ASSUME NEW c \in Conns, NEW why, Return(c, why),
             why = "unknown_upstream" => snapR[c] # snapU[c]
      PROVE  OutcomeInv'
  BY <1>5 DEF OutcomeInv, Return, TypeOK, snapVars
<1>6. ASSUME NEW c \in Conns, PeekError(c) \/ Connect(c) \/ SendHeader(c) \/ Finish(c)
      PROVE  OutcomeInv'
  BY <1>4, <1>5, <1>6 DEF PeekError, Connect, SendHeader, Finish
<1>7. ASSUME NEW c \in Conns, Route(c) PROVE OutcomeInv'
  <2>1. PICK s \in Snis :
          LET name == RouteOf[snapR[c]][s] IN
          \/ Return(c, "no_route")
          \/ /\ name # NoUpstream
             /\ name \notin UpstreamNames[snapU[c]]
             /\ Return(c, "unknown_upstream")
          \/ Proceed(c, "connect")
    BY <1>7 DEF Route
  <2>2. RouteOf[snapR[c]][s] \in UpstreamNames[snapR[c]] \cup {NoUpstream}
    BY StreamProxyAssumption DEF StreamProxyAssumption, TypeOK
  <2>3. phase[c] \in Handling
    BY <1>7 DEF Route
  <2> QED
    BY <2>1, <2>2, <2>3, <1>4, <1>5
<1>8. CASE AcceptError \/ Shutdown \/ DrainStep \/ Tick \/ ReloadStep \/ UNCHANGED vars
  BY <1>1, <1>8 DEF AcceptError, Shutdown, DrainStep, BeginDrain, DrainLoad, DrainCheck,
     DrainWake, Tick, ReloadStep, ReloadBegin, ReloadFail, ReloadBuilt, StoreRouter,
     StoreUpstreams, vars, snapVars
<1> QED
  BY <1>2, <1>3, <1>6, <1>7, <1>8 DEF Next, TaskStep

(***************************************************************************)
(* proxy.rs, handle_connection: with validated configurations, "Unknown    *)
(* upstream" is only ever the result of a snapshot torn by a reload.       *)
(***************************************************************************)
THEOREM UnknownOnlyIfTorn == Spec => []UnknownUpstreamOnlyIfTorn
<1>1. OutcomeInv => UnknownUpstreamOnlyIfTorn
  BY DEF OutcomeInv, UnknownUpstreamOnlyIfTorn
<1> QED
  BY <1>1, OutcomeInit, OutcomeNext, TypeCorrect, PTL DEF Spec

-----------------------------------------------------------------------------
(***************************************************************************)
(* Drain.  A zero read from active_tasks is stable: whoever is counted was *)
(* counted before it was spawned, and nobody is accepted any more.         *)
(***************************************************************************)
DrainInv ==
    (run = "drained" \/ (run = "check" /\ remaining = 0)) => In(Counted) = {}

\* At the start nothing is drained.
LEMMA DrainInit == Init => DrainInv
  BY DEF Init, DrainInv

\* Only an accept makes a connection counted.
LEMMA CountedGrowsByAccept ==
    ASSUME TypeOK, [Next]_vars
    PROVE  \/ In(Counted)' \subseteq In(Counted)
           \/ run = "accepting" /\ UNCHANGED <<run, remaining>>
<1>1. ASSUME NEW c \in Conns, Accept(c) \/ Reject(c)
      PROVE  run = "accepting" /\ UNCHANGED <<run, remaining>>
  BY <1>1 DEF Accept, Reject, runVars
<1>2. ASSUME NEW c \in Conns, TaskStep(c) PROVE In(Counted)' \subseteq In(Counted)
  <2>1. \/ phase[c] \in Counted
        \/ phase'[c] \notin Counted
    BY <1>2 DEF TaskStep, LoadRouter, LoadUpstreams, PeekError, Route, Connect, SendHeader,
       Finish, Uncount, DropPermit, Return, Proceed, TypeOK
  <2>2. \E p : phase' = [phase EXCEPT ![c] = p]
    BY <1>2 DEF TaskStep, LoadRouter, LoadUpstreams, PeekError, Route, Connect, SendHeader,
       Finish, Uncount, DropPermit, Return, Proceed
  <2> QED
    BY <2>1, <2>2 DEF In, TypeOK
<1>3. CASE AcceptError \/ Shutdown \/ DrainStep \/ Tick \/ ReloadStep \/ UNCHANGED vars
  <2>1. UNCHANGED phase
    BY <1>3 DEF AcceptError, Shutdown, DrainStep, BeginDrain, DrainLoad, DrainCheck,
       DrainWake, Tick, ReloadStep, ReloadBegin, ReloadFail, ReloadBuilt, StoreRouter,
       StoreUpstreams, vars
  <2> QED
    BY <2>1 DEF In
<1> QED
  BY <1>1, <1>2, <1>3 DEF Next

\* Every step keeps the invariant of the drain loop.
LEMMA DrainNext == CountersInv /\ DrainInv /\ [Next]_vars => DrainInv'
<1> SUFFICES ASSUME CountersInv, DrainInv, [Next]_vars,
                    run' = "drained" \/ (run' = "check" /\ remaining' = 0)
             PROVE  In(Counted)' = {}
  BY DEF DrainInv
<1>1. CASE DrainLoad
  <2>1. active = 0 /\ UNCHANGED phase
    BY <1>1 DEF DrainLoad
  <2>2. In(Counted) = {}
    BY <2>1, InFinite, FS_EmptySet DEF CountersInv, CountersExact
  <2> QED
    BY <2>1, <2>2 DEF In
<1>2. CASE DrainCheck
  <2>1. In(Counted) = {}
    BY <1>2 DEF DrainCheck, DrainInv
  <2> QED
    BY <1>2, <2>1 DEF DrainCheck, In
<1>3. CASE UNCHANGED <<run, remaining>>
  <2>1. In(Counted) = {} /\ run # "accepting"
    BY <1>3 DEF DrainInv
  <2> QED
    BY <2>1, CountedGrowsByAccept DEF CountersInv
<1>4. \/ UNCHANGED <<run, remaining>> \/ DrainLoad \/ DrainCheck
      \/ run' \in {"failed", "load"}
  <2>1. ASSUME NEW c \in Conns, Accept(c) \/ Reject(c) \/ TaskStep(c)
        PROVE  UNCHANGED <<run, remaining>>
    BY <2>1 DEF Accept, Reject, TaskStep, LoadRouter, LoadUpstreams, PeekError, Route, Connect,
       SendHeader, Finish, Uncount, DropPermit, Return, Proceed, runVars
  <2>2. CASE AcceptError \/ Shutdown \/ DrainStep \/ Tick
    BY <2>2 DEF AcceptError, Shutdown, DrainStep, BeginDrain, DrainWake, Tick
  <2>3. CASE ReloadStep \/ UNCHANGED vars
    BY <2>3 DEF ReloadStep, ReloadBegin, ReloadFail, ReloadBuilt, StoreRouter, StoreUpstreams,
       vars, runVars
  <2> QED
    BY <2>1, <2>2, <2>3 DEF Next
<1> QED
  BY <1>1, <1>2, <1>3, <1>4

\* The invariant of the drain loop holds in every reachable state.
LEMMA DrainInvariant == Spec => []DrainInv
  BY DrainInit, DrainNext, CountersInvariant, PTL DEF Spec

(***************************************************************************)
(* proxy.rs, run: it returns from a drain that did not time out only when  *)
(* no connection is being handled.                                         *)
(***************************************************************************)
THEOREM DrainedIsQuiet == Spec => []DrainedMeansQuiet
<1>1. DrainInv => DrainedMeansQuiet
  BY DEF DrainInv, DrainedMeansQuiet, In
<1> QED
  BY <1>1, DrainInvariant, PTL

-----------------------------------------------------------------------------
(***************************************************************************)
(* Refinement.  The initial state maps to the initial state of             *)
(* StreamAdmission, and every step to one of its steps or to a stutter.    *)
(***************************************************************************)
LEMMA AdmissionInit == Init => Admission!Init
  BY DEF Init, Admission!Init, AdmissionState, In

\* Every step of the listener is a step of StreamAdmission or a stutter.
LEMMA AdmissionNext ==
    ASSUME CountersInv, DrainInv, [Next]_vars
    PROVE  [Admission!Next]_<<In(Counted), AdmissionState>>
<1>1. ASSUME NEW c \in Conns, Accept(c)
      PROVE  Admission!Admit(c)
  <2>1. In(Counted)' = In(Counted) \cup {c} /\ c \notin In(Counted)
    BY <1>1 DEF Accept, In, CountersInv, TypeOK
  <2>2. AdmissionState = "open" /\ UNCHANGED AdmissionState
    BY <1>1 DEF Accept, AdmissionState, runVars
  <2>3. MaxConnections > 0 => Cardinality(In(Counted)) < MaxConnections
    <3>1. In(Counted) \subseteq In(Holding)
      BY DEF In
    <3>2. Cardinality(In(Counted)) <= Cardinality(In(Holding))
      BY <3>1, InFinite, FS_Subset
    <3>3. Cardinality(In(Counted)) \in Nat /\ Cardinality(In(Holding)) \in Nat
      BY InFinite
    <3> QED
      BY <1>1, <3>2, <3>3, ConstantTypes DEF Accept, CountersInv, CountersExact, TypeOK
  <2>4. Admission!Cardinality(In(Counted)) = Cardinality(In(Counted))
    BY Zenon DEF Admission!Cardinality, Cardinality
  <2> QED
    BY <2>1, <2>2, <2>3, <2>4 DEF Admission!Admit
<1>2. ASSUME NEW c \in Conns, Uncount(c)
      PROVE  Admission!Leave(c)
  <2>1. In(Counted)' = In(Counted) \ {c} /\ c \in In(Counted)
    BY <1>2 DEF Uncount, In, CountersInv, TypeOK
  <2>2. UNCHANGED AdmissionState
    BY <1>2 DEF Uncount, AdmissionState, runVars
  <2> QED
    BY <2>1, <2>2 DEF Admission!Leave
<1>3. ASSUME NEW c \in Conns,
             \/ Reject(c) \/ LoadRouter(c) \/ LoadUpstreams(c) \/ DropPermit(c)
             \/ PeekError(c) \/ Route(c) \/ Connect(c) \/ SendHeader(c) \/ Finish(c)
      PROVE  UNCHANGED <<In(Counted), AdmissionState>>
  <2>1. UNCHANGED run
    BY <1>3 DEF Reject, LoadRouter, LoadUpstreams, DropPermit, PeekError, Route, Connect,
       SendHeader, Finish, Return, Proceed, runVars
  <2>2. PICK p : /\ phase' = [phase EXCEPT ![c] = p]
                 /\ p \in Counted <=> phase[c] \in Counted
    BY <1>3 DEF Reject, LoadRouter, LoadUpstreams, DropPermit, PeekError, Route, Connect,
       SendHeader, Finish, Return, Proceed
  <2>3. UNCHANGED In(Counted)
    <3>1. \A d \in Conns : phase'[d] \in Counted <=> phase[d] \in Counted
      <4> HIDE DEF Counted
      <4> QED
        BY <2>2 DEF CountersInv, TypeOK
    <3> HIDE DEF Counted
    <3> QED
      BY <3>1 DEF In
  <2> QED
    BY <2>1, <2>3 DEF AdmissionState
<1>4. CASE AcceptError \/ BeginDrain
  <2>1. UNCHANGED In(Counted)
    BY <1>4 DEF AcceptError, BeginDrain, In
  <2>2. AdmissionState = "open" /\ AdmissionState' \in {"closing", "failed"}
    BY <1>4 DEF AcceptError, BeginDrain, AdmissionState
  <2> QED
    BY <2>1, <2>2 DEF Admission!Next, Admission!Close
<1>5. CASE DrainCheck
  <2>1. UNCHANGED In(Counted) /\ AdmissionState = "closing"
    BY <1>5 DEF DrainCheck, In, AdmissionState
  <2>2. CASE remaining = 0
    <3>1. In(Counted) = {} /\ AdmissionState' = "quiet"
      BY <1>5, <2>2 DEF DrainCheck, DrainInv, AdmissionState
    <3> QED
      BY <2>1, <3>1 DEF Admission!Next, Admission!Quiet
  <2>3. CASE remaining # 0
    <3>1. AdmissionState' \in {"forced", "closing"}
      BY <1>5, <2>3 DEF DrainCheck, AdmissionState
    <3> QED
      BY <2>1, <3>1 DEF Admission!Next, Admission!Force
  <2> QED
    BY <2>2, <2>3
<1>6. CASE DrainLoad \/ DrainWake \/ Shutdown \/ Tick \/ ReloadStep \/ UNCHANGED vars
  <2>1. UNCHANGED phase /\ UNCHANGED AdmissionState
    BY <1>6 DEF DrainLoad, DrainWake, Shutdown, Tick, ReloadStep, ReloadBegin, ReloadFail,
       ReloadBuilt, StoreRouter, StoreUpstreams, vars, runVars, AdmissionState
  <2> QED
    BY <2>1 DEF In
<1>7. ASSUME NEW c \in Conns, Accept(c) \/ Reject(c) \/ TaskStep(c)
      PROVE  [Admission!Next]_<<In(Counted), AdmissionState>>
  BY <1>1, <1>2, <1>3, <1>7 DEF TaskStep, Admission!Next
<1> QED
  BY <1>4, <1>5, <1>6, <1>7 DEF Next, DrainStep

(***************************************************************************)
(* The listener of proxy.rs implements StreamAdmission, for every limit    *)
(* and every set of clients.                                               *)
(***************************************************************************)
THEOREM ListenerImplementsAdmission == Spec => ImplementsAdmission
  BY AdmissionInit, AdmissionNext, CountersInvariant, DrainInvariant, PTL
     DEF Spec, ImplementsAdmission, Admission!Spec

=============================================================================
