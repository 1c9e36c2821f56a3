------------------------ MODULE StreamUpstreamProofs ------------------------
(***************************************************************************)
(* Proofs about StreamUpstream, for any number of connections, servers,    *)
(* labels and reloads, and any cooldown.                                   *)
(***************************************************************************)
EXTENDS StreamUpstream, WellFoundedInduction, TLAPS

----------------------------------------------------------------------------
(* Slots.                                                                  *)

\* Slots are the numbers below the number of servers, of which there is at least one.
LEMMA SlotsAreNat ==
    /\ NumServers \in Nat /\ 1 <= NumServers
    /\ Slots \subseteq Nat /\ 0 \in Slots
    /\ \A s \in Slots : s < NumServers
  BY UpstreamAssumption DEF Slots

(***************************************************************************)
(* Every label has a first slot.                                           *)
(***************************************************************************)
LEMMA OwnerType ==
    ASSUME NEW s \in Slots
    PROVE  OwnerSlot(s) \in Slots
<1> DEFINE T == {t \in Slots : Label[t] = Label[s]}
<1>1. T \subseteq Nat /\ T # {}
  BY SlotsAreNat
<1> DEFINE R == {ss \in Nat \X Nat : ss[1] < ss[2]}
<1>2. IsWellFoundedOn(R, Nat)
  BY NatLessThanWellFounded, Zenon DEF OpToRel
<1>3. PICK t \in T : \A u \in T : ~ (<<u, t>> \in R)
  <2> HIDE DEF T, R
  <2> QED
    BY <1>1, <1>2, WFMin
<1>4. ASSUME NEW u \in T PROVE t <= u
  <2>1. u \in Nat /\ t \in Nat /\ ~ (<<u, t>> \in R)
    BY <1>1, <1>3
  <2>2. ~ (u < t)
    BY <2>1
  <2> QED
    BY <2>1, <2>2
<1>5. t \in Slots /\ Label[t] = Label[s] /\ \A u \in Slots : Label[u] = Label[s] => t <= u
  BY <1>4
<1> QED
  BY <1>5 DEF OwnerSlot

(***************************************************************************)
(* The scan goes round the servers.                                        *)
(***************************************************************************)
LEMMA ModType == \A n \in Nat : n % NumServers \in Slots
  BY UpstreamAssumption DEF Slots

\* The slots a connection looks at and reports on are slots of its generation.
LEMMA SlotTypes ==
    ASSUME TypeOK, NEW c \in Conns
    PROVE  /\ mygen[c] \in Gens /\ ReportSlot(c) \in Slots
           /\ ScanSlot(c) \in Slots /\ start[c] % NumServers \in Slots
<1>1. mygen[c] \in Gens /\ srv[c] \in Slots /\ start[c] \in Nat /\ off[c] \in Nat
  BY SlotsAreNat DEF TypeOK
<1>2. start[c] + off[c] \in Nat
  BY <1>1
<1> QED
  BY <1>1, <1>2, OwnerType, ModType DEF ReportSlot, ScanSlot

(***************************************************************************)
(* One field of one health record is updated, and no other.                *)
(***************************************************************************)
LEMMA SetSlotEffect ==
    ASSUME NEW V, NEW field \in [Gens -> [Slots -> V]], NEW v \in V, NEW c,
           mygen[c] \in Gens, ReportSlot(c) \in Slots
    PROVE  /\ SetSlot(field, c, v) \in [Gens -> [Slots -> V]]
           /\ \A g \in Gens, s \in Slots :
                 SetSlot(field, c, v)[g][s] =
                     IF g = mygen[c] /\ s = ReportSlot(c) THEN v ELSE field[g][s]
  BY DEF SetSlot

----------------------------------------------------------------------------
(* Types.                                                                  *)

SharedType ==
    /\ healthy \in [Gens -> [Slots -> BOOLEAN]]
    /\ since \in [Gens -> [Slots -> 0 .. MaxTime]]
    /\ fails \in [Gens -> [Slots -> Nat]]
    /\ counter \in [Gens -> Nat]
    /\ gauge \in [Slots -> {"absent", "up", "down"}]
    /\ gen \in Gens
    /\ now \in 1 .. MaxTime

LocalType ==
    /\ pc \in [Conns -> Pcs]
    /\ mygen \in [Conns -> Gens]
    /\ start \in [Conns -> Nat]
    /\ off \in [Conns -> 0 .. NumServers]
    /\ srv \in [Conns -> Slots]
    /\ seenSince \in [Conns -> 0 .. MaxTime]
    /\ wasHealthy \in [Conns -> BOOLEAN]
    /\ swapWas \in [Conns -> BOOLEAN]

HistoryType ==
    /\ tainted \in [Gens -> [Slots -> BOOLEAN]]
    /\ alone \in [Conns -> BOOLEAN]
    /\ steady \in [Conns -> SUBSET Slots]

\* The type invariant by who owns the variables: shared records, connections, history.
LEMMA TypeParts == TypeOK <=> SharedType /\ LocalType /\ HistoryType
  BY DEF TypeOK, SharedType, LocalType, HistoryType

(***************************************************************************)
(* A scan that looks at a slot has not gone round, and a stamp about to be *)
(* stored is not 0: the clock never was.                                   *)
(***************************************************************************)
ScanRange ==
    /\ \A c \in Conns : pc[c] \in {"scan_since", "scan_now"} => off[c] < NumServers
    /\ \A c \in Conns : pc[c] = "fail_since" => seenSince[c] # 0

\* The types hold at the start.
LEMMA TypeInit == Init => TypeOK /\ ScanRange
  BY SlotsAreNat, UpstreamAssumption DEF Init, TypeOK, ScanRange, Gens, Pcs

\* A connection's step keeps the connections' variables in type, and a scan within one round.
LEMMA LocalNext ==
    ASSUME TypeOK, ScanRange, NEW c \in Conns, ConnStep(c)
    PROVE  LocalType' /\ ScanRange'
<1>1. LocalType /\ SharedType /\ mygen[c] \in Gens /\ ReportSlot(c) \in Slots /\ ScanSlot(c) \in Slots
      /\ start[c] % NumServers \in Slots
  BY SlotTypes, TypeParts
<1>2. NumServers \in Nat /\ 1 <= NumServers /\ MaxTime \in Nat
  BY SlotsAreNat, UpstreamAssumption
<1> USE DEF LocalType, ScanRange, Pcs, ScanPcs, RecordPcs, OkPcs, FailPcs, GaugePcs
<1>3. CASE Load(c)
  BY <1>1, <1>2, <1>3 DEF Load, SharedType, shared
<1>4. CASE Pick(c)
  BY <1>1, <1>2, <1>4 DEF Pick, SharedType, shared
<1>5. ASSUME pc' = [pc EXCEPT ![c] = "connect"], srv' = [srv EXCEPT ![c] = ScanSlot(c)],
             UNCHANGED <<mygen, start, off, seenSince, wasHealthy, swapWas>>
      PROVE  LocalType' /\ ScanRange'
  BY <1>1, <1>2, <1>5
<1>6. CASE ScanHealthy(c)
  <2>1. CASE healthy[mygen[c]][ScanSlot(c)]
    BY <1>5, <1>6, <2>1 DEF ScanHealthy, Select
  <2>2. CASE ~ healthy[mygen[c]][ScanSlot(c)]
    <3>1. /\ pc' = [pc EXCEPT ![c] = "scan_since"] /\ off[c] < NumServers
          /\ UNCHANGED <<mygen, start, off, srv, seenSince, wasHealthy, swapWas>>
      BY <1>6, <2>2 DEF ScanHealthy, Select
    <3> QED
      BY <1>1, <1>2, <3>1
  <2> QED
    BY <2>1, <2>2
<1>7. CASE ScanSince(c)
  <2> DEFINE stamp == since[mygen[c]][ScanSlot(c)]
  <2>1. CASE stamp = 0
    BY <1>5, <1>7, <2>1 DEF ScanSince, Select
  <2>2. CASE stamp # 0
    <3>1. /\ pc[c] = "scan_since" /\ pc' = [pc EXCEPT ![c] = "scan_now"]
          /\ seenSince' = [seenSince EXCEPT ![c] = stamp]
          /\ UNCHANGED <<mygen, start, off, srv, wasHealthy, swapWas>>
      BY <1>7, <2>2 DEF ScanSince, Select
    <3>2. stamp \in 0 .. MaxTime
      BY <1>1 DEF SharedType
    <3> HIDE DEF stamp
    <3> QED
      BY <1>1, <1>2, <3>1, <3>2
  <2> QED
    BY <2>1, <2>2
<1>8. CASE ScanNow(c)
  <2>1. CASE CooledDown(now, seenSince[c])
    BY <1>5, <1>8, <2>1 DEF ScanNow, Select
  <2>2. CASE ~ CooledDown(now, seenSince[c])
    <3>1. /\ pc[c] = "scan_now" /\ pc' = [pc EXCEPT ![c] = "scan"]
          /\ off' = [off EXCEPT ![c] = off[c] + 1]
          /\ UNCHANGED <<mygen, start, srv, seenSince, wasHealthy, swapWas>>
      BY <1>8, <2>2 DEF ScanNow, Select
    <3>2. off[c] + 1 \in 0 .. NumServers
      BY <1>1, <1>2, <3>1
    <3> QED
      BY <1>1, <1>2, <3>1, <3>2
  <2> QED
    BY <2>1, <2>2
<1>9. CASE FailOpen(c)
  BY <1>1, <1>2, <1>9 DEF FailOpen, Select, SharedType, shared
<1>10. CASE Connected(c)
  BY <1>1, <1>2, <1>10 DEF Connected, SharedType, shared
<1>11. CASE ReadHealth(c)
  <2>1. PICK next \in {"ok_swap", "fail_swap"} : pc' = [pc EXCEPT ![c] = next]
    BY <1>11 DEF ReadHealth
  <2>2. /\ wasHealthy' = [wasHealthy EXCEPT ![c] = healthy[mygen[c]][ReportSlot(c)]]
        /\ UNCHANGED <<mygen, start, off, srv, seenSince, swapWas>>
    BY <1>11 DEF ReadHealth
  <2>3. healthy[mygen[c]][ReportSlot(c)] \in BOOLEAN
    BY <1>1 DEF SharedType
  <2> QED
    BY <1>1, <1>2, <2>1, <2>2, <2>3
<1>12. CASE OkSwap(c)
  BY <1>1, <1>2, <1>12 DEF OkSwap, SharedType, shared
<1>13. CASE OkFails(c)
  BY <1>1, <1>2, <1>13 DEF OkFails, SharedType, shared
<1>14. CASE OkSince(c)
  BY <1>1, <1>2, <1>14 DEF OkSince, SharedType, shared
<1>15. CASE FailSwap(c)
  BY <1>1, <1>2, <1>15 DEF FailSwap, SharedType, shared
<1>16. CASE FailFails(c)
  BY <1>1, <1>2, <1>16 DEF FailFails, AfterFailRecord, SharedType, shared
<1>17. CASE FailClock(c)
  BY <1>1, <1>2, <1>17 DEF FailClock, SharedType, shared
<1>18. CASE FailSince(c)
  BY <1>1, <1>2, <1>18 DEF FailSince, AfterFailRecord, SharedType, shared
<1>19. CASE SetGauge(c)
  BY <1>1, <1>2, <1>19 DEF SetGauge, SharedType, shared
<1> QED
  BY <1>3, <1>4, <1>6, <1>7, <1>8, <1>9, <1>10, <1>11, <1>12, <1>13, <1>14, <1>15, <1>16, <1>17, <1>18,
         <1>19 DEF ConnStep

\* A connection's step keeps the shared health records in type.
LEMMA SharedNext ==
    ASSUME TypeOK, NEW c \in Conns, ConnStep(c)
    PROVE  SharedType'
<1>1. SharedType /\ LocalType /\ mygen[c] \in Gens /\ ReportSlot(c) \in Slots
  BY SlotTypes, TypeParts
<1>2. CASE UNCHANGED shared
  BY <1>1, <1>2 DEF shared, SharedType
<1>3. CASE Pick(c)
  BY <1>1, <1>3 DEF Pick, SharedType
<1>4. CASE OkSwap(c)
  BY <1>1, <1>4, SetSlotEffect DEF OkSwap, SharedType
<1>5. CASE OkFails(c)
  BY <1>1, <1>5, SetSlotEffect DEF OkFails, SharedType
<1>6. CASE OkSince(c)
  <2>1. 0 \in 0 .. MaxTime
    BY UpstreamAssumption
  <2> QED
    BY <1>1, <1>6, <2>1, SetSlotEffect DEF OkSince, SharedType
<1>7. CASE FailSwap(c)
  BY <1>1, <1>7, SetSlotEffect DEF FailSwap, SharedType
<1>8. CASE FailFails(c)
  <2>1. fails[mygen[c]][ReportSlot(c)] + 1 \in Nat
    BY <1>1 DEF SharedType
  <2> QED
    BY <1>1, <1>8, <2>1, SetSlotEffect DEF FailFails, SharedType
<1>9. CASE FailSince(c)
  <2>1. seenSince[c] \in 0 .. MaxTime
    BY <1>1 DEF LocalType
  <2> QED
    BY <1>1, <1>9, <2>1, SetSlotEffect DEF FailSince, SharedType
<1>10. CASE SetGauge(c)
  BY <1>1, <1>10 DEF SetGauge, SharedType
<1> QED
  BY <1>2, <1>3, <1>4, <1>5, <1>6, <1>7, <1>8, <1>9, <1>10
     DEF ConnStep, Load, ScanHealthy, ScanSince, ScanNow, FailOpen, Connected, ReadHealth, FailClock

\* A connection's step keeps the history variables in type.
LEMMA HistoryNext ==
    ASSUME TypeOK, NEW c \in Conns, ConnStep(c)
    PROVE  HistoryType'
<1>1. SharedType /\ LocalType /\ HistoryType /\ mygen[c] \in Gens /\ ReportSlot(c) \in Slots
  BY SlotTypes, TypeParts
<1>2. CASE UNCHANGED history
  BY <1>1, <1>2 DEF history, HistoryType
<1>3. CASE Pick(c)
  BY <1>1, <1>3 DEF Pick, HistoryType
<1>4. CASE Connected(c)
  <2> DEFINE others == Reporting(mygen[c], ReportSlot(c))
  <2>1. /\ alone' = [d \in Conns |-> IF d = c THEN others = {} ELSE alone[d] /\ d \notin others]
        /\ tainted' = SetSlot(tainted, c, tainted[mygen[c]][ReportSlot(c)] \/ others # {})
        /\ steady' = steady
    BY <1>4 DEF Connected
  <2>2. (tainted[mygen[c]][ReportSlot(c)] \/ others # {}) \in BOOLEAN
    OBVIOUS
  <2> HIDE DEF others
  <2> QED
    BY <1>1, <2>1, <2>2, SetSlotEffect DEF HistoryType
<1>5. CASE OkSince(c)
  BY <1>1, <1>5, SetSlotEffect DEF OkSince, HistoryType
<1>6. CASE FailSwap(c)
  BY <1>1, <1>6 DEF FailSwap, HistoryType
<1> QED
  BY <1>2, <1>3, <1>4, <1>5, <1>6
     DEF ConnStep, Load, ScanHealthy, ScanSince, ScanNow, FailOpen, ReadHealth, OkSwap, OkFails,
         FailFails, FailClock, FailSince, SetGauge

\* Every step keeps the types.
LEMMA TypeNext ==
    ASSUME TypeOK, ScanRange, [Next]_vars
    PROVE  TypeOK' /\ ScanRange'
<1>1. SharedType /\ LocalType /\ HistoryType
  BY TypeParts
<1>2. CASE Tick \/ Reload \/ UNCHANGED vars
  <2>1. UNCHANGED <<healthy, since, fails, counter, gauge, local, history>>
    BY <1>2 DEF Tick, Reload, vars, shared
  <2>2. gen' \in Gens /\ now' \in 1 .. MaxTime
    BY <1>1, <1>2, UpstreamAssumption DEF SharedType, Tick, Reload, vars, shared, Gens
  <2>3. SharedType' /\ LocalType' /\ HistoryType'
    BY <1>1, <2>1, <2>2 DEF SharedType, LocalType, HistoryType, local, history
  <2>4. ScanRange'
    BY <2>1 DEF ScanRange, local
  <2> QED
    BY <2>3, <2>4, TypeParts, PTL
<1>3. ASSUME NEW c \in Conns, ConnStep(c) PROVE TypeOK' /\ ScanRange'
  BY <1>3, SharedNext, LocalNext, HistoryNext, TypeParts, PTL
<1> QED
  BY <1>2, <1>3 DEF Next

(***************************************************************************)
(* The health records, the round-robin counters, the gauge and every       *)
(* connection's local state keep their types.                              *)
(***************************************************************************)
THEOREM TypeCorrect == Spec => []TypeOK
  BY TypeInit, TypeNext, PTL DEF Spec

----------------------------------------------------------------------------
(* What a connection's step leaves alone.                                  *)

\* A connection's step changes no other connection's variables.
LEMMA OthersKept ==
    ASSUME TypeOK, NEW c \in Conns, ConnStep(c), NEW d \in Conns, d # c
    PROVE  /\ pc'[d] = pc[d] /\ mygen'[d] = mygen[d] /\ start'[d] = start[d] /\ off'[d] = off[d]
           /\ srv'[d] = srv[d] /\ seenSince'[d] = seenSince[d] /\ swapWas'[d] = swapWas[d]
<1>1. LocalType
  BY TypeParts
<1> USE DEF LocalType
<1>2. CASE Load(c) \/ Pick(c)
  BY <1>1, <1>2 DEF Load, Pick
<1>3. CASE ScanHealthy(c) \/ FailOpen(c)
  BY <1>1, <1>3 DEF ScanHealthy, FailOpen, Select
<1>4. CASE ScanSince(c)
  BY <1>1, <1>4 DEF ScanSince, Select
<1>5. CASE ScanNow(c)
  BY <1>1, <1>5 DEF ScanNow, Select
<1>6. CASE Connected(c)
  BY <1>1, <1>6 DEF Connected
<1>7. CASE ReadHealth(c)
  BY <1>1, <1>7 DEF ReadHealth
<1>8. CASE OkSwap(c) \/ OkFails(c) \/ OkSince(c)
  BY <1>1, <1>8 DEF OkSwap, OkFails, OkSince
<1>9. CASE FailSwap(c) \/ FailFails(c) \/ FailClock(c) \/ FailSince(c)
  BY <1>1, <1>9 DEF FailSwap, FailFails, FailClock, FailSince
<1>10. CASE SetGauge(c)
  BY <1>1, <1>10 DEF SetGauge
<1> QED
  BY <1>2, <1>3, <1>4, <1>5, <1>6, <1>7, <1>8, <1>9, <1>10 DEF ConnStep

(***************************************************************************)
(* A slot stops being healthy only in a failure's swap, and with that it   *)
(* stops being steady for all who scan the same generation.                *)
(***************************************************************************)
LEMMA HealthyKept ==
    ASSUME TypeOK, NEW c \in Conns, ConnStep(c), NEW g \in Gens, NEW s \in Slots, healthy[g][s]
    PROVE  healthy'[g][s] \/ (FailSwap(c) /\ g = mygen[c] /\ s = ReportSlot(c))
<1>1. SharedType /\ mygen[c] \in Gens /\ ReportSlot(c) \in Slots
  BY SlotTypes, TypeParts
<1>2. CASE OkSwap(c)
  <2>1. healthy' = SetSlot(healthy, c, TRUE) /\ healthy \in [Gens -> [Slots -> BOOLEAN]]
    BY <1>1, <1>2 DEF OkSwap, SharedType
  <2>2. healthy'[g][s] = IF g = mygen[c] /\ s = ReportSlot(c) THEN TRUE ELSE healthy[g][s]
    BY <1>1, <2>1 DEF SetSlot
  <2> QED
    BY <1>2, <2>2
<1>3. CASE FailSwap(c)
  <2>1. healthy' = SetSlot(healthy, c, FALSE) /\ healthy \in [Gens -> [Slots -> BOOLEAN]]
    BY <1>1, <1>3 DEF FailSwap, SharedType
  <2>2. healthy'[g][s] = IF g = mygen[c] /\ s = ReportSlot(c) THEN FALSE ELSE healthy[g][s]
    BY <1>1, <2>1 DEF SetSlot
  <2> QED
    BY <1>3, <2>2
<1>4. CASE healthy' = healthy
  BY <1>4
<1> QED
  BY <1>2, <1>3, <1>4
     DEF ConnStep, shared, Load, Pick, ScanHealthy, ScanSince, ScanNow, FailOpen, Connected, ReadHealth,
         OkFails, OkSince, FailFails, FailClock, FailSince, SetGauge

\* During a scan the steady slots only become fewer, and a failure takes its slot out for every scanner.
LEMMA SteadyShrinks ==
    ASSUME TypeOK, NEW c \in Conns, ConnStep(c), ~ Pick(c), NEW d \in Conns
    PROVE  /\ steady'[d] \subseteq steady[d]
           /\ FailSwap(c) /\ mygen[d] = mygen[c] => ReportSlot(c) \notin steady'[d]
<1>1. CASE FailSwap(c)
  BY <1>1 DEF FailSwap
<1>2. CASE steady' = steady /\ ~ FailSwap(c)
  BY <1>2
<1> QED
  BY <1>1, <1>2
     DEF ConnStep, history, Load, ScanHealthy, ScanSince, ScanNow, FailOpen, Connected, ReadHealth,
         OkSwap, OkFails, OkSince, FailFails, FailClock, FailSince, SetGauge

----------------------------------------------------------------------------
(* The scan.                                                               *)

(***************************************************************************)
(* While a connection scans: the slots that have been healthy throughout   *)
(* are healthy, none of them has been passed, and none is about to be.     *)
(***************************************************************************)
SteadyHealthy(c) == \A s \in steady[c] : healthy[mygen[c]][s]
PassedNone(c)    == \A i \in 0 .. off[c] - 1 : (start[c] + i) % NumServers \notin steady[c]

ScanInv ==
    \A c \in Conns : pc[c] \in ScanPcs =>
        /\ SteadyHealthy(c) /\ PassedNone(c)
        /\ pc[c] # "scan" => ScanSlot(c) \notin steady[c]

(***************************************************************************)
(* A scan that goes on at the same slot, or that another connection's step *)
(* interrupts.                                                             *)
(***************************************************************************)
LEMMA ScanKept ==
    ASSUME TypeOK, NEW c \in Conns, ConnStep(c), ~ Pick(c), NEW d \in Conns,
           mygen'[d] = mygen[d], start'[d] = start[d], off'[d] = off[d],
           SteadyHealthy(d), PassedNone(d)
    PROVE  /\ SteadyHealthy(d)' /\ PassedNone(d)'
           /\ ScanSlot(d) \notin steady[d] => ScanSlot(d)' \notin steady'[d]
<1>1. /\ steady'[d] \subseteq steady[d]
      /\ FailSwap(c) /\ mygen[d] = mygen[c] => ReportSlot(c) \notin steady'[d]
  BY SteadyShrinks
<1>2. mygen[d] \in Gens /\ steady[d] \subseteq Slots
  BY SlotTypes, TypeParts DEF HistoryType
<1>3. SteadyHealthy(d)'
  <2> SUFFICES ASSUME NEW s \in steady'[d] PROVE healthy'[mygen'[d]][s]
    BY DEF SteadyHealthy
  <2>1. s \in Slots /\ healthy[mygen[d]][s]
    BY <1>1, <1>2 DEF SteadyHealthy
  <2>2. healthy'[mygen[d]][s]
    BY <1>1, <1>2, <2>1, HealthyKept
  <2> QED
    BY <2>2
<1>4. PassedNone(d)'
  BY <1>1 DEF PassedNone
<1>5. ScanSlot(d)' = ScanSlot(d)
  BY DEF ScanSlot
<1> QED
  BY <1>1, <1>3, <1>4, <1>5

\* Every step keeps the invariant of scans.
LEMMA ScanNext ==
    ASSUME TypeOK, ScanInv, [Next]_vars
    PROVE  ScanInv'
<1> USE DEF ScanPcs
<1>1. SharedType /\ LocalType /\ HistoryType
  BY TypeParts
<1>2. CASE Tick \/ Reload \/ UNCHANGED vars
  <2>1. UNCHANGED <<healthy, pc, mygen, start, off, steady>>
    BY <1>2 DEF Tick, Reload, vars, shared, local, history
  <2> QED
    BY <2>1 DEF ScanInv, SteadyHealthy, PassedNone, ScanSlot
<1>3. ASSUME NEW c \in Conns, ConnStep(c), NEW d \in Conns, pc'[d] \in ScanPcs
      PROVE  /\ SteadyHealthy(d)' /\ PassedNone(d)'
             /\ pc'[d] # "scan" => ScanSlot(d)' \notin steady'[d]
  <2>1. CASE d # c /\ ~ Pick(c)
    BY <1>3, <2>1, OthersKept, ScanKept DEF ScanInv
  <2>2. CASE Pick(c) /\ d # c
    <3>1. healthy' = healthy /\ steady'[d] = steady[d]
      BY <1>1, <2>2 DEF Pick, HistoryType
    <3>2. pc'[d] = pc[d] /\ mygen'[d] = mygen[d] /\ start'[d] = start[d] /\ off'[d] = off[d]
      BY <1>3, <2>2, OthersKept
    <3> QED
      BY <1>3, <3>1, <3>2 DEF ScanInv, SteadyHealthy, PassedNone, ScanSlot
  <2>3. CASE Pick(c) /\ d = c
    <3>1. /\ pc'[c] = "scan" /\ off'[c] = 0 /\ mygen' = mygen /\ healthy' = healthy
          /\ steady'[c] = {s \in Slots : healthy[mygen[c]][s]}
      BY <1>1, <2>3 DEF Pick, LocalType, HistoryType
    <3> QED
      BY <2>3, <3>1 DEF SteadyHealthy, PassedNone
  <2>4. CASE d = c /\ ScanHealthy(c)
    <3>1. /\ pc[c] = "scan" /\ pc' = [pc EXCEPT ![c] = "scan_since"]
          /\ ~ healthy[mygen[c]][ScanSlot(c)]
          /\ UNCHANGED <<mygen, start, off>>
      <4>1. CASE healthy[mygen[c]][ScanSlot(c)]
        BY <1>1, <1>3, <2>4, <4>1 DEF ScanHealthy, Select, LocalType
      <4> QED
        BY <2>4, <4>1 DEF ScanHealthy
    <3>2. ~ Pick(c) /\ pc'[c] = "scan_since"
      BY <1>1, <3>1 DEF Pick, LocalType
    <3>3. SteadyHealthy(c) /\ PassedNone(c)
      BY <3>1 DEF ScanInv
    <3>4. ScanSlot(c) \notin steady[c]
      BY <3>1, <3>3 DEF SteadyHealthy
    <3> QED
      BY <1>3, <2>4, <3>1, <3>2, <3>3, <3>4, ScanKept
  <2>5. CASE d = c /\ ScanSince(c)
    <3>1. /\ pc[c] = "scan_since" /\ UNCHANGED <<mygen, start, off>>
      BY <2>5 DEF ScanSince
    <3>2. ~ Pick(c)
      BY <3>1 DEF Pick
    <3>3. SteadyHealthy(c) /\ PassedNone(c) /\ ScanSlot(c) \notin steady[c]
      BY <3>1 DEF ScanInv
    <3> QED
      BY <1>3, <2>5, <3>1, <3>2, <3>3, ScanKept
  <2>6. CASE d = c /\ ScanNow(c)
    <3>1. /\ pc[c] = "scan_now" /\ pc'[c] = "scan" /\ off'[c] = off[c] + 1
          /\ UNCHANGED <<mygen, start, healthy, steady>>
      <4>1. CASE CooledDown(now, seenSince[c])
        BY <1>1, <1>3, <2>6, <4>1 DEF ScanNow, Select, LocalType
      <4>2. CASE ~ CooledDown(now, seenSince[c])
        BY <1>1, <2>6, <4>2 DEF ScanNow, Select, LocalType, shared, history
      <4> QED
        BY <4>1, <4>2
    <3>2. SteadyHealthy(c) /\ PassedNone(c) /\ ScanSlot(c) \notin steady[c]
      BY <3>1 DEF ScanInv
    <3>3. off[c] \in Nat
      BY <1>1, SlotsAreNat DEF LocalType
    <3>4. \A i \in 0 .. off'[c] - 1 : i \in 0 .. off[c] - 1 \/ i = off[c]
      BY <3>1, <3>3
    <3>5. PassedNone(c)'
      BY <3>1, <3>2, <3>4 DEF PassedNone, ScanSlot
    <3> QED
      BY <2>6, <3>1, <3>2, <3>5 DEF SteadyHealthy
  <2>7. CASE d = c /\ ~ Pick(c) /\ ~ ScanHealthy(c) /\ ~ ScanSince(c) /\ ~ ScanNow(c)
    <3>1. pc'[c] \notin ScanPcs
      BY <1>1, <1>3, <2>7
         DEF ConnStep, LocalType, Load, FailOpen, Select, Connected, ReadHealth, OkSwap, OkFails,
             OkSince, FailSwap, FailFails, AfterFailRecord, FailClock, FailSince, SetGauge
    <3> QED
      BY <1>3, <2>7, <3>1
  <2> QED
    BY <2>1, <2>2, <2>3, <2>4, <2>5, <2>6, <2>7
<1> QED
  BY <1>2, <1>3 DEF Next, ScanInv

(***************************************************************************)
(* next_server never passes over a slot that was healthy from its          *)
(* fetch_add on (proxy.rs next_server, health.rs is_eligible), however     *)
(* many connections report successes and failures in between; so it fails  *)
(* open only if no backend stayed healthy throughout.                      *)
(***************************************************************************)
THEOREM SteadySlotsAreNotSkipped == Spec => []NoSteadySlotSkipped
<1>1. Init => TypeOK /\ ScanRange /\ ScanInv
  <2>1. Init => ScanInv
    BY DEF Init, ScanInv, ScanPcs
  <2> QED
    BY <2>1, TypeInit
<1>2. TypeOK /\ ScanRange /\ ScanInv /\ [Next]_vars => (TypeOK /\ ScanRange /\ ScanInv)'
  BY TypeNext, ScanNext
<1>3. ScanInv => NoSteadySlotSkipped
  BY DEF ScanInv, PassedNone, NoSteadySlotSkipped
<1> QED
  BY <1>1, <1>2, <1>3, PTL DEF Spec

----------------------------------------------------------------------------
(* The reports.                                                            *)

Busy(c)     == pc[c] \in RecordPcs
At(c, g, s) == mygen[c] = g /\ ReportSlot(c) = s

(***************************************************************************)
(* A report that counts as alone has its slot for itself, and one on a     *)
(* slot that is not tainted is alone.                                      *)
(***************************************************************************)
AloneInv ==
    /\ \A c, d \in Conns :
          Busy(c) /\ Busy(d) /\ alone[c] /\ At(d, mygen[c], ReportSlot(c)) => d = c
    /\ \A c \in Conns :
          Busy(c) /\ ~ tainted[mygen[c]][ReportSlot(c)] => alone[c]

(***************************************************************************)
(* How far a report that is alone has come.                                *)
(***************************************************************************)
Recorded(c, g, s) ==
    /\ pc[c] \in {"ok_read", "ok_swap", "fail_read", "fail_swap"} /\ ~ tainted[g][s] => Consistent(g, s)
    /\ pc[c] \in {"ok_fails", "ok_since"} => healthy[g][s]
    /\ pc[c] = "ok_since" => fails[g][s] = 0
    /\ pc[c] \in {"fail_fails", "fail_clock", "fail_since"} => ~ healthy[g][s]
    /\ pc[c] = "fail_fails" /\ ~ tainted[g][s] /\ ~ swapWas[c] => since[g][s] # 0 /\ fails[g][s] # 0
    /\ pc[c] \in {"fail_clock", "fail_since"} => fails[g][s] # 0

RecordedInv ==
    \A c \in Conns : Busy(c) /\ alone[c] => Recorded(c, mygen[c], ReportSlot(c))

(***************************************************************************)
(* A connection that is not in a report touches no record; one that is     *)
(* touches the one it reports to.                                          *)
(***************************************************************************)
LEMMA RecordKept ==
    ASSUME TypeOK, NEW c \in Conns, ConnStep(c), NEW g \in Gens, NEW s \in Slots,
           ~ (Busy(c) /\ At(c, g, s))
    PROVE  /\ healthy'[g][s] = healthy[g][s] /\ since'[g][s] = since[g][s] /\ fails'[g][s] = fails[g][s]
           /\ ~ (Connected(c) /\ At(c, g, s)) => tainted'[g][s] = tainted[g][s]
<1>1. /\ mygen[c] \in Gens /\ ReportSlot(c) \in Slots
      /\ SharedType /\ HistoryType
  BY SlotTypes, TypeParts
<1>2. ASSUME Busy(c) PROVE ~ At(c, g, s)
  BY <1>2
<1> USE DEF Busy, RecordPcs, OkPcs, FailPcs
<1>3. CASE OkSwap(c)
  <2>1. ~ At(c, g, s) /\ UNCHANGED <<since, fails, tainted>> /\ healthy' = SetSlot(healthy, c, TRUE)
    BY <1>2, <1>3 DEF OkSwap, history
  <2> QED
    BY <1>1, <2>1 DEF SetSlot, At, SharedType
<1>4. CASE FailSwap(c)
  <2>1. ~ At(c, g, s) /\ UNCHANGED <<since, fails, tainted>> /\ healthy' = SetSlot(healthy, c, FALSE)
    BY <1>2, <1>4 DEF FailSwap
  <2> QED
    BY <1>1, <2>1 DEF SetSlot, At, SharedType
<1>5. CASE OkFails(c)
  <2>1. ~ At(c, g, s) /\ UNCHANGED <<healthy, since, tainted>> /\ fails' = SetSlot(fails, c, 0)
    BY <1>2, <1>5 DEF OkFails, history
  <2> QED
    BY <1>1, <2>1 DEF SetSlot, At, SharedType
<1>6. CASE FailFails(c)
  <2>1. /\ ~ At(c, g, s) /\ UNCHANGED <<healthy, since, tainted>>
        /\ fails' = SetSlot(fails, c, fails[mygen[c]][ReportSlot(c)] + 1)
    BY <1>2, <1>6 DEF FailFails, history
  <2> QED
    BY <1>1, <2>1 DEF SetSlot, At, SharedType
<1>7. CASE OkSince(c)
  <2>1. /\ ~ At(c, g, s) /\ UNCHANGED <<healthy, fails>> /\ since' = SetSlot(since, c, 0)
        /\ tainted' = IF alone[c] THEN SetSlot(tainted, c, FALSE) ELSE tainted
    BY <1>2, <1>7 DEF OkSince
  <2>2. tainted'[g][s] = tainted[g][s]
    BY <1>1, <2>1 DEF SetSlot, At, HistoryType
  <2> QED
    BY <1>1, <2>1, <2>2 DEF SetSlot, At, SharedType
<1>8. CASE FailSince(c)
  <2>1. ~ At(c, g, s) /\ UNCHANGED <<healthy, fails, tainted>> /\ since' = SetSlot(since, c, seenSince[c])
    BY <1>2, <1>8 DEF FailSince, history
  <2> QED
    BY <1>1, <2>1 DEF SetSlot, At, SharedType
<1>9. CASE Connected(c)
  <2>1. /\ UNCHANGED <<healthy, since, fails>>
        /\ tainted' = SetSlot(tainted, c, tainted[mygen[c]][ReportSlot(c)]
                                             \/ Reporting(mygen[c], ReportSlot(c)) # {})
    BY <1>9 DEF Connected, shared
  <2>2. ~ At(c, g, s) => tainted'[g][s] = tainted[g][s]
    BY <1>1, <2>1 DEF SetSlot, At, HistoryType
  <2> QED
    BY <1>9, <2>1, <2>2
<1>10. CASE UNCHANGED <<healthy, since, fails, tainted>>
  BY <1>10
<1> QED
  BY <1>3, <1>4, <1>5, <1>6, <1>7, <1>8, <1>9, <1>10
     DEF ConnStep, shared, history, Load, Pick, ScanHealthy, ScanSince, ScanNow, FailOpen, ReadHealth,
         FailClock, SetGauge

(***************************************************************************)
(* A connection enters a report when its connect has ended, stays with the *)
(* same record, and only entering changes who is alone.                    *)
(***************************************************************************)
LEMMA BusyMoves ==
    ASSUME TypeOK, NEW c \in Conns, ConnStep(c)
    PROVE  /\ ~ Connected(c) => alone' = alone
           /\ Connected(c) => ~ Busy(c) /\ Busy(c)'
           /\ Busy(c)' => Connected(c) \/ Busy(c)
           /\ Busy(c) \/ Connected(c) => mygen' = mygen /\ srv' = srv
<1>1. LocalType
  BY TypeParts
<1> USE DEF Busy, RecordPcs, OkPcs, FailPcs
<1>2. CASE Connected(c)
  BY <1>1, <1>2 DEF Connected, LocalType
<1>3. CASE Load(c) \/ Pick(c)
  BY <1>1, <1>3 DEF Load, Pick, LocalType, history, Connected
<1>4. CASE ScanHealthy(c) \/ FailOpen(c)
  BY <1>1, <1>4 DEF ScanHealthy, FailOpen, Select, LocalType, history, Connected
<1>5. CASE ScanSince(c)
  BY <1>1, <1>5 DEF ScanSince, Select, LocalType, history, Connected
<1>6. CASE ScanNow(c)
  BY <1>1, <1>6 DEF ScanNow, Select, LocalType, history, Connected
<1>7. CASE ReadHealth(c)
  BY <1>1, <1>7 DEF ReadHealth, LocalType, history, Connected
<1>8. CASE OkSwap(c) \/ OkFails(c) \/ OkSince(c)
  BY <1>1, <1>8 DEF OkSwap, OkFails, OkSince, LocalType, history, Connected
<1>9. CASE FailSwap(c) \/ FailFails(c) \/ FailClock(c) \/ FailSince(c)
  BY <1>1, <1>9 DEF FailSwap, FailFails, FailClock, FailSince, LocalType, history, Connected
<1>10. CASE SetGauge(c)
  BY <1>1, <1>10 DEF SetGauge, LocalType, history, Connected
<1> QED
  BY <1>2, <1>3, <1>4, <1>5, <1>6, <1>7, <1>8, <1>9, <1>10 DEF ConnStep

\* A connection's step keeps the meaning of alone: a report that nothing has overlapped.
LEMMA AloneNext ==
    ASSUME TypeOK, AloneInv, NEW c \in Conns, ConnStep(c)
    PROVE  AloneInv'
<1>1. HistoryType /\ LocalType
  BY TypeParts
<1>2. \A d \in Conns : mygen[d] \in Gens /\ ReportSlot(d) \in Slots
  BY SlotTypes
<1>3. ASSUME NEW d \in Conns, Busy(d)'
      PROVE  /\ mygen'[d] = mygen[d] /\ ReportSlot(d)' = ReportSlot(d)
             /\ d # c => Busy(d)
             /\ d = c => Busy(c) \/ Connected(c)
  <2>1. CASE d # c
    BY <1>3, <2>1, OthersKept DEF Busy, ReportSlot
  <2>2. CASE d = c
    BY <1>3, <2>2, BusyMoves DEF ReportSlot
  <2> QED
    BY <2>1, <2>2
<1>4. CASE Connected(c)
  <2> DEFINE g == mygen[c]
             s == ReportSlot(c)
             others == Reporting(g, s)
  <2>1. /\ alone' = [d \in Conns |-> IF d = c THEN others = {} ELSE alone[d] /\ d \notin others]
        /\ tainted' = SetSlot(tainted, c, tainted[g][s] \/ others # {})
    BY <1>4 DEF Connected
  <2>2. \A d \in Conns : d \in others <=> Busy(d) /\ At(d, g, s)
    BY DEF Reporting, Busy, At
  <2>3. tainted'[g][s] = (tainted[g][s] \/ others # {})
    <3> HIDE DEF others
    <3> QED
      BY <1>1, <1>2, <2>1 DEF HistoryType, SetSlot
  <2>4. others \subseteq Conns /\ ~ Busy(c)
    BY <1>4, BusyMoves DEF Reporting
  <2> HIDE DEF others
  <2>5. ASSUME NEW x \in Conns, NEW y \in Conns, Busy(x)', Busy(y)', alone'[x],
               mygen'[y] = mygen'[x], ReportSlot(y)' = ReportSlot(x)'
        PROVE  y = x
    <3>1. mygen[y] = mygen[x] /\ ReportSlot(y) = ReportSlot(x)
      BY <1>3, <2>5
    <3>2. CASE x = c /\ y # c
      BY <1>3, <2>1, <2>2, <2>5, <3>1, <3>2 DEF At
    <3>3. CASE x # c /\ y = c
      BY <1>3, <2>1, <2>2, <2>5, <3>1, <3>3 DEF At
    <3>4. CASE x # c /\ y # c
      BY <1>3, <2>1, <2>5, <3>1, <3>4 DEF AloneInv, At
    <3> QED
      BY <3>2, <3>3, <3>4
  <2>6. ASSUME NEW x \in Conns, Busy(x)', ~ tainted'[mygen'[x]][ReportSlot(x)']
        PROVE  alone'[x]
    <3>1. ~ tainted'[mygen[x]][ReportSlot(x)]
      BY <1>3, <2>6
    <3>2. CASE x = c
      BY <2>1, <2>3, <3>1, <3>2
    <3>3. CASE x # c
      <4>1. Busy(x)
        BY <1>3, <2>6, <3>3
      <4>2. CASE At(x, g, s)
        BY <2>2, <2>3, <3>1, <4>1, <4>2 DEF At
      <4>3. CASE ~ At(x, g, s)
        <5>1. ~ tainted[mygen[x]][ReportSlot(x)]
          BY <1>2, <2>4, <3>1, <4>3, RecordKept DEF At
        <5> QED
          BY <2>1, <2>2, <3>3, <4>1, <4>3, <5>1 DEF AloneInv
      <4> QED
        BY <4>2, <4>3
    <3> QED
      BY <3>2, <3>3
  <2> QED
    BY <2>5, <2>6 DEF AloneInv, At
<1>5. CASE ~ Connected(c)
  <2>1. alone' = alone
    BY <1>5, BusyMoves
  <2>2. \A x \in Conns : Busy(x)' => /\ Busy(x) /\ mygen'[x] = mygen[x]
                                     /\ ReportSlot(x)' = ReportSlot(x)
    BY <1>3, <1>5
  <2>3. ASSUME NEW x \in Conns, Busy(x)', ~ tainted'[mygen'[x]][ReportSlot(x)']
        PROVE  alone'[x]
    <3>1. Busy(x) /\ ~ tainted'[mygen[x]][ReportSlot(x)]
      BY <2>2, <2>3
    <3>2. CASE tainted'[mygen[x]][ReportSlot(x)] = tainted[mygen[x]][ReportSlot(x)]
      BY <2>1, <3>1, <3>2 DEF AloneInv
    <3>3. CASE tainted'[mygen[x]][ReportSlot(x)] # tainted[mygen[x]][ReportSlot(x)]
      <4>1. Busy(c) /\ At(c, mygen[x], ReportSlot(x))
        BY <1>2, <1>5, <3>3, RecordKept
      <4>2. OkSince(c) /\ alone[c]
        BY <1>5, <3>3
           DEF ConnStep, history, Load, Pick, ScanHealthy, ScanSince, ScanNow, FailOpen, ReadHealth, OkSwap,
               OkFails, OkSince, FailSwap, FailFails, FailClock, FailSince, SetGauge
      <4>3. ~ Busy(c)'
        BY <1>1, <4>2 DEF OkSince, Busy, RecordPcs, OkPcs, FailPcs, LocalType
      <4>4. x = c
        BY <3>1, <4>1, <4>2 DEF AloneInv, At
      <4> QED
        BY <2>3, <4>3, <4>4
    <3> QED
      BY <3>2, <3>3
  <2> QED
    BY <2>1, <2>2, <2>3 DEF AloneInv, At
<1> QED
  BY <1>4, <1>5

(***************************************************************************)
(* What each step of a report does to its record.                          *)
(***************************************************************************)
LEMMA RecordStep ==
    ASSUME TypeOK, NEW c \in Conns, ConnStep(c), Busy(c),
           NEW g, NEW s, g = mygen[c], s = ReportSlot(c)
    PROVE  \/ /\ pc[c] = "ok_read" /\ pc'[c] = "ok_swap"
              /\ UNCHANGED <<healthy, since, fails, tainted>>
           \/ /\ pc[c] = "fail_read" /\ pc'[c] = "fail_swap"
              /\ UNCHANGED <<healthy, since, fails, tainted>>
           \/ /\ pc[c] = "ok_swap" /\ pc'[c] = "ok_fails"
              /\ healthy'[g][s] /\ UNCHANGED <<since, fails, tainted>>
           \/ /\ pc[c] = "ok_fails" /\ pc'[c] = "ok_since"
              /\ fails'[g][s] = 0 /\ UNCHANGED <<healthy, since, tainted>>
           \/ /\ pc[c] = "ok_since" /\ ~ Busy(c)'
              /\ since'[g][s] = 0 /\ UNCHANGED <<healthy, fails>>
              /\ ~ alone[c] => tainted' = tainted
           \/ /\ pc[c] = "fail_swap" /\ pc'[c] = "fail_fails"
              /\ ~ healthy'[g][s] /\ (swapWas'[c] <=> healthy[g][s])
              /\ UNCHANGED <<since, fails, tainted>>
           \/ /\ pc[c] = "fail_fails" /\ fails'[g][s] # 0
              /\ (swapWas[c] /\ pc'[c] = "fail_clock") \/ (~ swapWas[c] /\ ~ Busy(c)')
              /\ UNCHANGED <<healthy, since, tainted>>
           \/ /\ pc[c] = "fail_clock" /\ pc'[c] = "fail_since"
              /\ UNCHANGED <<healthy, since, fails, tainted>>
           \/ /\ pc[c] = "fail_since" /\ ~ Busy(c)'
              /\ since'[g][s] = seenSince[c] /\ UNCHANGED <<healthy, fails, tainted>>
<1>1. SharedType /\ LocalType /\ HistoryType /\ g \in Gens /\ s \in Slots
  BY SlotTypes, TypeParts
<1>2. pc[c] \in RecordPcs
  BY DEF Busy
<1> USE DEF RecordPcs, OkPcs, FailPcs
<1>3. CASE ReadHealth(c)
  BY <1>1, <1>3 DEF ReadHealth, LocalType, shared, history
<1>4. CASE OkSwap(c)
  BY <1>1, <1>4 DEF OkSwap, LocalType, SharedType, SetSlot, history
<1>5. CASE OkFails(c)
  BY <1>1, <1>5 DEF OkFails, LocalType, SharedType, SetSlot, history
<1>6. CASE OkSince(c)
  BY <1>1, <1>6 DEF OkSince, LocalType, SharedType, SetSlot, Busy
<1>7. CASE FailSwap(c)
  BY <1>1, <1>7 DEF FailSwap, LocalType, SharedType, SetSlot
<1>8. CASE FailFails(c)
  <2>1. /\ pc[c] = "fail_fails" /\ UNCHANGED <<healthy, since, tainted>>
        /\ fails' = SetSlot(fails, c, fails[g][s] + 1)
        /\ pc'[c] = IF swapWas[c] THEN "fail_clock" ELSE AfterFailRecord(c)
    BY <1>1, <1>8 DEF FailFails, LocalType, history
  <2>2. fails[g][s] \in Nat /\ fails'[g][s] = fails[g][s] + 1
    BY <1>1, <2>1 DEF SharedType, SetSlot
  <2>3. fails'[g][s] # 0
    BY <2>2
  <2> QED
    BY <2>1, <2>3 DEF AfterFailRecord, Busy
<1>9. CASE FailClock(c)
  BY <1>1, <1>9 DEF FailClock, LocalType, shared, history
<1>10. CASE FailSince(c)
  BY <1>1, <1>10 DEF FailSince, AfterFailRecord, LocalType, SharedType, SetSlot, Busy, history
<1> QED
  BY <1>2, <1>3, <1>4, <1>5, <1>6, <1>7, <1>8, <1>9, <1>10
     DEF ConnStep, Load, Pick, ScanHealthy, ScanSince, ScanNow, FailOpen, Connected, SetGauge

\* A connection's step keeps what an undisturbed report has written so far.
LEMMA RecordedNext ==
    ASSUME TypeOK, AloneInv, RecordedInv, CleanSlotConsistent, NEW c \in Conns, ConnStep(c)
    PROVE  RecordedInv'
<1> SUFFICES ASSUME NEW d \in Conns, Busy(d)', alone'[d]
             PROVE  Recorded(d, mygen[d], ReportSlot(d))'
  BY DEF RecordedInv
<1> DEFINE g == mygen[d]
           s == ReportSlot(d)
<1>1. g \in Gens /\ s \in Slots
  BY SlotTypes
<1>2. CASE d # c
  <2>1. /\ pc'[d] = pc[d] /\ mygen'[d] = g /\ ReportSlot(d)' = s /\ swapWas'[d] = swapWas[d]
        /\ Busy(d)
    BY <1>2, OthersKept DEF Busy, ReportSlot
  <2>2. alone[d] /\ ~ (Connected(c) /\ At(c, g, s))
    <3>1. CASE Connected(c)
      <4>1. alone'[d] = (alone[d] /\ d \notin Reporting(mygen[c], ReportSlot(c)))
        BY <1>2, <3>1 DEF Connected
      <4> QED
        BY <2>1, <4>1 DEF Reporting, Busy, At
    <3>2. CASE ~ Connected(c)
      BY <3>2, BusyMoves
    <3> QED
      BY <3>1, <3>2
  <2>3. ~ (Busy(c) /\ At(c, g, s))
    BY <1>2, <2>1, <2>2 DEF AloneInv
  <2>4. /\ healthy'[g][s] = healthy[g][s] /\ since'[g][s] = since[g][s] /\ fails'[g][s] = fails[g][s]
        /\ tainted'[g][s] = tainted[g][s]
    BY <1>1, <2>2, <2>3, RecordKept
  <2>5. Recorded(d, g, s)
    BY <2>1, <2>2 DEF RecordedInv
  <2> HIDE DEF g, s
  <2>6. Recorded(d, g, s)
    BY <2>5
  <2> QED
    BY <2>1, <2>4, <2>6 DEF Recorded, Consistent
<1>3. CASE d = c /\ Connected(c)
  <2> DEFINE others == Reporting(g, s)
  <2>1. /\ mygen'[d] = g /\ ReportSlot(d)' = s
        /\ UNCHANGED <<healthy, since, fails>>
        /\ tainted' = SetSlot(tainted, c, tainted[g][s] \/ others # {})
        /\ pc'[d] \in {"ok_read", "fail_read"}
    BY <1>3, TypeParts DEF Connected, ReportSlot, shared, LocalType
  <2>2. ~ tainted'[g][s] => ~ tainted[g][s] /\ others = {}
    <3> HIDE DEF others
    <3> QED
      BY <1>1, <1>3, <2>1, TypeParts DEF SetSlot, HistoryType
  <2>3. ~ tainted'[g][s] => Consistent(g, s)
    BY <1>1, <2>2 DEF CleanSlotConsistent
  <2> HIDE DEF g, s, others
  <2> QED
    BY <2>1, <2>3 DEF Recorded, Consistent
<1>4. CASE d = c /\ ~ Connected(c)
  <2>1. /\ Busy(c) /\ alone[c] /\ mygen'[c] = g /\ ReportSlot(c)' = s
    BY <1>4, BusyMoves DEF ReportSlot
  <2>2. Recorded(c, g, s)
    BY <1>4, <2>1 DEF RecordedInv
  <2>3. g = mygen[c] /\ s = ReportSlot(c)
    BY <1>4
  <2> HIDE DEF g, s
  <2> USE DEF Recorded, Consistent
  <2>4. Recorded(c, g, s)
    BY <2>2
  <2>5. CASE pc[c] \in {"ok_read", "fail_read", "fail_clock"}
    BY <1>4, <2>1, <2>3, <2>4, <2>5, RecordStep
  <2>6. CASE pc[c] \in {"ok_swap", "ok_fails", "ok_since"}
    BY <1>4, <2>1, <2>3, <2>4, <2>6, RecordStep
  <2>7. CASE pc[c] = "fail_swap"
    BY <1>4, <2>1, <2>3, <2>4, <2>7, RecordStep
  <2>8. CASE pc[c] \in {"fail_fails", "fail_since"}
    BY <1>4, <2>1, <2>3, <2>4, <2>8, RecordStep
  <2> QED
    BY <2>1, <2>5, <2>6, <2>7, <2>8 DEF Busy, RecordPcs, OkPcs, FailPcs
<1> QED
  BY <1>2, <1>3, <1>4

\* A connection's step keeps clean records consistent.
LEMMA CleanNext ==
    ASSUME TypeOK, ScanRange, AloneInv, RecordedInv, CleanSlotConsistent, NEW c \in Conns, ConnStep(c)
    PROVE  CleanSlotConsistent'
<1> SUFFICES ASSUME NEW g \in Gens, NEW s \in Slots, ~ tainted'[g][s], Reporting(g, s)' = {}
             PROVE  Consistent(g, s)'
  BY DEF CleanSlotConsistent
<1>1. ASSUME NEW d \in Conns PROVE ~ (Busy(d)' /\ mygen'[d] = g /\ ReportSlot(d)' = s)
  BY DEF Reporting, Busy
<1>2. \A d \in Conns \ {c} : ~ (Busy(d) /\ At(d, g, s))
  BY <1>1, OthersKept DEF Busy, ReportSlot, At
<1>3. ~ (Connected(c) /\ At(c, g, s))
  BY <1>1, BusyMoves DEF ReportSlot, At
<1>4. CASE Busy(c) /\ At(c, g, s)
  <2>1. g = mygen[c] /\ s = ReportSlot(c) /\ ~ Busy(c)'
    BY <1>1, <1>4, BusyMoves DEF ReportSlot, At
  <2>2. alone[c]
    <3>1. CASE tainted' = tainted
      BY <1>4, <2>1, <3>1 DEF AloneInv
    <3>2. CASE tainted' # tainted
      BY <1>4, <2>1, <3>2, RecordStep DEF Busy, RecordPcs, OkPcs, FailPcs
    <3> QED
      BY <3>1, <3>2
  <2>3. Recorded(c, g, s)
    BY <1>4, <2>1, <2>2 DEF RecordedInv
  <2>4. pc[c] = "fail_since" => seenSince[c] # 0
    BY DEF ScanRange
  <2>5. CASE pc[c] = "ok_since"
    BY <1>4, <2>1, <2>3, <2>5, RecordStep DEF Recorded, Consistent
  <2>6. CASE pc[c] = "fail_fails"
    BY <1>4, <2>1, <2>3, <2>6, RecordStep DEF Recorded, Consistent, Busy, RecordPcs, FailPcs
  <2>7. CASE pc[c] = "fail_since"
    BY <1>4, <2>1, <2>3, <2>4, <2>7, RecordStep DEF Recorded, Consistent
  <2> QED
    BY <1>4, <2>1, <2>5, <2>6, <2>7, RecordStep DEF Busy, RecordPcs, OkPcs, FailPcs
<1>5. CASE ~ (Busy(c) /\ At(c, g, s))
  <2>1. /\ healthy'[g][s] = healthy[g][s] /\ since'[g][s] = since[g][s] /\ fails'[g][s] = fails[g][s]
        /\ tainted'[g][s] = tainted[g][s]
    BY <1>3, <1>5, RecordKept
  <2>2. Reporting(g, s) = {}
    BY <1>2, <1>5 DEF Reporting, Busy, At
  <2>3. Consistent(g, s)
    BY <2>1, <2>2 DEF CleanSlotConsistent
  <2> QED
    BY <2>1, <2>3 DEF Consistent
<1> QED
  BY <1>4, <1>5

(***************************************************************************)
(* The inductive invariant behind CleanSlotConsistent.                     *)
(***************************************************************************)
ReportInv == TypeOK /\ ScanRange /\ AloneInv /\ RecordedInv /\ CleanSlotConsistent

\* The invariant of reports holds at the start.
LEMMA ReportInit == Init => ReportInv
<1> SUFFICES ASSUME Init PROVE ReportInv
  OBVIOUS
<1>1. TypeOK /\ ScanRange
  BY TypeInit
<1>2. \A c \in Conns : ~ Busy(c)
  BY DEF Init, Busy, RecordPcs, OkPcs, FailPcs
<1>3. CleanSlotConsistent
  BY DEF Init, CleanSlotConsistent, Consistent
<1> QED
  BY <1>1, <1>2, <1>3 DEF ReportInv, AloneInv, RecordedInv

\* Every step keeps the invariant of reports.
LEMMA ReportNext == ReportInv /\ [Next]_vars => ReportInv'
<1> SUFFICES ASSUME ReportInv, [Next]_vars PROVE ReportInv'
  OBVIOUS
<1>1. TypeOK' /\ ScanRange'
  BY TypeNext DEF ReportInv
<1>2. ASSUME NEW c \in Conns, ConnStep(c)
      PROVE  AloneInv' /\ RecordedInv' /\ CleanSlotConsistent'
  BY <1>2, AloneNext, RecordedNext, CleanNext DEF ReportInv
<1>3. CASE Tick \/ Reload \/ UNCHANGED vars
  <2>1. UNCHANGED <<healthy, since, fails, tainted, alone, pc, mygen, srv, swapWas>>
    BY <1>3 DEF Tick, Reload, vars, shared, local, history
  <2>2. \A c \in Conns : (Busy(c)' <=> Busy(c)) /\ ReportSlot(c)' = ReportSlot(c)
    BY <2>1 DEF Busy, ReportSlot
  <2>3. AloneInv'
    BY <2>1, <2>2 DEF ReportInv, AloneInv, At
  <2>4. RecordedInv'
    BY <2>1, <2>2 DEF ReportInv, RecordedInv, Recorded, Consistent
  <2>5. \A g \in Gens, s \in Slots : Reporting(g, s)' = Reporting(g, s)
    BY <2>1 DEF Reporting, ReportSlot
  <2>6. CleanSlotConsistent'
    BY <2>1, <2>5 DEF ReportInv, CleanSlotConsistent, Consistent
  <2> QED
    BY <1>1, <2>3, <2>4, <2>6 DEF ReportInv
<1> QED
  BY <1>1, <1>2, <1>3 DEF Next, ReportInv

(***************************************************************************)
(* The three atomics of a health record, which record_success and          *)
(* record_failure update one by one (health.rs), agree at rest unless two  *)
(* reports on the slot have overlapped, and one success that runs alone    *)
(* repairs what an overlap left behind: for any number of connections,     *)
(* servers, shared labels and reloads.                                     *)
(***************************************************************************)
THEOREM CleanSlotsAgree == Spec => []CleanSlotConsistent
<1>1. ReportInv => CleanSlotConsistent
  BY DEF ReportInv
<1> QED
  BY <1>1, ReportInit, ReportNext, PTL DEF Spec

=============================================================================
