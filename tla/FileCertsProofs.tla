---------------------------- MODULE FileCertsProofs ----------------------------
(***************************************************************************)
(* Proofs about FileCerts, for any set of certificates, linked or not, any *)
(* number of rotations, written in place or not, with and without ACME.    *)
(***************************************************************************)
EXTENDS FileCerts, TLAPS

(***************************************************************************)
(* The types of the constants.                                             *)
(***************************************************************************)
LEMMA ConstantTypes ==
    /\ MaxSerial \in Nat
    /\ LinkSwaps \subseteq Certs
    /\ None \notin Pairs
    /\ ChangesAtBoot \in BOOLEAN /\ InPlace \in BOOLEAN /\ Mixed \in BOOLEAN
  BY FileCertsAssumption DEF Pairs, Serials

(***************************************************************************)
(* Writing one file of a pair leaves the other.                            *)
(***************************************************************************)
LEMMA PairExcept ==
    ASSUME NEW p \in Pairs, NEW x \in Serials
    PROVE  /\ [p EXCEPT ![1] = x] = <<x, p[2]>>
           /\ [p EXCEPT ![2] = x] = <<p[1], x>>
           /\ p = <<p[1], p[2]>> /\ p[1] \in Serials /\ p[2] \in Serials
  BY DEF Pairs

(***************************************************************************)
(* What the operator writes, by the pair it leaves on disk.                *)
(***************************************************************************)
LEMMA ChangeEffect ==
    ASSUME disk \in [Certs -> Pairs], NEW c \in Certs, Change(c)
    PROVE  \E x, y \in Serials :
             /\ disk' = [disk EXCEPT ![c] = <<x, y>>]
             /\ \/ x = 0 /\ y = disk[c][2] /\ TruncateCert(c)
                \/ x = Latest(c) + 1 /\ y = disk[c][2] /\ RotateCert(c)
                \/ x = disk[c][1] /\ y = 0 /\ TruncateKey(c)
                \/ x = disk[c][1] /\ y = disk[c][1] /\ RotateKey(c)
                \/ x = Latest(c) + 1 /\ y = Latest(c) + 1 /\ SwapLink(c)
<1>0. disk[c] \in Pairs /\ disk[c][1] \in Serials /\ disk[c][2] \in Serials
  BY DEF Pairs
<1>1. Latest(c) <= MaxSerial => Latest(c) + 1 \in Serials
  BY <1>0, ConstantTypes DEF Latest, Serials
<1>2. 0 \in Serials
  BY ConstantTypes DEF Serials
<1>3. CASE RotateCert(c)
  <2>1. disk' = [disk EXCEPT ![c] = [disk[c] EXCEPT ![1] = Latest(c) + 1]]
    BY <1>3 DEF RotateCert
  <2>2. disk' = [disk EXCEPT ![c] = <<Latest(c) + 1, disk[c][2]>>]
    BY <1>0, <1>1, <1>3, <2>1, PairExcept DEF RotateCert
  <2> QED
    BY <1>0, <1>1, <1>3, <2>2 DEF RotateCert
<1>4. CASE TruncateKey(c)
  <2>1. disk' = [disk EXCEPT ![c] = [disk[c] EXCEPT ![2] = 0]]
    BY <1>4 DEF TruncateKey
  <2>2. disk' = [disk EXCEPT ![c] = <<disk[c][1], 0>>]
    BY <1>0, <1>2, <2>1, PairExcept
  <2> QED
    BY <1>0, <1>2, <1>4, <2>2
<1>5. CASE RotateKey(c)
  <2>1. disk' = [disk EXCEPT ![c] = [disk[c] EXCEPT ![2] = disk[c][1]]]
    BY <1>5 DEF RotateKey
  <2>2. disk' = [disk EXCEPT ![c] = <<disk[c][1], disk[c][1]>>]
    BY <1>0, <2>1, PairExcept
  <2> QED
    BY <1>0, <1>5, <2>2
<1>6. CASE SwapLink(c)
  BY <1>1, <1>6 DEF SwapLink
<1>7. CASE TruncateCert(c)
  <2>1. disk' = [disk EXCEPT ![c] = [disk[c] EXCEPT ![1] = 0]]
    BY <1>7 DEF TruncateCert
  <2>2. disk' = [disk EXCEPT ![c] = <<0, disk[c][2]>>]
    BY <1>0, <1>2, <2>1, PairExcept
  <2> QED
    BY <1>0, <1>2, <1>7, <2>2
<1> QED
  BY <1>3, <1>4, <1>5, <1>6, <1>7 DEF Change

-----------------------------------------------------------------------------
(***************************************************************************)
(* The type invariant in parts.  The chain that has been read is of an     *)
(* entry still to be done, and could be read.                              *)
(***************************************************************************)
DiskType ==
    /\ disk \in [Certs -> Pairs]
    /\ writing \subseteq Certs
    /\ events \subseteq {"file", "link"}

FlagType == armed \in BOOLEAN /\ acme \in BOOLEAN

StoreType ==
    /\ pc \in {"load", "boot", "watch", "reload", "ended"}
    /\ todo \subseteq Certs
    /\ chain \in {<<>>} \cup (Certs \X Serials)
    /\ store \in Stores
    /\ served \in Stores
    /\ linked \subseteq LinkSwaps

ChainRead ==
    /\ chain # <<>> => chain[1] \in todo /\ chain[2] # 0
    /\ ~ Building => chain = <<>>

(***************************************************************************)
(* Unless a rotation is under way, both files of an entry are of one       *)
(* certificate and can be read.                                            *)
(***************************************************************************)
PairsWhole ==
    /\ \A c \in Certs \ writing : disk[c][1] # 0 /\ disk[c][1] = disk[c][2]
    /\ writing \cap linked = {}

\* An entry that nothing is about to happen to, as long as there is a watcher.
Settled(c) ==
    /\ c \in Certs \ linked /\ c \notin writing
    /\ "file" \notin events /\ ~ armed /\ pc # "ended"

(***************************************************************************)
(* While a store is built: a settled entry is either still to be read, of  *)
(* which the chain may have been read already, or in the store as it is on *)
(* disk.  Otherwise it is served as it is on disk, but for ACME's store.   *)
(***************************************************************************)
BuiltSoFar ==
    Building => \A c \in Certs : Settled(c) =>
        IF c \in todo THEN chain # <<>> /\ chain[1] = c => chain[2] = disk[c][1]
        ELSE store[c] = disk[c]

ServedCurrent ==
    pc \in {"boot", "watch"} /\ ~ acme =>
        \A c \in Certs : Settled(c) => served[c] = disk[c]

(***************************************************************************)
(* Before the directories are watched nothing has changed, and while the   *)
(* files are read the timer is not set.                                    *)
(***************************************************************************)
BootQuiet ==
    /\ Booting => writing = {} /\ events = {}
    /\ pc # "watch" => ~ armed

TypeInv ==
    /\ DiskType /\ FlagType /\ StoreType
    /\ ChainRead
    /\ PairsWhole

Inv ==
    /\ TypeInv
    /\ BootQuiet
    /\ BuiltSoFar
    /\ ServedCurrent

(***************************************************************************)
(* A step of the watcher or of ACME leaves the files alone.                *)
(***************************************************************************)
LEMMA WatcherLeavesDisk ==
    ASSUME WatcherStep \/ WatchFails \/ AcmePublish \/ UNCHANGED vars
    PROVE  UNCHANGED <<disk, writing, linked>>
  BY DEF WatcherStep, ReadChain, ReadKey, LoadAll, StartWatching, WatchFails, Receive, Timer, ReloadCerts,
         AcmePublish, vars

(***************************************************************************)
(* A change of the files leaves everything of the watcher alone.           *)
(***************************************************************************)
LEMMA ChangeLeavesWatcher ==
    ASSUME NEW c \in Certs, Change(c)
    PROVE  UNCHANGED <<armed, pc, todo, chain, store, served, acme, linked>>
  BY DEF Change, TruncateCert, RotateCert, TruncateKey, RotateKey, SwapLink, watcher

(***************************************************************************)
(* The types hold at first.                                                *)
(***************************************************************************)
LEMMA TypeInit == Init => TypeInv
<1>1. Init => DiskType /\ StoreType
  BY ConstantTypes DEF Init, DiskType, StoreType, Pairs, Serials, Stores, Empty
<1>2. Init => FlagType
  BY Zenon DEF Init, FlagType
<1>3. Init => ChainRead /\ PairsWhole
  BY DEF Init, ChainRead, PairsWhole
<1> QED
  BY <1>1, <1>2, <1>3 DEF TypeInv

(***************************************************************************)
(* One step keeps the files and events in type.                            *)
(***************************************************************************)
LEMMA DiskTypeNext == TypeInv /\ [Next]_vars => DiskType'
<1> SUFFICES ASSUME TypeInv, [Next]_vars PROVE DiskType'
  OBVIOUS
<1>1. ASSUME NEW c \in Certs, Change(c) PROVE DiskType'
  <2>1. PICK x, y \in Serials : disk' = [disk EXCEPT ![c] = <<x, y>>]
    BY <1>1, ChangeEffect DEF TypeInv, DiskType
  <2>2. disk' \in [Certs -> Pairs]
    BY <2>1 DEF TypeInv, DiskType, Pairs
  <2>3. writing' \subseteq Certs /\ events' \subseteq {"file", "link"}
    BY <1>1 DEF Change, TruncateCert, RotateCert, TruncateKey, RotateKey, SwapLink, Emit, TypeInv, DiskType
  <2> QED
    BY <2>2, <2>3 DEF DiskType
<1>2. CASE WatcherStep \/ WatchFails \/ AcmePublish \/ UNCHANGED vars
  <2>1. events' \subseteq events
    BY <1>2 DEF WatcherStep, ReadChain, ReadKey, LoadAll, StartWatching, WatchFails, Receive, Timer, ReloadCerts,
                AcmePublish, vars
  <2> QED
    BY <1>2, <2>1, WatcherLeavesDisk DEF TypeInv, DiskType
<1> QED
  BY <1>1, <1>2 DEF Next

(***************************************************************************)
(* One step keeps the flags Boolean.                                       *)
(***************************************************************************)
LEMMA FlagTypeNext == FlagType /\ [Next]_vars => FlagType'
  BY Zenon DEF FlagType, Next, Change, TruncateCert, RotateCert, TruncateKey, RotateKey, SwapLink, watcher, WatcherStep,
         ReadChain, ReadKey, LoadAll, StartWatching, WatchFails, Receive, Timer, ReloadCerts, AcmePublish, vars

(***************************************************************************)
(* One step keeps the stores in type, and the chain read that of an entry  *)
(* still to be done.                                                       *)
(***************************************************************************)
LEMMA StoreTypeNext == TypeInv /\ [Next]_vars => StoreType' /\ ChainRead'
<1> SUFFICES ASSUME TypeInv, [Next]_vars PROVE StoreType' /\ ChainRead'
  OBVIOUS
<1>0. Empty \in Stores
  BY DEF Empty, Stores
<1>1. ASSUME NEW c \in Certs, Change(c) PROVE StoreType' /\ ChainRead'
  BY <1>1, ChangeLeavesWatcher DEF TypeInv, StoreType, ChainRead, Building
<1>2. CASE ReadChain
  <2>1. PICK c \in todo : IF disk[c][1] = 0
                          THEN todo' = todo \ {c} /\ UNCHANGED chain
                          ELSE chain' = <<c, disk[c][1]>> /\ UNCHANGED todo
    BY <1>2 DEF ReadChain
  <2>2. c \in Certs /\ disk[c][1] \in Serials
    BY DEF TypeInv, StoreType, DiskType, Pairs
  <2>3. chain = <<>> /\ UNCHANGED <<pc, store, served, linked>> /\ Building
    BY <1>2 DEF ReadChain
  <2>4. CASE disk[c][1] = 0
    BY <2>1, <2>3, <2>4 DEF TypeInv, StoreType, ChainRead, Building
  <2>5. CASE disk[c][1] # 0
    BY <2>1, <2>2, <2>3, <2>5 DEF TypeInv, StoreType, ChainRead, Building
  <2> QED
    BY <2>4, <2>5
<1>3. CASE ReadKey
  <2>1. chain \in Certs \X Serials /\ chain[1] \in Certs /\ chain[2] \in Serials \ {0}
    BY <1>3 DEF ReadKey, TypeInv, StoreType, ChainRead
  <2>2. disk[chain[1]][2] \in Serials
    BY <2>1 DEF TypeInv, DiskType, Pairs
  <2>3. (IF disk[chain[1]][2] = 0 THEN None ELSE <<chain[2], disk[chain[1]][2]>>) \in Loaded \cup {None}
    BY <2>1, <2>2 DEF Loaded
  <2>4. store' \in Stores
    BY <1>3, <2>1, <2>3 DEF ReadKey, TypeInv, StoreType, Stores
  <2>5. chain' = <<>> /\ todo' \subseteq Certs /\ UNCHANGED <<pc, served, linked>>
    BY <1>3 DEF ReadKey, TypeInv, StoreType
  <2> QED
    BY <2>4, <2>5 DEF TypeInv, StoreType, ChainRead
<1>4. CASE LoadAll \/ StartWatching \/ WatchFails \/ Receive \/ ReloadCerts
  BY <1>4 DEF LoadAll, StartWatching, WatchFails, Receive, ReloadCerts, Built, TypeInv, StoreType, ChainRead,
              Building
<1>5. CASE Timer
  BY <1>0, <1>5 DEF Timer, TypeInv, StoreType, ChainRead, Building
<1>6. CASE AcmePublish
  BY <1>0, <1>6 DEF AcmePublish, TypeInv, StoreType, ChainRead, Building
<1>7. CASE UNCHANGED vars
  BY <1>7 DEF vars, TypeInv, StoreType, ChainRead, Building
<1> QED
  BY <1>1, <1>2, <1>3, <1>4, <1>5, <1>6, <1>7 DEF Next, WatcherStep

(***************************************************************************)
(* One step keeps the pairs on disk whole.                                 *)
(***************************************************************************)
LEMMA PairsNext == TypeInv /\ [Next]_vars => PairsWhole'
<1> SUFFICES ASSUME TypeInv, [Next]_vars PROVE PairsWhole'
  OBVIOUS
<1>1. ASSUME NEW c \in Certs, Change(c) PROVE PairsWhole'
  <2>1. PICK x, y \in Serials :
             /\ disk' = [disk EXCEPT ![c] = <<x, y>>]
             /\ \/ x = 0 /\ y = disk[c][2] /\ TruncateCert(c)
                \/ x = Latest(c) + 1 /\ y = disk[c][2] /\ RotateCert(c)
                \/ x = disk[c][1] /\ y = 0 /\ TruncateKey(c)
                \/ x = disk[c][1] /\ y = disk[c][1] /\ RotateKey(c)
                \/ x = Latest(c) + 1 /\ y = Latest(c) + 1 /\ SwapLink(c)
    BY <1>1, ChangeEffect DEF TypeInv, DiskType
  <2>2. disk'[c][1] = x /\ disk'[c][2] = y /\ \A d \in Certs \ {c} : disk'[d] = disk[d]
    BY <2>1 DEF TypeInv, DiskType
  <2>3. Latest(c) + 1 # 0
    BY ConstantTypes DEF Latest, TypeInv, DiskType, Pairs, Serials
  <2>4. c \notin writing' => x # 0
    BY <2>1, <2>3 DEF TruncateCert, RotateCert, TruncateKey, RotateKey, SwapLink
  <2>5. writing' \cap linked' = {}
    BY <1>1 DEF Change, TruncateCert, RotateCert, TruncateKey, RotateKey, SwapLink, watcher, TypeInv, PairsWhole
  <2>6. /\ c \notin writing' => x = y
        /\ Certs \ writing' \subseteq (Certs \ writing) \cup {c}
    BY <2>1 DEF TruncateCert, RotateCert, TruncateKey, RotateKey, SwapLink
  <2> QED
    BY <2>2, <2>4, <2>5, <2>6 DEF TypeInv, PairsWhole
<1>2. CASE WatcherStep \/ WatchFails \/ AcmePublish \/ UNCHANGED vars
  BY <1>2, WatcherLeavesDisk DEF TypeInv, PairsWhole
<1> QED
  BY <1>1, <1>2 DEF Next

(***************************************************************************)
(* file_watcher.rs: every variable keeps its type; in particular a store   *)
(* never holds an entry of which a file could not be read.                 *)
(***************************************************************************)
THEOREM TypeCorrect == Spec => []TypeOK
<1>1. Init => TypeInv
  BY TypeInit
<1>2. TypeInv /\ [Next]_vars => TypeInv'
  BY DiskTypeNext, FlagTypeNext, StoreTypeNext, PairsNext DEF TypeInv
<1>3. TypeInv => TypeOK
  BY DEF TypeInv, DiskType, FlagType, StoreType, TypeOK
<1> QED
  BY <1>1, <1>2, <1>3, PTL DEF Spec

(***************************************************************************)
(* One step keeps the start quiet, if files do not change during it.       *)
(***************************************************************************)
LEMMA BootNext == ASSUME ChangesAtBoot = FALSE PROVE Inv /\ [Next]_vars => BootQuiet'
  BY DEF Inv, TypeInv, StoreType, BootQuiet, Next, Change, TruncateCert, RotateCert, TruncateKey, RotateKey, SwapLink,
         watcher, WatcherStep, ReadChain, ReadKey, LoadAll, StartWatching, WatchFails, Receive, Timer, ReloadCerts, AcmePublish,
         vars, MayChange, Booting, Emit, Watching, Built, Building

(***************************************************************************)
(* A change of a file that is not behind a link is announced: an entry     *)
(* that is settled after it was so before, and has not been changed.       *)
(***************************************************************************)
LEMMA ChangeUnsettles ==
    ASSUME ChangesAtBoot = FALSE, Inv, NEW c \in Certs, Change(c), NEW d \in Certs, Settled(d)'
    PROVE  Settled(d) /\ disk'[d] = disk[d]
<1>1. SwapLink(c)
  <2>1. "file" \notin events'
    BY DEF Settled
  <2>2. Watching
    BY ChangeLeavesWatcher DEF Settled, Change, TruncateCert, RotateCert, TruncateKey, RotateKey, SwapLink, MayChange, Booting, Watching, Inv,
           TypeInv, StoreType
  <2> QED
    BY <2>1, <2>2 DEF Change, TruncateCert, RotateCert, TruncateKey, RotateKey, Emit
<1>2. d # c /\ linked' = linked
  BY <1>1 DEF SwapLink, Settled, watcher
<1>3. disk'[d] = disk[d] /\ UNCHANGED <<writing, armed>> /\ events \subseteq events'
  BY <1>1, <1>2 DEF SwapLink, Inv, TypeInv, DiskType, Emit, watcher
<1> QED
  BY <1>2, <1>3, ChangeLeavesWatcher DEF Settled

(***************************************************************************)
(* One step keeps the store being built in line with the disk.             *)
(***************************************************************************)
LEMMA BuiltNext == ASSUME ChangesAtBoot = FALSE PROVE Inv /\ [Next]_vars => BuiltSoFar'
<1> SUFFICES ASSUME Inv, [Next]_vars, Building', NEW d \in Certs, Settled(d)'
             PROVE  IF d \in todo' THEN chain' # <<>> /\ chain'[1] = d => chain'[2] = disk'[d][1]
                    ELSE store'[d] = disk'[d]
  BY DEF BuiltSoFar
<1>1. ASSUME NEW c \in Certs, Change(c)
      PROVE  IF d \in todo' THEN chain' # <<>> /\ chain'[1] = d => chain'[2] = disk'[d][1]
             ELSE store'[d] = disk'[d]
  BY <1>1, ChangeUnsettles, ChangeLeavesWatcher DEF Inv, TypeInv, BuiltSoFar, Building
<1>2. CASE ReadChain
  <2>1. PICK c \in todo : IF disk[c][1] = 0
                          THEN todo' = todo \ {c} /\ UNCHANGED chain
                          ELSE chain' = <<c, disk[c][1]>> /\ UNCHANGED todo
    BY <1>2 DEF ReadChain
  <2>2. /\ UNCHANGED <<pc, store, disk, writing, events, armed, linked>>
        /\ Building /\ chain = <<>>
    BY <1>2 DEF ReadChain
  <2>3. Settled(d) /\ disk[d][1] # 0
    BY <2>2 DEF Settled, Inv, TypeInv, PairsWhole
  <2>4. CASE disk[c][1] = 0
    BY <2>1, <2>2, <2>3, <2>4 DEF Inv, TypeInv, BuiltSoFar
  <2>5. CASE disk[c][1] # 0
    BY <2>1, <2>2, <2>3, <2>5 DEF Inv, TypeInv, BuiltSoFar
  <2> QED
    BY <2>4, <2>5
<1>3. CASE ReadKey
  <2>1. chain \in Certs \X Serials /\ chain[1] \in todo /\ chain[1] \in Certs /\ Building
    BY <1>3 DEF ReadKey, Inv, TypeInv, StoreType, ChainRead
  <2>2. /\ store' = [store EXCEPT ![chain[1]] = IF disk[chain[1]][2] = 0 THEN None
                                                 ELSE <<chain[2], disk[chain[1]][2]>>]
        /\ todo' = todo \ {chain[1]} /\ chain' = <<>>
        /\ UNCHANGED <<disk, writing, events, armed, linked, pc>>
    BY <1>3 DEF ReadKey
  <2>3. Settled(d)
    BY <2>2 DEF Settled
  <2>4. CASE d = chain[1]
    <3>1. chain[2] = disk[d][1] /\ disk[d][2] # 0 /\ disk[d] = <<disk[d][1], disk[d][2]>>
      BY <1>3, <2>1, <2>3, <2>4 DEF ReadKey, Inv, TypeInv, BuiltSoFar, PairsWhole, DiskType, Pairs, Settled
    <3>2. store'[d] = <<chain[2], disk[d][2]>>
      BY <2>1, <2>2, <2>4, <3>1 DEF Inv, TypeInv, StoreType, Stores
    <3> QED
      BY <2>2, <2>4, <3>1, <3>2
  <2>5. CASE d # chain[1]
    <3>1. store'[d] = store[d]
      BY <2>1, <2>2, <2>5 DEF Inv, TypeInv, StoreType, Stores
    <3> QED
      BY <2>1, <2>2, <2>3, <2>5, <3>1 DEF Inv, TypeInv, BuiltSoFar
  <2> QED
    BY <2>4, <2>5
<1>4. CASE Timer
  BY <1>4 DEF Timer, Inv, TypeInv, ChainRead, Building
<1>5. CASE AcmePublish \/ UNCHANGED vars
  BY <1>5 DEF AcmePublish, vars, Inv, TypeInv, BuiltSoFar, Building, Settled
<1>6. (\E c \in Certs : Change(c)) \/ ReadChain \/ ReadKey \/ Timer \/ AcmePublish \/ UNCHANGED vars
  BY DEF Next, WatcherStep, LoadAll, StartWatching, WatchFails, Receive, ReloadCerts, Building
<1> QED
  BY <1>1, <1>2, <1>3, <1>4, <1>5, <1>6

(***************************************************************************)
(* One step keeps what is served in line with the disk.                    *)
(***************************************************************************)
LEMMA ServedNext == ASSUME ChangesAtBoot = FALSE PROVE Inv /\ [Next]_vars => ServedCurrent'
<1> SUFFICES ASSUME Inv, [Next]_vars, pc' \in {"boot", "watch"}, ~ acme', NEW d \in Certs, Settled(d)'
             PROVE  served'[d] = disk'[d]
  BY DEF ServedCurrent
<1>1. ASSUME NEW c \in Certs, Change(c) PROVE served'[d] = disk'[d]
  BY <1>1, ChangeUnsettles, ChangeLeavesWatcher DEF Inv, TypeInv, ServedCurrent
<1>2. CASE LoadAll \/ ReloadCerts
  <2>1. Built /\ UNCHANGED <<disk, writing, events, armed, linked>>
    BY <1>2 DEF LoadAll, ReloadCerts
  <2>2. store[d] = disk[d]
    BY <2>1 DEF Built, Inv, TypeInv, BuiltSoFar, Settled, Building
  <2>3. store # Empty
    BY <2>2, ConstantTypes DEF Empty, Inv, TypeInv, DiskType
  <2> QED
    BY <1>2, <2>1, <2>2, <2>3 DEF LoadAll, ReloadCerts
<1>3. CASE StartWatching
  BY <1>3 DEF StartWatching, Inv, TypeInv, ServedCurrent, Settled
<1>4. CASE Receive
  <2>1. PICK e \in events : events' = events \ {e} /\ armed' = (armed \/ e = "file")
    BY <1>4 DEF Receive
  <2>2. Settled(d)
    BY <1>4, <2>1 DEF Receive, Settled
  <2> QED
    BY <1>4, <2>2 DEF Receive, Inv, TypeInv, ServedCurrent
<1>5. CASE AcmePublish \/ UNCHANGED vars
  BY <1>5 DEF AcmePublish, vars, Inv, TypeInv, ServedCurrent, Settled
<1>6. (\E c \in Certs : Change(c)) \/ LoadAll \/ ReloadCerts \/ StartWatching \/ Receive \/ AcmePublish
      \/ UNCHANGED vars
  BY DEF Next, WatcherStep, WatchFails, ReadChain, ReadKey, Timer, Building
<1> QED
  BY <1>1, <1>2, <1>3, <1>4, <1>5, <1>6

(***************************************************************************)
(* file_watcher.rs: when the watcher has nothing to do and no rotation is  *)
(* under way, what is served is what is on disk, for every entry whose     *)
(* files are written and whatever the order of writes, events, the timer   *)
(* and the reading of the two files, unless ACME's store has taken its     *)
(* place.  Changes before the directories are watched are excepted: the    *)
(* files are read first and nothing looks at them again.                   *)
(***************************************************************************)
THEOREM QuietIsCurrent ==
    ASSUME ChangesAtBoot = FALSE
    PROVE  Spec => []QuietMeansCurrent
<1>1. Init => BootQuiet
  BY DEF Init, BootQuiet
<1>2. Init => BuiltSoFar /\ ServedCurrent
  BY DEF Init, BuiltSoFar, ServedCurrent, Building
<1>3. Init => Inv
  BY <1>1, <1>2, TypeInit DEF Inv
<1>4. Inv /\ [Next]_vars => Inv'
  BY DiskTypeNext, FlagTypeNext, StoreTypeNext, PairsNext, BootNext, BuiltNext, ServedNext DEF Inv, TypeInv
<1>5. Inv => QuietMeansCurrent
  BY DEF Inv, TypeInv, ServedCurrent, Settled, QuietMeansCurrent
<1> QED
  BY <1>3, <1>4, <1>5, PTL DEF Spec
=============================================================================
