------------------------------ MODULE AcmeProofs ------------------------------
(***************************************************************************)
(* Proofs about AcmeRenewal, for any number of certificates, any lifetime  *)
(* and renewal window, any kinds and number of failures; and, in the       *)
(* second part, about AcmeOrder, the order that Obtain stands for.         *)
(***************************************************************************)
EXTENDS AcmeRenewal, AcmeOrder, FiniteSetTheorems, TLAPS

(***************************************************************************)
(* The types of the constants.                                             *)
(***************************************************************************)
LEMMA ConstantTypes ==
    /\ NumCerts \in Nat \ {0}
    /\ Lifetime \in Nat /\ RenewBefore \in Nat
    /\ MaxTime \in Nat /\ MaxSerial \in Nat /\ MaxFaults \in Nat
  BY AcmeRenewalAssumption

\* One of the three writes of save_cert, by what it changes.
SaveOf(f, from, to) ==
    /\ pc = from
    /\ pc' = to
    /\ disk' = [disk EXCEPT ![idx] = [disk[idx] EXCEPT ![f] = last]]
    /\ torn' = [torn EXCEPT ![idx] = (to # "insert")]
    /\ UNCHANGED <<served, expiry, last, now, starting, idx, built, renewed, faults, lost>>

(***************************************************************************)
(* save_cert is the write of cert.pem, then of key.pem, then of meta.json. *)
(***************************************************************************)
LEMMA SaveCases ==
    Save => \/ SaveOf("cert", "save_cert", "save_key")
            \/ SaveOf("key", "save_key", "save_meta")
            \/ SaveOf("meta", "save_meta", "insert")
<1> SUFFICES ASSUME NEW next \in {[file |-> "cert", from |-> "save_cert", to |-> "save_key"],
                                  [file |-> "key",  from |-> "save_key",  to |-> "save_meta"],
                                  [file |-> "meta", from |-> "save_meta", to |-> "insert"]},
                    pc = next.from,
                    disk' = [disk EXCEPT ![idx][next.file] = last],
                    pc' = next.to,
                    torn' = [torn EXCEPT ![idx] = next.to # "insert"],
                    UNCHANGED <<served, expiry, last, now, starting, idx, built, renewed, faults, lost>>
             PROVE  SaveOf(next.file, next.from, next.to)
  BY DEF Save
<1> QED
  BY DEF SaveOf

(***************************************************************************)
(* What one write leaves on disk.                                          *)
(***************************************************************************)
LEMMA SaveEffect ==
    ASSUME TypeOK, NEW f \in Files, NEW from \in Writing, NEW to, SaveOf(f, from, to)
    PROVE  /\ idx \in Certs
           /\ disk' \in [Certs -> [Files -> Serials]]
           /\ disk'[idx][f] = last
           /\ \A g \in Files \ {f} : disk'[idx][g] = disk[idx][g]
           /\ \A c \in Certs \ {idx} : disk'[c] = disk[c] /\ torn'[c] = torn[c]
           /\ torn'[idx] = (to # "insert")
           /\ torn' \in [Certs -> BOOLEAN]
<1>1. idx \in Certs
  BY DEF SaveOf, TypeOK
<1>2. torn' \in [Certs -> BOOLEAN] /\ torn'[idx] = (to # "insert")
      /\ \A c \in Certs \ {idx} : torn'[c] = torn[c]
  BY <1>1 DEF SaveOf, TypeOK
<1> QED
  BY <1>1, <1>2 DEF SaveOf, TypeOK

(***************************************************************************)
(* The type invariant in three parts: the flags, the counters with the     *)
(* place in the program, and the tables.                                   *)
(***************************************************************************)
Flags ==
    /\ starting \in BOOLEAN
    /\ renewed \in BOOLEAN
    /\ lost \in BOOLEAN

Counters ==
    /\ last \in Serials
    /\ now \in 0 .. MaxTime
    /\ pc \in Pcs
    /\ idx \in 1 .. NumCerts + 1
    /\ pc \in Writing \cup {"obtain", "insert", "fallback"} => idx \in Certs
    /\ faults \in 0 .. MaxFaults

Tables ==
    /\ disk \in [Certs -> [Files -> Serials]]
    /\ served \in [Certs -> Entries]
    /\ expiry \in [Serials -> 0 .. MaxTime + Lifetime]
    /\ built \in [Certs -> Entries]
    /\ torn \in [Certs -> BOOLEAN]

(***************************************************************************)
(* One step keeps the flags Boolean.                                       *)
(***************************************************************************)
LEMMA FlagsNext == Flags /\ [Next]_vars => Flags'
  BY Zenon DEF Flags, Next, vars, progress, history, DownTick, Boot, UseStored, NeedNew, Obtain, ObtainFails,
         Save, SaveFails, InsertNew, FallBack, NothingStored, ReadFails, Initialized, PassDone, Wake,
         Crash, BeginPass, InsertAndGoOn, GiveUp

(***************************************************************************)
(* One step keeps the counters within their bounds.                        *)
(***************************************************************************)
LEMMA CountersNext == Counters /\ [Next]_vars => Counters'
<1> SUFFICES ASSUME Counters, [Next]_vars PROVE Counters'
  OBVIOUS
<1> USE ConstantTypes DEF Counters, Certs, Serials, Pcs, Writing
<1>1. CASE DownTick \/ Boot \/ Wake \/ Initialized
  BY <1>1 DEF DownTick, Boot, Wake, Initialized, BeginPass, progress, history
<1>2. CASE UseStored \/ NeedNew \/ Obtain \/ InsertNew \/ FallBack
  BY <1>2 DEF UseStored, NeedNew, Obtain, InsertNew, FallBack, InsertAndGoOn, history
<1>3. CASE ObtainFails \/ SaveFails \/ Crash
  BY <1>3 DEF ObtainFails, SaveFails, Crash, Fault, history
<1>4. CASE Save
  BY <1>4, SaveCases DEF SaveOf
<1>5. CASE NothingStored \/ ReadFails
  BY <1>5 DEF NothingStored, ReadFails, GiveUp, Fault
<1>6. CASE PassDone
  BY <1>6 DEF PassDone
<1>7. CASE UNCHANGED vars
  BY <1>7 DEF vars, progress, history
<1> QED
  BY <1>1, <1>2, <1>3, <1>4, <1>5, <1>6, <1>7 DEF Next

(***************************************************************************)
(* What load_stored_cert reads is an entry of the store.                   *)
(***************************************************************************)
LEMMA LoadedType == ASSUME TypeOK, NEW c \in Certs PROVE Loaded(c) \in Entries
  BY DEF TypeOK, Loaded, Entries, Files

(***************************************************************************)
(* One step keeps the tables in their types.                               *)
(***************************************************************************)
LEMMA TablesNext == TypeOK /\ [Next]_vars => Tables'
<1> SUFFICES ASSUME TypeOK, Tables, Counters, [Next]_vars PROVE Tables'
  BY DEF TypeOK, Tables, Counters
<1>0. NoEntry \in Entries
  BY ConstantTypes DEF NoEntry, Entries, Serials
<1> USE <1>0 DEF Tables
<1>1. CASE DownTick \/ Boot \/ Wake \/ Initialized \/ Crash
  BY <1>1 DEF DownTick, Boot, Wake, Initialized, Crash, BeginPass, progress, history
<1>2. CASE UseStored \/ FallBack
  <2>1. idx \in Certs
    BY <1>2 DEF UseStored, FallBack, Counters
  <2> QED
    BY <1>2, <2>1, LoadedType DEF UseStored, FallBack, InsertAndGoOn, history
<1>3. CASE Obtain
  <2>1. last + 1 \in Serials /\ now + Lifetime \in 0 .. MaxTime + Lifetime
    BY <1>3, ConstantTypes DEF Obtain, Counters, Serials
  <2> QED
    BY <1>3, <2>1 DEF Obtain, history
<1>4. CASE Save
  <2>1. ASSUME NEW f \in Files, NEW from \in Writing, NEW to, SaveOf(f, from, to)
        PROVE  Tables'
    BY <2>1, SaveEffect DEF SaveOf
  <2> QED
    BY <1>4, <2>1, SaveCases DEF Files, Writing
<1>5. CASE InsertNew
  <2>1. idx \in Certs /\ [cert |-> last, key |-> last] \in Entries
    BY <1>5 DEF InsertNew, Counters, Entries
  <2> QED
    BY <1>5, <2>1 DEF InsertNew, InsertAndGoOn, history
<1>6. CASE NeedNew \/ ObtainFails \/ SaveFails \/ NothingStored \/ ReadFails
  BY <1>6 DEF NeedNew, ObtainFails, SaveFails, NothingStored, ReadFails, GiveUp, history
<1>7. CASE PassDone
  BY <1>7 DEF PassDone
<1>8. CASE UNCHANGED vars
  BY <1>8 DEF vars, progress, history
<1> QED
  BY <1>1, <1>2, <1>3, <1>4, <1>5, <1>6, <1>7, <1>8 DEF Next

(***************************************************************************)
(* One step keeps every variable in its type.                              *)
(***************************************************************************)
LEMMA TypeNext == TypeOK /\ [Next]_vars => TypeOK'
  BY FlagsNext, CountersNext, TablesNext DEF TypeOK, Flags, Counters, Tables

-----------------------------------------------------------------------------
(***************************************************************************)
(* The inductive invariant, first for the disk.  meta.json is missing or   *)
(* asks for renewal: what needs_renewal sees however a save is cut short.  *)
(***************************************************************************)
MetaOld(c) == disk[c]["meta"] = 0 \/ expiry[disk[c]["meta"]] < now + RenewBefore

(***************************************************************************)
(* No file is newer than the last certificate issued; meta.json is the     *)
(* last to come; a torn set has an old meta.json, and one that is not torn *)
(* is of one serial.                                                       *)
(***************************************************************************)
DiskInv ==
    \A c \in Certs :
        /\ \A f \in Files : disk[c][f] <= last
        /\ disk[c]["meta"] # 0 => disk[c]["cert"] # 0 /\ disk[c]["key"] # 0
        /\ torn[c] => MetaOld(c)
        /\ ~ torn[c] => disk[c]["cert"] = disk[c]["key"] /\ disk[c]["key"] = disk[c]["meta"]

(***************************************************************************)
(* Until the last write of save_cert the old meta.json stays; each write   *)
(* leaves the new serial behind.                                           *)
(***************************************************************************)
SaveInv ==
    /\ pc \in Writing \cup {"obtain"} => MetaOld(idx)
    /\ pc \in Writing \cup {"insert"} => last # 0
    /\ pc \in {"save_key", "save_meta", "insert"} => disk[idx]["cert"] = last
    /\ pc \in {"save_meta", "insert"} => disk[idx]["key"] = last
    /\ pc = "insert" => disk[idx]["meta"] = last

(***************************************************************************)
(* Then for the two stores.  While a pass is under way: what it has built  *)
(* so far is what is on disk, but for entries it had to leave out; and as  *)
(* long as it has renewed nothing, what is served is what is on disk.      *)
(***************************************************************************)
InPass == pc \notin {"down", "sleep"}

BuiltSoFar ==
    InPass => \A c \in Certs :
        IF c < idx
        THEN \/ built[c] = Loaded(c) /\ built[c].cert # 0
             \/ built[c] = NoEntry /\ lost /\ ~ starting
        ELSE built[c] = NoEntry

ServedUntilRenewed ==
    InPass /\ ~ starting /\ ~ lost /\ ~ renewed =>
        \A c \in Certs : ~ torn[c] /\ ~ (pc = "insert" /\ c = idx) => served[c] = Loaded(c)

Inv ==
    /\ TypeOK
    /\ DiskInv
    /\ SaveInv
    /\ BuiltSoFar
    /\ ServedUntilRenewed
    /\ AllDomainsServed
    /\ SleepServesDisk

(***************************************************************************)
(* The steps that leave the disk, its history and the certificates issued  *)
(* as they are; at most the clock moves.                                   *)
(***************************************************************************)
DiskStep == UNCHANGED <<disk, torn, expiry, last>> /\ now' \in {now, now + 1}

(***************************************************************************)
(* Every step but the issue of a certificate and a write is such a step.   *)
(***************************************************************************)
LEMMA DiskSteps == ASSUME [Next]_vars PROVE Obtain \/ Save \/ DiskStep
  BY DEF DiskStep, Next, vars, progress, history, DownTick, Boot, UseStored, NeedNew, ObtainFails,
         SaveFails, InsertNew, FallBack, NothingStored, ReadFails, Initialized, PassDone, Wake,
         Crash, GiveUp

(***************************************************************************)
(* Numbers of the state, for use where the types are not expanded.         *)
(***************************************************************************)
LEMMA Numbers ==
    ASSUME TypeOK
    PROVE  /\ now \in Nat /\ last \in Nat /\ idx \in Nat /\ RenewBefore \in Nat
           /\ \A s \in Serials : expiry[s] \in Nat
           /\ \A c \in Certs, f \in Files : disk[c][f] \in Serials /\ disk[c][f] \in Nat
           /\ Certs \subseteq Nat
  BY ConstantTypes DEF TypeOK, Serials, Certs

(***************************************************************************)
(* A meta.json that asks for renewal goes on asking while it stays: the    *)
(* clock only moves on, and the expiry of an issued certificate is fixed.  *)
(***************************************************************************)
LEMMA MetaStaysOld ==
    ASSUME TypeOK, DiskInv, NEW c \in Certs, MetaOld(c), disk'[c]["meta"] = disk[c]["meta"],
           \/ UNCHANGED expiry /\ now' \in {now, now + 1}
           \/ UNCHANGED now /\ last + 1 \in Serials /\ expiry' = [expiry EXCEPT ![last + 1] = now + Lifetime]
    PROVE  MetaOld(c)'
<1>1. disk[c]["meta"] \in Serials /\ disk[c]["meta"] <= last /\ disk[c]["meta"] \in Nat
  BY Numbers DEF DiskInv, Files
<1>2. expiry \in [Serials -> 0 .. MaxTime + Lifetime]
  BY DEF TypeOK
<1>3. CASE UNCHANGED now /\ last + 1 \in Serials /\ expiry' = [expiry EXCEPT ![last + 1] = now + Lifetime]
  <2>1. disk[c]["meta"] # last + 1
    BY <1>1, Numbers
  <2>2. expiry'[disk[c]["meta"]] = expiry[disk[c]["meta"]]
    BY <1>1, <1>2, <1>3, <2>1
  <2> QED
    BY <1>3, <2>2 DEF MetaOld
<1>4. CASE UNCHANGED expiry /\ now' \in {now, now + 1}
  <2>1. expiry[disk[c]["meta"]] \in Nat
    BY <1>1, Numbers
  <2> QED
    BY <1>4, <2>1, Numbers DEF MetaOld
<1> QED
  BY <1>3, <1>4

(***************************************************************************)
(* If needs_renewal asks for it, meta.json is missing or old.              *)
(***************************************************************************)
LEMMA NeedsMeansOld ==
    ASSUME DiskInv, NEW c \in Certs
    PROVE  NeedsRenewal(c) <=> MetaOld(c)
  BY DEF DiskInv, NeedsRenewal, Stored, MetaOld, Files

(***************************************************************************)
(* One step keeps the invariant of the disk.                               *)
(***************************************************************************)
LEMMA DiskNext == TypeOK /\ DiskInv /\ SaveInv /\ [Next]_vars => DiskInv'
<1> SUFFICES ASSUME TypeOK, DiskInv, SaveInv, [Next]_vars PROVE DiskInv'
  OBVIOUS
<1>1. CASE DiskStep
  <2>1. \A c \in Certs : MetaOld(c) => MetaOld(c)'
    BY <1>1, MetaStaysOld DEF DiskStep
  <2> QED
    BY <1>1, <2>1 DEF DiskStep, DiskInv
<1>2. CASE Obtain
  <2>0. last + 1 \in Serials /\ UNCHANGED <<disk, torn, now>> /\ last' = last + 1
        /\ expiry' = [expiry EXCEPT ![last + 1] = now + Lifetime]
    BY <1>2, ConstantTypes DEF Obtain, TypeOK, Serials, history
  <2>1. \A c \in Certs : MetaOld(c) => MetaOld(c)'
    BY <2>0, MetaStaysOld
  <2>2. \A c \in Certs, f \in Files : disk[c][f] <= last => disk[c][f] <= last + 1
    BY Numbers
  <2> QED
    BY <2>0, <2>1, <2>2 DEF DiskInv
<1>3. ASSUME NEW f \in Files, NEW from \in Writing, NEW to, SaveOf(f, from, to),
             <<f, from, to>> \in {<<"cert", "save_cert", "save_key">>, <<"key", "save_key", "save_meta">>,
                                 <<"meta", "save_meta", "insert">>}
      PROVE  DiskInv'
  <2>0. /\ idx \in Certs
        /\ disk'[idx][f] = last
        /\ \A g \in Files \ {f} : disk'[idx][g] = disk[idx][g]
        /\ \A c \in Certs \ {idx} : disk'[c] = disk[c] /\ torn'[c] = torn[c]
        /\ torn'[idx] = (to # "insert")
    BY <1>3, SaveEffect
  <2>1. last' = last /\ expiry' = expiry /\ now' = now /\ pc = from /\ idx' = idx
    BY <1>3 DEF SaveOf
  <2>2. last # 0 /\ MetaOld(idx) /\ last \in Nat
    BY <1>3, <2>1, Numbers DEF SaveInv
  <2>3. ASSUME NEW c \in Certs \ {idx}
        PROVE  /\ \A g \in Files : disk'[c][g] <= last'
               /\ disk'[c]["meta"] # 0 => disk'[c]["cert"] # 0 /\ disk'[c]["key"] # 0
               /\ torn'[c] => MetaOld(c)'
               /\ ~ torn'[c] => disk'[c]["cert"] = disk'[c]["key"] /\ disk'[c]["key"] = disk'[c]["meta"]
    BY <2>0, <2>1 DEF DiskInv, MetaOld
  <2>4. /\ \A g \in Files : disk'[idx][g] <= last'
        /\ disk'[idx]["meta"] # 0 => disk'[idx]["cert"] # 0 /\ disk'[idx]["key"] # 0
    BY <1>3, <2>0, <2>1, <2>2 DEF DiskInv, Files, SaveInv
  <2>5. torn'[idx] => MetaOld(idx)'
    BY <1>3, <2>0, <2>1, <2>2 DEF MetaOld, Files
  <2>6. ~ torn'[idx] => disk'[idx]["cert"] = disk'[idx]["key"] /\ disk'[idx]["key"] = disk'[idx]["meta"]
    BY <1>3, <2>0, <2>1 DEF SaveInv, Files
  <2> QED
    BY <2>1, <2>3, <2>4, <2>5, <2>6 DEF DiskInv, MetaOld
<1> QED
  BY <1>1, <1>2, <1>3, DiskSteps, SaveCases DEF Files, Writing

(***************************************************************************)
(* One step keeps what save_cert has done so far.                          *)
(***************************************************************************)
LEMMA SaveNext == TypeOK /\ DiskInv /\ SaveInv /\ [Next]_vars => SaveInv'
<1> SUFFICES ASSUME TypeOK, DiskInv, SaveInv, [Next]_vars PROVE SaveInv'
  OBVIOUS
<1>1. CASE Obtain
  <2>0. last + 1 \in Serials /\ UNCHANGED <<disk, torn, now, idx>> /\ last' = last + 1 /\ last' # 0
        /\ expiry' = [expiry EXCEPT ![last + 1] = now + Lifetime] /\ pc = "obtain" /\ pc' = "save_cert"
        /\ idx \in Certs
    BY <1>1, ConstantTypes DEF Obtain, TypeOK, Serials, history
  <2>1. MetaOld(idx)'
    BY <2>0, MetaStaysOld DEF SaveInv
  <2> QED
    BY <2>0, <2>1 DEF SaveInv, Writing
<1>2. ASSUME NEW f \in Files, NEW from \in Writing, NEW to, SaveOf(f, from, to),
             <<f, from, to>> \in {<<"cert", "save_cert", "save_key">>, <<"key", "save_key", "save_meta">>,
                                 <<"meta", "save_meta", "insert">>}
      PROVE  SaveInv'
  <2>0. /\ idx \in Certs
        /\ disk'[idx][f] = last
        /\ \A g \in Files \ {f} : disk'[idx][g] = disk[idx][g]
    BY <1>2, SaveEffect
  <2>1. last' = last /\ expiry' = expiry /\ now' = now /\ pc = from /\ pc' = to /\ idx' = idx
    BY <1>2 DEF SaveOf
  <2> QED
    BY <1>2, <2>0, <2>1 DEF SaveInv, Writing, Files, MetaOld
<1>3. CASE NeedNew
  <2>1. DiskStep /\ pc' = "obtain" /\ idx' = idx /\ idx \in Certs /\ NeedsRenewal(idx)
    BY <1>3 DEF NeedNew, DiskStep, history
  <2>2. MetaOld(idx)'
    BY <2>1, NeedsMeansOld, MetaStaysOld DEF DiskStep
  <2> QED
    BY <2>1, <2>2 DEF SaveInv, Writing
<1>4. ASSUME DiskStep, pc' \notin Writing \cup {"obtain", "insert"} PROVE SaveInv'
  BY <1>4 DEF SaveInv, Writing
<1>5. ASSUME UNCHANGED vars PROVE SaveInv'
  BY <1>5 DEF vars, progress, history, SaveInv, MetaOld
<1>6. ASSUME Next, ~ Obtain, ~ Save, ~ NeedNew
      PROVE  pc' \notin Writing \cup {"obtain", "insert"}
             \/ UNCHANGED <<pc, idx, disk, torn, expiry, last, now>>
  BY <1>6 DEF Next, progress, history, DownTick, Boot, UseStored, ObtainFails, Writing,
         SaveFails, InsertNew, FallBack, NothingStored, ReadFails, Initialized, PassDone, Wake,
         Crash, BeginPass, InsertAndGoOn, GiveUp
<1>7. ASSUME UNCHANGED <<pc, idx, disk, torn, expiry, last, now>> PROVE SaveInv'
  BY <1>7 DEF SaveInv, MetaOld
<1> QED
  BY <1>1, <1>2, <1>3, <1>4, <1>5, <1>6, <1>7, DiskSteps, SaveCases DEF Files, Writing

(***************************************************************************)
(* What a step of a pass may do to the store being built: start it anew,   *)
(* add the entry at hand, leave that entry out, or go on with it.          *)
(***************************************************************************)
BuildsAnew   == idx' = 1 /\ built' = [c \in Certs |-> NoEntry]
BuildsEntry  ==
    /\ idx \in Certs /\ idx' = idx + 1 /\ UNCHANGED <<disk, lost, starting>> /\ InPass
    /\ built' = [built EXCEPT ![idx] = Loaded(idx)] /\ Loaded(idx).cert # 0
LeavesOut    ==
    /\ idx \in Certs /\ idx' = idx + 1 /\ UNCHANGED <<disk, built, starting>> /\ InPass
    /\ lost' /\ ~ starting
GoesOn       ==
    /\ InPass /\ UNCHANGED <<idx, built, lost, starting>>
    /\ \A c \in Certs \ {idx} : disk'[c] = disk[c]

(***************************************************************************)
(* Every step of a pass is one of these, or ends the pass.                 *)
(***************************************************************************)
LEMMA BuildSteps ==
    ASSUME TypeOK, SaveInv, [Next]_vars
    PROVE  BuildsAnew \/ BuildsEntry \/ LeavesOut \/ GoesOn \/ ~ InPass' \/ UNCHANGED vars
<1>1. CASE Boot \/ Wake \/ Initialized
  BY <1>1 DEF Boot, Wake, Initialized, BeginPass, BuildsAnew
<1>2. CASE UseStored \/ FallBack
  <2>1. idx \in Certs /\ Stored(idx) /\ InPass
    BY <1>2 DEF UseStored, FallBack, NeedsRenewal, TypeOK, InPass
  <2>2. Loaded(idx).cert # 0
    BY <2>1 DEF Stored, Loaded, Files
  <2> QED
    BY <1>2, <2>1, <2>2 DEF UseStored, FallBack, InsertAndGoOn, BuildsEntry, history
<1>3. CASE InsertNew
  <2>1. idx \in Certs /\ InPass /\ last # 0 /\ Loaded(idx) = [cert |-> last, key |-> last]
    BY <1>3 DEF InsertNew, TypeOK, InPass, SaveInv, Loaded, Writing
  <2> QED
    BY <1>3, <2>1 DEF InsertNew, InsertAndGoOn, BuildsEntry, history
<1>4. CASE NeedNew \/ Obtain \/ ObtainFails \/ SaveFails
  BY <1>4 DEF NeedNew, Obtain, ObtainFails, SaveFails, GoesOn, InPass, Writing, history
<1>5. ASSUME NEW f \in Files, NEW from \in Writing, NEW to, SaveOf(f, from, to) PROVE GoesOn
  <2>1. \A c \in Certs \ {idx} : disk'[c] = disk[c]
    BY <1>5, SaveEffect
  <2> QED
    BY <1>5, <2>1 DEF SaveOf, GoesOn, InPass, Writing
<1>6. CASE NothingStored
  <2>1. CASE starting
    BY <1>6, <2>1 DEF NothingStored, GiveUp, InPass
  <2>2. CASE ~ starting
    BY <1>6, <2>2 DEF NothingStored, GiveUp, LeavesOut, InPass, TypeOK
  <2> QED
    BY <2>1, <2>2
<1>7. CASE DownTick \/ ReadFails \/ PassDone \/ Crash
  BY <1>7 DEF DownTick, ReadFails, PassDone, Crash, GiveUp, InPass, progress
<1> QED
  BY <1>1, <1>2, <1>3, <1>4, <1>5, <1>6, <1>7, SaveCases DEF Next, Files, Writing

(***************************************************************************)
(* One step keeps the store being built in line with the disk.             *)
(***************************************************************************)
LEMMA BuiltNext == TypeOK /\ SaveInv /\ BuiltSoFar /\ [Next]_vars => BuiltSoFar'
<1> SUFFICES ASSUME TypeOK, SaveInv, BuiltSoFar, [Next]_vars, InPass', NEW c \in Certs
             PROVE  IF c < idx'
                    THEN \/ built'[c] = Loaded(c)' /\ built'[c].cert # 0
                         \/ built'[c] = NoEntry /\ lost' /\ ~ starting'
                    ELSE built'[c] = NoEntry
  BY DEF BuiltSoFar
<1>0. c \in Nat /\ c >= 1 /\ idx \in Nat /\ built \in [Certs -> Entries]
  BY ConstantTypes DEF TypeOK, Certs
<1>1. CASE BuildsAnew
  BY <1>0, <1>1 DEF BuildsAnew
<1>2. CASE BuildsEntry
  BY <1>0, <1>2 DEF BuildsEntry, BuiltSoFar, Loaded
<1>3. CASE LeavesOut
  BY <1>0, <1>3 DEF LeavesOut, BuiltSoFar, Loaded
<1>4. CASE GoesOn
  BY <1>0, <1>4 DEF GoesOn, BuiltSoFar, Loaded
<1>5. CASE UNCHANGED vars
  BY <1>5 DEF vars, progress, history, BuiltSoFar, Loaded, InPass
<1> QED
  BY <1>1, <1>2, <1>3, <1>4, <1>5, BuildSteps

(***************************************************************************)
(* A pass that has been through all configurations has built an entry for  *)
(* each, equal to what is on disk, unless it had to leave one out.         *)
(***************************************************************************)
LEMMA BuiltAtEnd ==
    ASSUME TypeOK, BuiltSoFar, pc = "check", idx = NumCerts + 1, NEW c \in Certs
    PROVE  \/ built[c] = Loaded(c) /\ built[c].cert # 0
           \/ built[c] = NoEntry /\ lost /\ ~ starting
<1>1. c < idx
  BY ConstantTypes DEF Certs
<1> QED
  BY <1>1 DEF BuiltSoFar, InPass

(***************************************************************************)
(* One step keeps what is served in line with the disk until the pass has  *)
(* renewed something.                                                      *)
(***************************************************************************)
LEMMA ServedNext ==
    TypeOK /\ DiskInv /\ SaveInv /\ BuiltSoFar /\ ServedUntilRenewed /\ SleepServesDisk /\ [Next]_vars
        => ServedUntilRenewed'
<1> SUFFICES ASSUME TypeOK, DiskInv, SaveInv, BuiltSoFar, ServedUntilRenewed, SleepServesDisk, [Next]_vars,
                    InPass', ~ starting', ~ lost', ~ renewed', NEW c \in Certs, ~ torn'[c],
                    ~ (pc' = "insert" /\ c = idx')
             PROVE  served'[c] = Loaded(c)'
  BY DEF ServedUntilRenewed
<1>1. CASE Initialized
  <2>1. served' = built /\ disk' = disk /\ built[c] = Loaded(c)
    BY <1>1, BuiltAtEnd DEF Initialized
  <2> QED
    BY <2>1 DEF Loaded
<1>2. CASE Wake
  BY <1>2 DEF Wake, history, SleepServesDisk, Loaded
<1>3. CASE UseStored \/ NeedNew \/ Obtain \/ ObtainFails \/ SaveFails \/ FallBack
  <2>1. UNCHANGED <<disk, served, starting, renewed, lost, torn>> /\ InPass /\ pc # "insert"
    BY <1>3 DEF UseStored, NeedNew, Obtain, ObtainFails, SaveFails, FallBack, InPass, Writing, history
  <2> QED
    BY <2>1 DEF ServedUntilRenewed, Loaded
<1>4. ASSUME NEW f \in Files, NEW from \in Writing, NEW to, SaveOf(f, from, to) PROVE served'[c] = Loaded(c)'
  <2>1. c # idx /\ disk'[c] = disk[c] /\ torn'[c] = torn[c]
    BY <1>4, SaveEffect DEF SaveOf
  <2>2. UNCHANGED <<served, starting, renewed, lost>> /\ InPass
    BY <1>4 DEF SaveOf, InPass, Writing
  <2> QED
    BY <2>1, <2>2 DEF ServedUntilRenewed, Loaded
<1>5. CASE Boot \/ InsertNew
  BY <1>5 DEF Boot, InsertNew
<1>6. CASE NothingStored \/ ReadFails
  BY <1>6 DEF NothingStored, ReadFails, GiveUp
<1>7. CASE DownTick \/ PassDone \/ Crash
  BY <1>7 DEF DownTick, PassDone, Crash, InPass, progress
<1>8. CASE UNCHANGED vars
  BY <1>8 DEF vars, progress, history, ServedUntilRenewed, Loaded, InPass
<1> QED
  BY <1>1, <1>2, <1>3, <1>4, <1>5, <1>6, <1>7, <1>8, SaveCases DEF Next, Files, Writing

(***************************************************************************)
(* The end of check_and_renew: unless something was lost, every            *)
(* configuration has an entry served, and the ones whose files are whole   *)
(* are served from disk.                                                   *)
(***************************************************************************)
LEMMA PublishedIsWhole ==
    ASSUME Inv, PassDone, ~ lost', NEW c \in Certs
    PROVE  served'[c].cert # 0 /\ (~ torn'[c] => served'[c] = Loaded(c)')
<1>0. pc = "check" /\ idx = NumCerts + 1 /\ ~ starting /\ UNCHANGED <<disk, torn>>
  BY DEF PassDone
<1>1. \A d \in Certs : \/ built[d] = Loaded(d) /\ built[d].cert # 0
                       \/ built[d] = NoEntry /\ lost /\ ~ starting
  BY <1>0, BuiltAtEnd DEF Inv
<1>2. CASE served' = built /\ lost' = (lost /\ \E d \in Certs : built[d] = NoEntry)
  BY <1>0, <1>1, <1>2 DEF Loaded
<1>3. CASE UNCHANGED <<served, lost>> /\ ~ renewed
  BY <1>0, <1>3 DEF Inv, ServedUntilRenewed, AllDomainsServed, Running, InPass, Loaded
<1>4. CASE UNCHANGED <<served, lost>> /\ \A d \in Certs : built[d] = NoEntry
  <2>1. built[c].cert # 0 /\ built[c] = NoEntry
    BY <1>1, <1>4
  <2> QED
    BY <2>1 DEF NoEntry
<1> QED
  BY <1>2, <1>3, <1>4 DEF PassDone

(***************************************************************************)
(* One step keeps every domain served.                                     *)
(***************************************************************************)
LEMMA AllServedNext == Inv /\ [Next]_vars => AllDomainsServed'
<1> SUFFICES ASSUME Inv, [Next]_vars, Running', ~ lost', NEW c \in Certs
             PROVE  served'[c].cert # 0
  BY DEF AllDomainsServed
<1>1. CASE Initialized
  <2>1. served' = built /\ starting /\ built[c].cert # 0
    BY <1>1, BuiltAtEnd DEF Initialized, Inv
  <2> QED
    BY <2>1
<1>2. CASE PassDone
  BY <1>2, PublishedIsWhole
<1>3. CASE Save
  BY <1>3, SaveCases DEF SaveOf, Writing, Inv, AllDomainsServed, Running
<1>4. CASE UseStored \/ NeedNew \/ Obtain \/ ObtainFails \/ SaveFails \/ FallBack \/ InsertNew \/ Wake
  BY <1>4 DEF UseStored, NeedNew, Obtain, ObtainFails, SaveFails, FallBack, InsertNew, Wake, Writing, history,
              Inv, AllDomainsServed, Running
<1>5. CASE NothingStored \/ ReadFails
  BY <1>5 DEF NothingStored, ReadFails, GiveUp
<1>6. CASE DownTick \/ Boot \/ Crash
  BY <1>6 DEF DownTick, Boot, Crash, Running, progress
<1>7. CASE UNCHANGED vars
  BY <1>7 DEF vars, progress, history, Inv, AllDomainsServed, Running
<1> QED
  BY <1>1, <1>2, <1>3, <1>4, <1>5, <1>6, <1>7 DEF Next

(***************************************************************************)
(* One step keeps a sleeping provider serving what is on disk.             *)
(***************************************************************************)
LEMMA SleepNext == Inv /\ [Next]_vars => SleepServesDisk'
<1> SUFFICES ASSUME Inv, [Next]_vars, pc' = "sleep", ~ lost', NEW c \in Certs, ~ torn'[c]
             PROVE  served'[c] = Loaded(c)'
  BY DEF SleepServesDisk
<1>1. CASE PassDone
  BY <1>1, PublishedIsWhole
<1>2. CASE NothingStored \/ ReadFails
  BY <1>2 DEF NothingStored, ReadFails, GiveUp
<1>3. CASE UNCHANGED vars
  BY <1>3 DEF vars, progress, history, Inv, SleepServesDisk, Loaded
<1>4. CASE Save
  BY <1>4, SaveCases DEF SaveOf
<1>5. CASE DownTick \/ Boot \/ UseStored \/ NeedNew \/ Obtain \/ ObtainFails \/ SaveFails \/ FallBack
           \/ InsertNew \/ Wake \/ Initialized \/ Crash
  BY <1>5 DEF DownTick, Boot, UseStored, NeedNew, Obtain, ObtainFails, SaveFails, FallBack, InsertNew, Wake,
              Initialized, Crash, BeginPass, InsertAndGoOn, progress
<1> QED
  BY <1>1, <1>2, <1>3, <1>4, <1>5 DEF Next

(***************************************************************************)
(* The invariant holds in every state.                                     *)
(***************************************************************************)
LEMMA Invariant == Spec => []Inv
<1>1. Init => TypeOK
  <2>1. Init => Flags
    BY Zenon DEF Init, Flags
  <2>2. Init => Counters
    BY ConstantTypes DEF Init, Counters, Certs, Serials, Pcs, Writing
  <2>3. Init => Tables
    BY ConstantTypes DEF Init, Tables, Serials, Entries, NoEntry
  <2> QED
    BY <2>1, <2>2, <2>3 DEF TypeOK, Flags, Counters, Tables
<1>2. Init => DiskInv /\ SaveInv
  BY DEF Init, DiskInv, SaveInv, MetaOld, Files, Writing
<1>3. Init => BuiltSoFar /\ ServedUntilRenewed /\ AllDomainsServed /\ SleepServesDisk
  BY DEF Init, BuiltSoFar, ServedUntilRenewed, AllDomainsServed, SleepServesDisk, InPass, Running
<1>4. Inv /\ [Next]_vars => Inv'
  BY TypeNext, DiskNext, SaveNext, BuiltNext, ServedNext, AllServedNext, SleepNext DEF Inv
<1> QED
  BY <1>1, <1>2, <1>3, <1>4, PTL DEF Spec, Inv

(***************************************************************************)
(* acme/mod.rs: every variable keeps its type; the loops never work on a   *)
(* configuration that does not exist.                                      *)
(***************************************************************************)
THEOREM TypeCorrect == Spec => []TypeOK
<1>1. Inv => TypeOK
  BY DEF Inv
<1> QED
  BY <1>1, Invariant, PTL

(***************************************************************************)
(* check_and_renew: once initialize has returned, every configuration has  *)
(* a certificate served, whatever order, write or process fails and        *)
(* however often, unless a stored certificate could not be read.           *)
(***************************************************************************)
THEOREM EveryDomainServed == Spec => []AllDomainsServed
<1>1. Inv => AllDomainsServed
  BY DEF Inv
<1> QED
  BY <1>1, Invariant, PTL

(***************************************************************************)
(* save_cert and needs_renewal: wherever a save is cut short, meta.json is *)
(* the old one, and goes on asking for renewal; otherwise the three files  *)
(* are of one certificate.                                                 *)
(***************************************************************************)
THEOREM TornSetsAreRenewed == Spec => []TornIsRenewed
<1>1. Inv => TornIsRenewed
  BY NeedsMeansOld DEF Inv, DiskInv, TornIsRenewed
<1> QED
  BY <1>1, Invariant, PTL

(***************************************************************************)
(* manager.reload: between passes what is served is what is on disk, for   *)
(* every configuration whose files are whole, unless a pass was given up.  *)
(***************************************************************************)
THEOREM SleepingServesDisk == Spec => []SleepServesDisk
<1>1. Inv => SleepServesDisk
  BY DEF Inv
<1> QED
  BY <1>1, Invariant, PTL

-----------------------------------------------------------------------------
(***************************************************************************)
(* The order behind Obtain, for any number of authorizations, any names of *)
(* their records, any number of attempts and failures.                     *)
(***************************************************************************)

(***************************************************************************)
(* The types of the constants.                                             *)
(***************************************************************************)
LEMMA OrderConstants ==
    NumAuthz \in Nat \ {0} /\ MaxAttempts \in Nat /\ MaxFailures \in Nat
  BY AcmeOrderAssumption

(***************************************************************************)
(* The type invariant without the account flag, with what it takes to be   *)
(* inductive: an order is only begun while attempts are left, and a record *)
(* is only created for an authorization there is.                          *)
(***************************************************************************)
OrderControl ==
    /\ step \in {"idle", "account", "save", "order", "create", "delete", "notify",
               "poll", "finalize", "cleanup"}
    /\ attempt \in Attempts
    /\ i \in 1 .. NumAuthz + 1
    /\ result \in Results
    /\ failures \in 0 .. MaxFailures
    /\ step \in {"account", "save", "order"} => attempt < MaxAttempts
    /\ step = "delete" => i \in Authz

OrderTables ==
    /\ stale \subseteq Records
    /\ mine \subseteq Records
    /\ dns \subseteq Records
    /\ authz \in [Authz -> {"pending", "processing", "valid", "invalid"}]
    /\ excused \subseteq Records

(***************************************************************************)
(* One step keeps the counters and the place in the program in bounds.     *)
(***************************************************************************)
LEMMA OrderControlNext == OrderControl /\ [OrderNext]_orderVars => OrderControl'
<1> SUFFICES ASSUME OrderControl, [OrderNext]_orderVars PROVE OrderControl'
  OBVIOUS
<1> USE OrderConstants DEF OrderControl, Attempts, Authz, Results, Failure
<1>1. CASE Begin \/ LoadAccount \/ CreateAccount \/ SaveAccount \/ NewOrder
  BY <1>1 DEF Begin, LoadAccount, CreateAccount, SaveAccount, NewOrder
<1>2. CASE SkipValid \/ ListStale \/ DeleteStale \/ Create \/ Propagate
  BY <1>2 DEF SkipValid, ListStale, DeleteStale, Create, Propagate
<1>3. CASE Notify \/ Notified \/ PollReady \/ Finalize \/ CleanUp \/ CleanedUp
  BY <1>3 DEF Notify, Notified, PollReady, Finalize, CleanUp, CleanedUp
<1>4. CASE SetupFails \/ CreateFails \/ PollFails \/ CrashOrder
  BY <1>4 DEF SetupFails, CreateFails, PollFails, CrashOrder
<1>5. CASE \E k \in Authz : Validate(k)
  BY <1>5 DEF Validate
<1>6. CASE UNCHANGED orderVars
  BY <1>6 DEF orderVars
<1> QED
  BY <1>1, <1>2, <1>3, <1>4, <1>5, <1>6 DEF OrderNext, ObtainStep

(***************************************************************************)
(* One step keeps the sets of records and the authorizations in type.      *)
(***************************************************************************)
LEMMA OrderTablesNext == OrderControl /\ OrderTables /\ [OrderNext]_orderVars => OrderTables'
<1> SUFFICES ASSUME OrderControl, OrderTables, [OrderNext]_orderVars PROVE OrderTables'
  OBVIOUS
<1>0. \A k \in Authz : Record(k) \in Records
  BY DEF OrderControl, Record, Records
<1>a. step = "delete" => i \in Authz
  BY DEF OrderControl
<1> USE <1>0, <1>a DEF OrderTables
<1>1. CASE Begin \/ LoadAccount \/ CreateAccount \/ SaveAccount \/ NewOrder
  BY <1>1 DEF Begin, LoadAccount, CreateAccount, SaveAccount, NewOrder
<1>2. CASE SkipValid \/ ListStale \/ DeleteStale \/ Create \/ Propagate
  BY <1>2 DEF SkipValid, ListStale, DeleteStale, Create, Propagate, SameName
<1>3. CASE Notify \/ Notified \/ PollReady \/ Finalize \/ CleanUp \/ CleanedUp
  BY <1>3 DEF Notify, Notified, PollReady, Finalize, CleanUp, CleanedUp
<1>4. CASE SetupFails \/ CreateFails \/ PollFails \/ CrashOrder
  BY <1>4 DEF SetupFails, CreateFails, PollFails, CrashOrder
<1>5. CASE \E k \in Authz : Validate(k)
  BY <1>5 DEF Validate
<1>6. CASE UNCHANGED orderVars
  BY <1>6 DEF orderVars
<1> QED
  BY <1>1, <1>2, <1>3, <1>4, <1>5, <1>6 DEF OrderNext, ObtainStep

-----------------------------------------------------------------------------
(***************************************************************************)
(* The inductive invariant of the records.  Outside of the deletion of     *)
(* stale records none is listed; the listed ones have the name of the      *)
(* record about to be created, and every record of that name is listed     *)
(* unless a failed request left it behind.                                 *)
(***************************************************************************)
StaleListed ==
    /\ step # "delete" => stale = {}
    /\ step = "delete" =>
         /\ \A r \in stale : txt_name[r[2]] = txt_name[i]
         /\ \A r \in dns \ excused : txt_name[r[2]] = txt_name[i] => r \in stale

\* Two records of one name, neither left behind by a failed request, are one.
OnePerName ==
    \A r, q \in dns \ excused : txt_name[r[2]] = txt_name[q[2]] => r = q

(***************************************************************************)
(* Nothing is being validated before the server is told; while records are *)
(* created, the record of every authorization passed and not yet valid is  *)
(* in the zone, unless a later authorization has the same name and may     *)
(* have deleted it.                                                        *)
(***************************************************************************)
NothingProcessing ==
    \A k \in Authz :
        step \in {"create", "delete"} \/ (step = "notify" /\ k >= i) => authz[k] \in {"pending", "valid"}

RecordsSoFar ==
    step \in {"create", "delete"} =>
        \A k \in Authz : (k < i /\ LastOfName(k) /\ authz[k] # "valid") => Record(k) \in dns

OrderInv ==
    /\ OrderControl
    /\ OrderTables
    /\ StaleListed
    /\ OnePerName
    /\ NothingProcessing
    /\ RecordsSoFar
    /\ LastChallengeInPlace

(***************************************************************************)
(* The record names stay what they are.                                    *)
(***************************************************************************)
LEMMA NamesStay ==
    ASSUME [OrderNext]_orderVars
    PROVE  txt_name' = txt_name /\ \A k : LastOfName(k)' <=> LastOfName(k)
<1>1. txt_name' = txt_name
  BY Zenon DEF OrderNext, ObtainStep, orderVars, Begin, LoadAccount, CreateAccount, SaveAccount, NewOrder,
         SkipValid, ListStale, DeleteStale, Create, Propagate, Notify, Notified, PollReady, Finalize, CleanUp,
         CleanedUp, SetupFails, CreateFails, PollFails, CrashOrder, Validate
<1> QED
  BY <1>1 DEF LastOfName

(***************************************************************************)
(* One step keeps the listing of stale records right.                      *)
(***************************************************************************)
LEMMA StaleNext == OrderInv /\ [OrderNext]_orderVars => StaleListed'
<1> SUFFICES ASSUME OrderInv, [OrderNext]_orderVars PROVE StaleListed'
  OBVIOUS
<1> USE NamesStay DEF OrderInv, StaleListed
<1>1. CASE Begin \/ LoadAccount \/ CreateAccount \/ SaveAccount \/ NewOrder
  BY <1>1 DEF Begin, LoadAccount, CreateAccount, SaveAccount, NewOrder
<1>2. CASE ListStale
  BY <1>2 DEF ListStale, SameName
<1>3. CASE DeleteStale
  BY <1>3 DEF DeleteStale
<1>4. CASE SkipValid \/ Create \/ Propagate
  BY <1>4 DEF SkipValid, Create, Propagate
<1>5. CASE Notify \/ Notified \/ PollReady \/ Finalize \/ CleanUp \/ CleanedUp
  BY <1>5 DEF Notify, Notified, PollReady, Finalize, CleanUp, CleanedUp
<1>6. CASE SetupFails \/ CreateFails \/ PollFails \/ CrashOrder
  BY <1>6 DEF SetupFails, CreateFails, PollFails, CrashOrder
<1>7. CASE \E k \in Authz : Validate(k)
  BY <1>7 DEF Validate
<1>8. CASE UNCHANGED orderVars
  BY <1>8 DEF orderVars
<1> QED
  BY <1>1, <1>2, <1>3, <1>4, <1>5, <1>6, <1>7, <1>8 DEF OrderNext, ObtainStep

(***************************************************************************)
(* One step leaves at most one record of a name that no failed request     *)
(* left behind: a record is created only when the others are gone.         *)
(***************************************************************************)
LEMMA OnePerNameNext == OrderInv /\ [OrderNext]_orderVars => OnePerName'
<1> SUFFICES ASSUME OrderInv, [OrderNext]_orderVars PROVE OnePerName'
  OBVIOUS
<1>1. CASE dns' \subseteq dns /\ excused \subseteq excused'
  BY <1>1, NamesStay DEF OrderInv, OnePerName
<1>2. CASE Create
  <2>1. \A r \in dns \ excused : txt_name[r[2]] # txt_name[i]
    BY <1>2 DEF Create, OrderInv, StaleListed
  <2>2. Record(i)[2] = i
    BY DEF Record
  <2>3. dns' = dns \cup {Record(i)} /\ excused' = excused
    BY <1>2 DEF Create
  <2> QED
    BY <2>1, <2>2, <2>3, NamesStay DEF OrderInv, OnePerName
<1>3. CASE CreateFails
  BY <1>3, NamesStay DEF CreateFails, OrderInv, OnePerName
<1>4. (dns' \subseteq dns /\ excused \subseteq excused') \/ Create \/ CreateFails
  BY DEF OrderNext, ObtainStep, orderVars, Begin, LoadAccount, CreateAccount, SaveAccount, NewOrder, SkipValid,
         ListStale, DeleteStale, Propagate, Notify, Notified, PollReady, Finalize, CleanUp, CleanedUp,
         SetupFails, PollFails, CrashOrder, Validate
<1> QED
  BY <1>1, <1>2, <1>3, <1>4

(***************************************************************************)
(* One step keeps authorizations out of validation until the server has    *)
(* been told of them.                                                      *)
(***************************************************************************)
LEMMA NothingProcessingNext == OrderInv /\ [OrderNext]_orderVars => NothingProcessing'
<1> SUFFICES ASSUME OrderInv, [OrderNext]_orderVars, NEW k \in Authz,
                    step' \in {"create", "delete"} \/ (step' = "notify" /\ k >= i')
             PROVE  authz'[k] \in {"pending", "valid"}
  BY DEF NothingProcessing
<1>0. k \in Nat /\ i \in Nat /\ k <= NumAuthz /\ NumAuthz \in Nat
      /\ authz \in [Authz -> {"pending", "processing", "valid", "invalid"}]
  BY OrderConstants DEF OrderInv, OrderControl, OrderTables, Authz
<1>1. CASE NewOrder
  BY <1>1 DEF NewOrder
<1>2. CASE \E l \in Authz : Validate(l)
  BY <1>0, <1>2 DEF Validate, OrderInv, NothingProcessing
<1>3. CASE SkipValid \/ Propagate
  BY <1>0, <1>3 DEF SkipValid, Propagate, OrderInv, NothingProcessing
<1>4. CASE ListStale \/ DeleteStale \/ Create
  BY <1>4 DEF ListStale, DeleteStale, Create, OrderInv, NothingProcessing
<1>5. CASE Notify
  BY <1>0, <1>5 DEF Notify, OrderInv, NothingProcessing
<1>6. CASE UNCHANGED orderVars
  BY <1>6 DEF orderVars, OrderInv, NothingProcessing
<1>7. NewOrder \/ (\E l \in Authz : Validate(l)) \/ SkipValid \/ Propagate \/ ListStale \/ DeleteStale
      \/ Create \/ Notify \/ UNCHANGED orderVars
  BY DEF OrderNext, ObtainStep, Begin, LoadAccount, CreateAccount, SaveAccount, Notified, PollReady, Finalize,
         CleanUp, CleanedUp, SetupFails, CreateFails, PollFails, CrashOrder
<1> QED
  BY <1>1, <1>2, <1>3, <1>4, <1>5, <1>6, <1>7

(***************************************************************************)
(* Deleting the stale records of one name takes away no record of another. *)
(***************************************************************************)
LEMMA DeleteSpares ==
    ASSUME OrderInv, DeleteStale, NEW k \in Authz, Record(k) \in dns, k < i, LastOfName(k)
    PROVE  Record(k) \in dns'
<1>1. i \in Authz /\ i > k /\ i \in Nat /\ k \in Nat
  BY OrderConstants DEF DeleteStale, OrderInv, OrderControl, Authz
<1>2. txt_name[i] # txt_name[k]
  BY <1>1 DEF LastOfName
<1>3. Record(k)[2] = k
  BY DEF Record
<1>4. Record(k) \notin stale
  BY <1>2, <1>3 DEF DeleteStale, OrderInv, StaleListed
<1> QED
  BY <1>4 DEF DeleteStale

(***************************************************************************)
(* One step keeps the records of the authorizations the loop has passed.   *)
(***************************************************************************)
LEMMA RecordsNext == OrderInv /\ [OrderNext]_orderVars => RecordsSoFar'
<1> SUFFICES ASSUME OrderInv, [OrderNext]_orderVars, step' \in {"create", "delete"}, NEW k \in Authz,
                    k < i', LastOfName(k), authz'[k] # "valid"
             PROVE  Record(k)' \in dns'
  BY NamesStay DEF RecordsSoFar
<1>0. i \in Nat /\ k \in Nat /\ k >= 1
  BY OrderConstants DEF OrderInv, OrderControl, Authz
<1>1. CASE NewOrder
  BY <1>0, <1>1 DEF NewOrder
<1>2. CASE SkipValid
  BY <1>0, <1>2 DEF SkipValid, OrderInv, RecordsSoFar, Record
<1>3. CASE ListStale
  BY <1>3 DEF ListStale, OrderInv, RecordsSoFar, Record
<1>4. CASE DeleteStale
  BY <1>4, DeleteSpares DEF DeleteStale, OrderInv, RecordsSoFar, Record
<1>5. CASE Create
  BY <1>0, <1>5 DEF Create, OrderInv, RecordsSoFar, Record
<1>6. CASE \E l \in Authz : Validate(l)
  BY <1>6 DEF Validate, OrderInv, RecordsSoFar, NothingProcessing, Record
<1>7. CASE UNCHANGED orderVars
  BY <1>7 DEF orderVars, OrderInv, RecordsSoFar, Record
<1>8. NewOrder \/ SkipValid \/ ListStale \/ DeleteStale \/ Create \/ (\E l \in Authz : Validate(l))
      \/ UNCHANGED orderVars
  BY DEF OrderNext, ObtainStep, Begin, LoadAccount, CreateAccount, SaveAccount, Propagate, Notify, Notified,
         PollReady, Finalize, CleanUp, CleanedUp, SetupFails, CreateFails, PollFails, CrashOrder
<1> QED
  BY <1>1, <1>2, <1>3, <1>4, <1>5, <1>6, <1>7, <1>8

(***************************************************************************)
(* One step keeps the records of the challenges the server is told of.     *)
(***************************************************************************)
LEMMA InPlaceNext == OrderInv /\ [OrderNext]_orderVars => LastChallengeInPlace'
<1> SUFFICES ASSUME OrderInv, [OrderNext]_orderVars, step' \in {"notify", "poll"}, NEW k \in Authz,
                    LastOfName(k), authz'[k] \in {"pending", "processing"}
             PROVE  Record(k)' \in dns'
  BY NamesStay DEF LastChallengeInPlace
<1>1. CASE Propagate
  <2>1. k < i
    BY <1>1, OrderConstants DEF Propagate, Authz
  <2> QED
    BY <1>1, <2>1 DEF Propagate, OrderInv, RecordsSoFar, Record
<1>2. CASE SkipValid \/ Notified
  BY <1>2 DEF SkipValid, Notified, OrderInv, LastChallengeInPlace, Record
<1>6. CASE Notify
  <2>1. /\ step = "notify" /\ i \in Authz /\ UNCHANGED <<attempt, dns>> /\ authz[i] # "valid"
        /\ authz' = [authz EXCEPT ![i] = "processing"]
    BY <1>6 DEF Notify
  <2>2. authz[i] = "pending"
    BY <2>1, OrderConstants DEF OrderInv, NothingProcessing, Authz
  <2>3. authz[k] \in {"pending", "processing"}
    BY <2>1, <2>2 DEF OrderInv, OrderTables
  <2> QED
    BY <2>1, <2>3 DEF OrderInv, LastChallengeInPlace, Record
<1>3. CASE \E l \in Authz : Validate(l)
  BY <1>3 DEF Validate, OrderInv, OrderTables, LastChallengeInPlace, Record
<1>4. CASE UNCHANGED orderVars
  BY <1>4 DEF orderVars, OrderInv, LastChallengeInPlace, Record
<1>5. Propagate \/ SkipValid \/ Notify \/ Notified \/ (\E l \in Authz : Validate(l)) \/ UNCHANGED orderVars
  BY DEF OrderNext, ObtainStep, Begin, LoadAccount, CreateAccount, SaveAccount, NewOrder, ListStale,
         DeleteStale,
         Create, PollReady, Finalize, CleanUp, CleanedUp, SetupFails, CreateFails, PollFails, CrashOrder
<1> QED
  BY <1>1, <1>2, <1>3, <1>4, <1>5, <1>6

(***************************************************************************)
(* The invariant holds in every state.                                     *)
(***************************************************************************)
LEMMA OrderInvariant == OrderSpec => []OrderInv
<1>1. OrderInit => OrderControl /\ OrderTables
  BY OrderConstants DEF OrderInit, OrderControl, OrderTables, Attempts, Authz, Results
<1>2. OrderInit => StaleListed /\ OnePerName /\ NothingProcessing /\ RecordsSoFar /\ LastChallengeInPlace
  BY DEF OrderInit, StaleListed, OnePerName, NothingProcessing, RecordsSoFar, LastChallengeInPlace
<1>3. OrderInv /\ [OrderNext]_orderVars => OrderInv'
  BY OrderControlNext, OrderTablesNext, StaleNext, OnePerNameNext, NothingProcessingNext, RecordsNext,
         InPlaceNext
     DEF OrderInv
<1> QED
  BY <1>1, <1>2, <1>3, PTL DEF OrderSpec, OrderInv

(***************************************************************************)
(* acme/mod.rs, obtain_cert: every variable keeps its type; no record is   *)
(* made for an authorization that does not exist.                          *)
(***************************************************************************)
THEOREM OrderTypeCorrect == OrderSpec => []OrderTypeOK
<1>1. OrderInit => saved \in BOOLEAN /\ txt_name \in Namings
  BY Zenon DEF OrderInit
<1>4. txt_name \in Namings /\ [OrderNext]_orderVars => (txt_name \in Namings)'
  BY NamesStay
<1>2. saved \in BOOLEAN /\ [OrderNext]_orderVars => (saved \in BOOLEAN)'
  BY Zenon DEF OrderNext, ObtainStep, orderVars, Begin, LoadAccount, CreateAccount, SaveAccount, NewOrder,
         SkipValid,
         ListStale, DeleteStale, Create, Propagate, Notify, Notified, PollReady, Finalize, CleanUp, CleanedUp,
         SetupFails, CreateFails, PollFails, CrashOrder, Validate
<1>3. OrderInv /\ saved \in BOOLEAN /\ txt_name \in Namings => OrderTypeOK
  BY DEF OrderInv, OrderControl, OrderTables, OrderTypeOK
<1> QED
  BY <1>1, <1>2, <1>3, <1>4, OrderInvariant, PTL DEF OrderSpec

(***************************************************************************)
(* acme/mod.rs:448, for any number of authorizations and any record names, *)
(* shared ones too: deleting the stale records of one authorization takes  *)
(* away no record of another name, so the record of every challenge the    *)
(* server is told of is in the zone unless a later authorization of the    *)
(* order has its name, through failed requests, crashes and repeated       *)
(* orders.                                                                 *)
(***************************************************************************)
THEOREM LastChallengeStaysInPlace == OrderSpec => []LastChallengeInPlace
<1>1. OrderInv => LastChallengeInPlace
  BY DEF OrderInv
<1> QED
  BY <1>1, OrderInvariant, PTL

(***************************************************************************)
(* A set whose members are all equal has at most one.                      *)
(***************************************************************************)
LEMMA AtMostOne ==
    ASSUME NEW S, \A x, y \in S : x = y
    PROVE  Cardinality(S) <= 1
<1>1. CASE S = {}
  BY <1>1, FS_EmptySet
<1>2. CASE S # {}
  <2>1. PICK x \in S : TRUE
    BY <1>2
  <2>2. S = {x}
    BY <2>1
  <2> QED
    BY <2>2, FS_Singleton
<1> QED
  BY <1>1, <1>2

(***************************************************************************)
(* create_dns_challenge_records and cleanup_dns_records: however orders    *)
(* fail, crash and are repeated, of all records with one name at most one  *)
(* was not left behind by a failed request to the DNS provider.            *)
(***************************************************************************)
THEOREM RecordsDoNotPileUp == OrderSpec => []NoPileUp
<1>1. OrderInv => NoPileUp
  <2> SUFFICES ASSUME OrderInv, NEW k \in Authz PROVE Cardinality(SameName(k) \ excused) <= 1
    BY DEF NoPileUp
  <2>1. \A r, q \in SameName(k) \ excused : r = q
    BY DEF OrderInv, OnePerName, SameName
  <2> QED
    BY <2>1, AtMostOne
<1> QED
  BY <1>1, OrderInvariant, PTL
=============================================================================
