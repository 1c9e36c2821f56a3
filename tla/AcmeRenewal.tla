----------------------------- MODULE AcmeRenewal -----------------------------
(***************************************************************************)
(* Certificates obtained by ACME: what is on disk, what is renewed and     *)
(* what the TLS listener serves.                                           *)
(*                                                                         *)
(* Sources: crates/wicket-tls/src/acme/mod.rs (initialize,                 *)
(* start_renewal_loop, check_and_renew, load_stored_cert), acme/storage.rs *)
(* (load_cert, save_cert, needs_renewal) and cert_manager.rs (reload).     *)
(* How an order is carried out is the subject of AcmeOrder; here           *)
(* obtain_cert succeeds or fails.                                          *)
(*                                                                         *)
(* A certificate is known by its serial number, and so are its private key *)
(* and its metadata: three files, each replaced atomically on its own.     *)
(* One tick is one check interval (a day and some jitter): a pass is short *)
(* against it and takes no time.                                           *)
(***************************************************************************)
EXTENDS Integers

CONSTANTS
    NumCerts,       \* all_certs(): the configurations 1 .. NumCerts, in order
    Lifetime,       \* validity of a new certificate
    RenewBefore,    \* renew_before_days
    FaultKinds,     \* what may fail: "obtain", "write", "read", "crash"
    MaxTime,        \* bound: the clock stops here
    MaxSerial,      \* bound: certificates issued
    MaxFaults       \* bound: failures

ASSUME AcmeRenewalAssumption ==
    /\ NumCerts \in Nat \ {0}
    /\ Lifetime \in Nat
    /\ RenewBefore \in Nat
    /\ FaultKinds \subseteq {"obtain", "write", "read", "crash"}
    /\ MaxTime \in Nat
    /\ MaxSerial \in Nat
    /\ MaxFaults \in Nat

Certs   == 1 .. NumCerts
Serials == 0 .. MaxSerial           \* 0: the file does not exist
Files   == {"cert", "key", "meta"}

\* What the resolver hands out for the domains of a configuration: the
\* serial of the chain and the serial of the key; 0 means no entry.
Entries == [cert : Serials, key : Serials]
NoEntry == [cert |-> 0, key |-> 0]

VARIABLES
    disk,       \* the three files of each configuration
    served,     \* CertManager.store, per configuration
    expiry,     \* notAfter of each certificate issued
    last,       \* last serial issued
    now,        \* the clock
    pc,         \* where the provider is
    starting,   \* in initialize, not in check_and_renew
    idx,        \* configuration the loop is at
    built,      \* the local `store` of initialize and check_and_renew
    renewed,    \* the local `any_renewed`
    faults,     \* failures so far
    torn,       \* history: a save_cert of this configuration was cut short
    lost        \* history: a pass was given up or left an entry out, and
                \* no later pass has published a complete store

progress == <<pc, starting, idx, built, renewed>>
history  == <<torn, lost>>
vars     == <<disk, served, expiry, last, now, progress, faults, history>>

Writing == {"save_cert", "save_key", "save_meta"}
Pcs     == {"down", "check", "obtain", "insert", "fallback", "sleep"} \cup Writing

TypeOK ==
    /\ disk \in [Certs -> [Files -> Serials]]
    /\ served \in [Certs -> Entries]
    /\ expiry \in [Serials -> 0 .. MaxTime + Lifetime]
    /\ last \in Serials
    /\ now \in 0 .. MaxTime
    /\ pc \in Pcs
    /\ starting \in BOOLEAN
    /\ idx \in 1 .. NumCerts + 1
    /\ pc \in Writing \cup {"obtain", "insert", "fallback"} => idx \in Certs
    /\ built \in [Certs -> Entries]
    /\ renewed \in BOOLEAN
    /\ faults \in 0 .. MaxFaults
    /\ torn \in [Certs -> BOOLEAN]
    /\ lost \in BOOLEAN

Init ==
    /\ disk = [c \in Certs |-> [f \in Files |-> 0]]
    /\ served = [c \in Certs |-> NoEntry]
    /\ expiry = [s \in Serials |-> 0]
    /\ last = 0
    /\ now = 0
    /\ pc = "down"
    /\ starting = TRUE
    /\ idx = 1
    /\ built = [c \in Certs |-> NoEntry]
    /\ renewed = FALSE
    /\ faults = 0
    /\ torn = [c \in Certs |-> FALSE]
    /\ lost = FALSE

-----------------------------------------------------------------------------
\* load_cert returns Some: all three files exist.
Stored(c) == \A f \in Files : disk[c][f] # 0

\* needs_renewal: nothing stored, or too close to the expiry in meta.json.
NeedsRenewal(c) == ~ Stored(c) \/ expiry[disk[c]["meta"]] < now + RenewBefore

\* load_stored_cert: the pair as it lies on disk; PEM loading does not check
\* that the key belongs to the chain.
Loaded(c) == [cert |-> disk[c]["cert"], key |-> disk[c]["key"]]

Fault(kind) ==
    /\ kind \in FaultKinds
    /\ faults < MaxFaults
    /\ faults' = faults + 1

\* initialize or check_and_renew begins, with an empty store.
BeginPass ==
    /\ pc' = "check"
    /\ idx' = 1
    /\ built' = [c \in Certs |-> NoEntry]
    /\ renewed' = FALSE

\* store.insert for the configuration at hand, and on to the next one.
InsertAndGoOn(e) ==
    /\ built' = [built EXCEPT ![idx] = e]
    /\ idx' = idx + 1
    /\ pc' = "check"

\* The error leaves the function: at startup the process exits, later the
\* pass ends and the loop sleeps.
GiveUp ==
    /\ pc' = IF starting THEN "down" ELSE "sleep"
    /\ lost' = TRUE
    /\ UNCHANGED <<disk, served, expiry, last, now, starting, idx, built, renewed, torn>>

-----------------------------------------------------------------------------
\* Time passes while the process is not running.
DownTick ==
    /\ pc = "down"
    /\ now < MaxTime
    /\ now' = now + 1
    /\ UNCHANGED <<disk, served, expiry, last, progress, faults, history>>

\* The process starts with an empty CertManager and calls initialize.
Boot ==
    /\ pc = "down"
    /\ BeginPass
    /\ starting' = TRUE
    /\ served' = [c \in Certs |-> NoEntry]
    /\ lost' = FALSE
    /\ UNCHANGED <<disk, expiry, last, now, faults, torn>>

\* The stored certificate is good for a while: it goes into the new store.
UseStored ==
    /\ pc = "check"
    /\ idx \in Certs
    /\ ~ NeedsRenewal(idx)
    /\ InsertAndGoOn(Loaded(idx))
    /\ UNCHANGED <<disk, served, expiry, last, now, starting, renewed, faults, history>>

NeedNew ==
    /\ pc = "check"
    /\ idx \in Certs
    /\ NeedsRenewal(idx)
    /\ pc' = "obtain"
    /\ UNCHANGED <<disk, served, expiry, last, now, starting, idx, built, renewed, faults, history>>

\* obtain_cert up to save_cert: a new certificate and its key are in memory.
Obtain ==
    /\ pc = "obtain"
    /\ last < MaxSerial
    /\ last' = last + 1
    /\ expiry' = [expiry EXCEPT ![last + 1] = now + Lifetime]
    /\ pc' = "save_cert"
    /\ UNCHANGED <<disk, served, now, starting, idx, built, renewed, faults, history>>

\* obtain_cert fails before it has written anything.
ObtainFails ==
    /\ pc = "obtain"
    /\ Fault("obtain")
    /\ pc' = "fallback"
    /\ UNCHANGED <<disk, served, expiry, last, now, starting, idx, built, renewed, history>>

\* Mutant: meta.json is written before key.pem.
SaveMetaEarly ==
    \E next \in {[file |-> "cert", from |-> "save_cert", to |-> "save_key"],
                 [file |-> "meta", from |-> "save_key",  to |-> "save_meta"],
                 [file |-> "key",  from |-> "save_meta", to |-> "insert"]} :
        /\ pc = next.from
        /\ disk' = [disk EXCEPT ![idx][next.file] = last]
        /\ pc' = next.to
        /\ torn' = [torn EXCEPT ![idx] = next.to # "insert"]
        /\ UNCHANGED <<served, expiry, last, now, starting, idx, built, renewed, faults, lost>>

\* save_cert: cert.pem, key.pem and meta.json, each by rename.
Save ==
    \E next \in {[file |-> "cert", from |-> "save_cert", to |-> "save_key"],
                 [file |-> "key",  from |-> "save_key",  to |-> "save_meta"],
                 [file |-> "meta", from |-> "save_meta", to |-> "insert"]} :
        /\ pc = next.from
        /\ disk' = [disk EXCEPT ![idx][next.file] = last]
        /\ pc' = next.to
        /\ torn' = [torn EXCEPT ![idx] = next.to # "insert"]
        /\ UNCHANGED <<served, expiry, last, now, starting, idx, built, renewed, faults, lost>>

\* A write fails: what was renamed before stays, obtain_cert returns Err.
SaveFails ==
    /\ pc \in Writing
    /\ Fault("write")
    /\ pc' = "fallback"
    /\ UNCHANGED <<disk, served, expiry, last, now, starting, idx, built, renewed, history>>

\* obtain_cert returned Ok: the new pair goes into the new store.
InsertNew ==
    /\ pc = "insert"
    /\ InsertAndGoOn([cert |-> last, key |-> last])
    /\ renewed' = TRUE
    /\ UNCHANGED <<disk, served, expiry, last, now, starting, faults, history>>

\* Mutant: a failed renewal leaves the certificate out of the new store.
FallBackSkips ==
    /\ pc = "fallback"
    /\ Stored(idx)
    /\ idx' = idx + 1
    /\ pc' = "check"
    /\ UNCHANGED <<disk, served, expiry, last, now, starting, built, renewed, faults, history>>

\* obtain_cert returned Err, and load_cert finds a stored certificate.
FallBack ==
    /\ pc = "fallback"
    /\ Stored(idx)
    /\ InsertAndGoOn(Loaded(idx))
    /\ UNCHANGED <<disk, served, expiry, last, now, starting, renewed, faults, history>>

\* obtain_cert returned Err and load_cert finds nothing (or cannot read it):
\* initialize returns the error, check_and_renew goes on without the entry.
NothingStored ==
    /\ pc = "fallback"
    /\ \/ ~ Stored(idx) /\ UNCHANGED faults
       \/ Stored(idx) /\ Fault("read")
    /\ \/ starting /\ GiveUp
       \/ /\ ~ starting
          /\ idx' = idx + 1
          /\ pc' = "check"
          /\ lost' = TRUE
          /\ UNCHANGED <<disk, served, expiry, last, now, starting, built, renewed, torn>>

\* needs_renewal, load_cert or load_stored_cert fails and `?` returns.
ReadFails ==
    /\ \/ pc = "check" /\ idx \in Certs
       \/ pc = "insert"
       \/ pc = "fallback" /\ Stored(idx)
    /\ Fault("read")
    /\ GiveUp

\* initialize has been through all configurations: manager.reload(store).
\* The renewal loop starts with a check, not with a sleep.
Initialized ==
    /\ pc = "check"
    /\ idx = NumCerts + 1
    /\ starting
    /\ served' = built
    /\ starting' = FALSE
    /\ BeginPass
    /\ UNCHANGED <<disk, expiry, last, now, faults, history>>

\* Mutant: the new store is dropped, `any_renewed` is never set.
PassDoneQuietly ==
    /\ pc = "check"
    /\ idx = NumCerts + 1
    /\ ~ starting
    /\ pc' = "sleep"
    /\ UNCHANGED <<disk, served, expiry, last, now, starting, idx, built, renewed, faults, history>>

\* check_and_renew has been through all configurations: the new store is
\* published if this pass renewed something and the store is not empty.
PassDone ==
    /\ pc = "check"
    /\ idx = NumCerts + 1
    /\ ~ starting
    /\ \/ /\ renewed
          /\ \E c \in Certs : built[c] # NoEntry
          /\ served' = built
          /\ lost' = (lost /\ \E c \in Certs : built[c] = NoEntry)
       \/ /\ ~ renewed \/ \A c \in Certs : built[c] = NoEntry
          /\ UNCHANGED <<served, lost>>
    /\ pc' = "sleep"
    /\ UNCHANGED <<disk, expiry, last, now, starting, idx, built, renewed, faults, torn>>

\* The sleep of one check interval is over.
Wake ==
    /\ pc = "sleep"
    /\ now < MaxTime
    /\ now' = now + 1
    /\ BeginPass
    /\ UNCHANGED <<disk, served, expiry, last, starting, faults, history>>

\* The process is killed; what was renamed into place stays.
Crash ==
    /\ pc # "down"
    /\ Fault("crash")
    /\ pc' = "down"
    /\ served' = [c \in Certs |-> NoEntry]
    /\ UNCHANGED <<disk, expiry, last, now, starting, idx, built, renewed, history>>

Next ==
    \/ DownTick \/ Boot \/ UseStored \/ NeedNew \/ Obtain \/ ObtainFails \/ Save
    \/ SaveFails \/ InsertNew \/ FallBack \/ NothingStored \/ ReadFails
    \/ Initialized \/ PassDone \/ Wake \/ Crash

Spec == Init /\ [][Next]_vars

-----------------------------------------------------------------------------
Running == pc # "down" /\ ~ starting

(***************************************************************************)
(* Once initialize has returned, every configuration has a certificate     *)
(* served, whatever order, write or process fails afterwards and however   *)
(* often: a pass that cannot renew one certificate must not drop it while  *)
(* it publishes the others, unless the stored one could not be read.       *)
(***************************************************************************)
AllDomainsServed == Running /\ ~ lost => \A c \in Certs : served[c].cert # 0

(***************************************************************************)
(* Between passes the listener serves exactly what is on disk, for every   *)
(* configuration whose save was not cut short, unless a pass was given up  *)
(* half-way: the two copies do not drift apart over any sequence of failed *)
(* orders, failed writes, crashes and restarts.                            *)
(***************************************************************************)
SleepServesDisk ==
    (pc = "sleep" /\ ~ lost) =>
        \A c \in Certs : ~ torn[c] => served[c] = Loaded(c)

(***************************************************************************)
(* The files of a configuration belong together unless a save was cut      *)
(* short, and then the old meta.json still asks for renewal: a torn set is *)
(* never taken for a good one by needs_renewal.                            *)
(***************************************************************************)
TornIsRenewed ==
    \A c \in Certs :
        IF torn[c] THEN pc \in Writing \/ NeedsRenewal(c)
        ELSE disk[c]["cert"] = disk[c]["key"] /\ disk[c]["key"] = disk[c]["meta"]

(***************************************************************************)
(* acme/mod.rs:222, when a renewal fails: "Keep using existing cert".  The *)
(* chain and the key that are served belong together.                      *)
(***************************************************************************)
ServedPairMatches == \A c \in Certs : served[c].cert = served[c].key

(***************************************************************************)
(* docs/src/tls.md:53: "Certificates are automatically obtained and        *)
(* renewed."  Between passes no expired certificate is served while a      *)
(* valid one is on disk.                                                   *)
(***************************************************************************)
FreshOnDiskIsServed ==
    pc = "sleep" =>
        \A c \in Certs :
            (~ torn[c] /\ expiry[disk[c]["meta"]] > now)
                => expiry[served[c].cert] >= now
=============================================================================
