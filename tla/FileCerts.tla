------------------------------- MODULE FileCerts -------------------------------
(***************************************************************************)
(* Certificates from files: loading at start, the watcher of their         *)
(* directories with its debounce timer, and the store they share with ACME *)
(* in mixed mode.                                                          *)
(*                                                                         *)
(* Source: crates/wicket-tls/src/file_watcher.rs, pem.rs                   *)
(* (load_certified_key), cert_manager.rs (CertManager::reload) and the TLS *)
(* part of main in crates/wicket/src/main.rs.                              *)
(*                                                                         *)
(* A file holds the serial of a certificate or key, or 0 while it cannot   *)
(* be parsed.  Certificates are rotated file by file, or as Kubernetes     *)
(* does for a mounted Secret, by one swap of the symbolic link ..data that *)
(* the files are behind.  The file system and its events are external.     *)
(***************************************************************************)
EXTENDS Integers, FiniteSets

CONSTANTS
    Certs,          \* entries of [[tls.file.certs]], each for one domain
    None,           \* no certificate for the domain
    MaxSerial,      \* bound: rotations of each certificate
    ChangesAtBoot,  \* may files change before the directories are watched?
    InPlace,        \* are files written in place (unreadable for a moment)?
    LinkSwaps,      \* entries that may be behind a link, rotated by swapping ..data
    Mixed           \* does ACME publish into the same manager?

ASSUME FileCertsAssumption ==
    /\ MaxSerial \in Nat
    /\ LinkSwaps \subseteq Certs
    /\ None \notin (0 .. MaxSerial + 1) \X (0 .. MaxSerial + 1)
    /\ {ChangesAtBoot, InPlace, Mixed} \subseteq BOOLEAN

Serials == 0 .. MaxSerial + 1
Pairs   == Serials \X Serials       \* certificate, key
Loaded  == (Serials \ {0}) \X (Serials \ {0})

VARIABLES
    disk,       \* the two files of each entry
    writing,    \* entries whose rotation is under way
    events,     \* file events in the channel, by whether they name a file
    armed,      \* debounce_deadline is set
    pc,         \* where the watcher is
    todo,       \* entries build_store has not come to
    chain,      \* <<entry, chain>> that load_certified_key has read, or <<>>
    store,      \* the store being built
    served,     \* the manager's store
    acme,       \* does the manager's store hold the ACME certificates?
    linked      \* entries whose files are behind a link, in this deployment

vars == <<disk, writing, events, armed, pc, todo, chain, store, served, acme, linked>>
watcher == <<armed, pc, todo, chain, store, served, acme, linked>>

Stores == [Certs -> Loaded \cup {None}]
Empty  == [c \in Certs |-> None]

TypeOK ==
    /\ disk \in [Certs -> Pairs]
    /\ writing \subseteq Certs
    /\ events \subseteq {"file", "link"}
    /\ armed \in BOOLEAN
    /\ pc \in {"load", "boot", "watch", "reload", "ended"}
    /\ todo \subseteq Certs
    /\ chain \in {<<>>} \cup (Certs \X Serials)
    /\ store \in Stores
    /\ served \in Stores
    /\ acme \in BOOLEAN
    /\ linked \subseteq LinkSwaps

Init ==
    /\ disk = [c \in Certs |-> <<1, 1>>]
    /\ writing = {}
    /\ events = {}
    /\ armed = FALSE
    /\ pc = "load"
    /\ todo = Certs
    /\ chain = <<>>
    /\ store = Empty
    /\ served = Empty
    /\ acme = FALSE
    /\ linked \in SUBSET LinkSwaps

-----------------------------------------------------------------------------
Watching == pc \in {"watch", "reload"}
Booting  == pc \in {"load", "boot"}

Emit(e) == events' = IF Watching THEN events \cup {e} ELSE events

MayChange == Booting => ChangesAtBoot

Latest(c) == IF disk[c][1] > disk[c][2] THEN disk[c][1] ELSE disk[c][2]

\* A rotation writes the certificate file, which in place is first emptied ...
TruncateCert(c) ==
    /\ InPlace
    /\ c \notin linked
    /\ MayChange
    /\ c \notin writing
    /\ Latest(c) <= MaxSerial
    /\ disk' = [disk EXCEPT ![c][1] = 0]
    /\ writing' = writing \cup {c}
    /\ Emit("file")
    /\ UNCHANGED watcher

RotateCert(c) ==
    /\ c \notin linked
    /\ MayChange
    /\ IF InPlace THEN c \in writing /\ disk[c][1] = 0 ELSE c \notin writing
    /\ Latest(c) <= MaxSerial
    /\ disk' = [disk EXCEPT ![c][1] = Latest(c) + 1]
    /\ writing' = writing \cup {c}
    /\ Emit("file")
    /\ UNCHANGED watcher

\* ... then the key file, which in place is emptied, too ...
TruncateKey(c) ==
    /\ InPlace
    /\ MayChange
    /\ c \in writing
    /\ disk[c][1] # 0 /\ disk[c][2] # 0
    /\ disk' = [disk EXCEPT ![c][2] = 0]
    /\ Emit("file")
    /\ UNCHANGED <<writing, watcher>>

\* ... and is done.
RotateKey(c) ==
    /\ MayChange
    /\ c \in writing
    /\ disk[c][1] # 0 /\ (InPlace => disk[c][2] = 0)
    /\ disk' = [disk EXCEPT ![c][2] = disk[c][1]]
    /\ writing' = writing \ {c}
    /\ Emit("file")
    /\ UNCHANGED watcher

\* Both files change at once; the event names ..data and not the files.
SwapLink(c) ==
    /\ c \in linked
    /\ MayChange
    /\ Latest(c) <= MaxSerial
    /\ disk' = [disk EXCEPT ![c] = <<Latest(c) + 1, Latest(c) + 1>>]
    /\ Emit("link")
    /\ UNCHANGED <<writing, watcher>>

-----------------------------------------------------------------------------
Building == pc \in {"load", "reload"}

\* load_certs: an unreadable file drops the entry.
ReadChain ==
    /\ Building
    /\ chain = <<>>
    /\ \E c \in todo :
         IF disk[c][1] = 0
         THEN todo' = todo \ {c} /\ UNCHANGED chain
         ELSE chain' = <<c, disk[c][1]>> /\ UNCHANGED todo
    /\ UNCHANGED <<disk, writing, events, armed, pc, store, served, acme, linked>>

\* load_private_key; nothing compares it with the chain.
ReadKey ==
    /\ Building
    /\ chain # <<>>
    /\ LET c == chain[1]
       IN /\ store' = [store EXCEPT ![c] = IF disk[c][2] = 0 THEN None
                                           ELSE <<chain[2], disk[c][2]>>]
          /\ todo' = todo \ {c}
    /\ chain' = <<>>
    /\ UNCHANGED <<disk, writing, events, armed, pc, served, acme, linked>>

Built == Building /\ todo = {} /\ chain = <<>>

\* load_all at start; with an empty store the start fails.
LoadAll ==
    /\ pc = "load"
    /\ Built
    /\ store # Empty
    /\ served' = store
    /\ pc' = "boot"
    /\ UNCHANGED <<disk, writing, events, armed, todo, chain, store, acme, linked>>

\* The spawned task registers its watches.
StartWatching ==
    /\ pc = "boot"
    /\ pc' = "watch"
    /\ UNCHANGED <<disk, writing, events, armed, todo, chain, store, served, acme, linked>>

\* The watcher or one of its watches cannot be set up: the task ends, and the
\* certificates of the start are served from then on.
WatchFails ==
    /\ pc = "boot"
    /\ pc' = "ended"
    /\ UNCHANGED <<disk, writing, events, armed, todo, chain, store, served, acme, linked>>

\* An event: only one that names a configured file sets the timer.
Receive ==
    /\ pc = "watch"
    /\ \E e \in events :
         /\ events' = events \ {e}
         /\ armed' = (armed \/ e = "file")
    /\ UNCHANGED <<disk, writing, pc, todo, chain, store, served, acme, linked>>

\* The timer fires: reload_certs.
Timer ==
    /\ pc = "watch"
    /\ armed
    /\ armed' = FALSE
    /\ pc' = "reload"
    /\ todo' = Certs
    /\ store' = Empty
    /\ UNCHANGED <<disk, writing, events, chain, served, acme, linked>>

\* Mutant: events that came during the reload are dropped.
ReloadCertsDrains ==
    /\ pc = "reload"
    /\ Built
    /\ IF store # Empty
       THEN served' = store /\ acme' = FALSE
       ELSE UNCHANGED <<served, acme>>
    /\ pc' = "watch"
    /\ events' = {}
    /\ UNCHANGED <<disk, writing, armed, todo, chain, store, linked>>

\* The new store replaces the old one unless nothing could be loaded.
ReloadCerts ==
    /\ pc = "reload"
    /\ Built
    /\ IF store # Empty
       THEN served' = store /\ acme' = FALSE
       ELSE UNCHANGED <<served, acme>>
    /\ pc' = "watch"
    /\ UNCHANGED <<disk, writing, events, armed, todo, chain, store, linked>>

\* AcmeProvider publishes a store with its own certificates.
AcmePublish ==
    /\ Mixed
    /\ pc # "load"
    /\ served' = Empty
    /\ acme' = TRUE
    /\ UNCHANGED <<disk, writing, events, armed, pc, todo, chain, store, linked>>

Change(c) == TruncateCert(c) \/ RotateCert(c) \/ TruncateKey(c) \/ RotateKey(c) \/ SwapLink(c)

Finish(c) == c \in writing /\ (RotateCert(c) \/ TruncateKey(c) \/ RotateKey(c))

WatcherStep ==
    \/ ReadChain \/ ReadKey \/ LoadAll \/ StartWatching
    \/ Receive \/ Timer \/ ReloadCerts

Next == (\E c \in Certs : Change(c)) \/ WatcherStep \/ WatchFails \/ AcmePublish

Spec == Init /\ [][Next]_vars

\* The task runs, and a rotation that was begun is finished.
FairSpec ==
    /\ Spec
    /\ WF_vars(ReadChain \/ ReadKey \/ LoadAll \/ StartWatching \/ ReloadCerts)
    /\ WF_vars(Receive)
    /\ WF_vars(Timer)
    /\ \A c \in Certs : WF_vars(Finish(c))

-----------------------------------------------------------------------------
Current == \A c \in Certs : served[c] = disk[c]

(***************************************************************************)
(* When the watcher has nothing to do and no rotation is under way, what   *)
(* is served is what is on disk, for entries whose files are written: no   *)
(* interleaving of rotations, events, the timer and the reading of the     *)
(* files loses a change or leaves a half-written pair, unless the store is *)
(* the one ACME has put in its place.                                      *)
(***************************************************************************)
QuietMeansCurrent ==
    (pc = "watch" /\ ~armed /\ events = {} /\ writing = {} /\ ~acme) =>
        \A c \in Certs \ linked : served[c] = disk[c]

(***************************************************************************)
(* docs/src/tls.md:30, "Certificates are loaded on startup and             *)
(* automatically reloaded when files change": in the end the certificates  *)
(* on disk that are written, not linked, are served, matching key and all, *)
(* unless the store is the one ACME has put in its place or the watcher's  *)
(* task could not be set up.                                               *)
(***************************************************************************)
EventuallyServed ==
    <>[](pc \notin {"load", "ended"} /\ writing = {} /\ ~acme =>
           \A c \in Certs \ linked : served[c] = disk[c])

(***************************************************************************)
(* docs/src/tls.md:216, "Wicket will automatically reload when cert-manager*)
(* rotates the certificate": the same for every entry, linked ones too.    *)
(***************************************************************************)
EventuallyAllServed == <>[](pc \notin {"load", "ended"} /\ writing = {} /\ ~acme => Current)

(***************************************************************************)
(* docs/src/tls.md:10, "Zero-downtime certificate updates": an update of   *)
(* the files never takes a domain's certificate away.                      *)
(***************************************************************************)
NoDomainDropped ==
    [][\A c \in Certs : served[c] # None => served'[c] # None]_vars

(***************************************************************************)
(* docs/src/configuration.md:405, "Combines file-based and ACME            *)
(* certificates. File certs are loaded first, then ACME fills in remaining *)
(* domains.": with the ACME certificates the file certificates stay.       *)
(***************************************************************************)
AcmeKeepsFileCerts == acme => \A c \in Certs : served[c] # None
=============================================================================
