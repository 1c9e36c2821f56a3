----------------------------- MODULE ConfigReload -----------------------------
(***************************************************************************)
(* Hot reload of the configuration file: the start of the process, the     *)
(* task that polls the file, and what of a new configuration it applies.   *)
(*                                                                         *)
(* Source: crates/wicket/src/main.rs (main, the config watcher task,       *)
(* listener_set_changed), crates/wicket-config/src/lib.rs (Config::load),  *)
(* HttpReloadHandle::reload and StreamProxy::reload as the watcher uses    *)
(* them: each of the two is applied or refused as a whole.                 *)
(*                                                                         *)
(* The file holds a version, which is also its modification time, and a    *)
(* content; of a content only what decides about a reload is kept.  The    *)
(* operator edits the file at any time, between any two steps.             *)
(***************************************************************************)
EXTENDS Integers

CONSTANTS
    Streams,        \* names of the [[streams]] entries
    Contents,       \* what an edit may write
    InitContent,    \* what the file holds at first
    EditsAtBoot,    \* may the file change before the watcher runs?
    MaxEdits,       \* bound: edits of the file
    MaxRestarts     \* bound: restarts of the process

\* loads: parses and validates; http: router and upstream clusters can be
\* built; bad: streams with a backend that does not parse; listeners: the
\* names and addresses of its streams.
ContentType == [loads : BOOLEAN, http : BOOLEAN, bad : SUBSET Streams, listeners : Nat]

Acceptable(c) == c.loads /\ c.http /\ c.bad = {}

ASSUME ConfigReloadAssumption ==
    /\ Contents \subseteq ContentType
    /\ InitContent \in ContentType /\ Acceptable(InitContent)
    /\ EditsAtBoot \in BOOLEAN
    /\ MaxEdits \in Nat
    /\ MaxRestarts \in Nat

FileVersions == 0 .. MaxEdits

VARIABLES
    file,       \* [version, content] on disk
    pc,         \* where the process is
    seen,       \* last_modified
    current,    \* current_modified
    new,        \* new_config, as [version, content]
    http,       \* version of the HTTP routes and upstreams in use
    stream,     \* version of each stream's routes and upstreams in use
    booted,     \* [version, content] the process was started with
    todo,       \* streams the reload has not come to
    restarts    \* restarts so far

watcherVars == <<file, pc, seen, current, new, http, stream, booted, todo, restarts>>

Files == [version : FileVersions, content : Contents \cup {InitContent}]

WatcherTypeOK ==
    /\ file \in Files
    /\ pc \in {"down", "boot", "sleep", "load", "http", "streams"}
    /\ seen \in FileVersions
    /\ current \in FileVersions
    /\ new \in Files
    /\ http \in FileVersions
    /\ stream \in [Streams -> FileVersions]
    /\ booted \in Files
    /\ todo \subseteq Streams
    /\ restarts \in 0 .. MaxRestarts

WatcherInit ==
    /\ file = [version |-> 0, content |-> InitContent]
    /\ pc = "down"
    /\ seen = 0
    /\ current = 0
    /\ new = file
    /\ http = 0
    /\ stream = [s \in Streams |-> 0]
    /\ booted = file
    /\ todo = {}
    /\ restarts = 0

-----------------------------------------------------------------------------
\* The operator writes the file.
Edit ==
    /\ file.version < MaxEdits
    /\ pc = "boot" => EditsAtBoot
    /\ \E c \in Contents :
         file' = [version |-> file.version + 1, content |-> c]
    /\ UNCHANGED <<pc, seen, current, new, http, stream, booted, todo, restarts>>

\* main: load the file, build both proxies; a start that fails is not one.
Start ==
    /\ pc = "down"
    /\ Acceptable(file.content)
    /\ pc' = "boot"
    /\ booted' = file
    /\ http' = file.version
    /\ stream' = [s \in Streams |-> file.version]
    /\ UNCHANGED <<file, seen, current, new, todo, restarts>>

\* The watcher task begins: it notes the modification time.
Watch ==
    /\ pc = "boot"
    /\ pc' = "sleep"
    /\ seen' = file.version
    /\ UNCHANGED <<file, current, new, http, stream, booted, todo, restarts>>

\* Every two seconds: compare the modification time with last_modified.
Poll ==
    /\ pc = "sleep"
    /\ file.version # seen
    /\ current' = file.version
    /\ pc' = "load"
    /\ UNCHANGED <<file, seen, new, http, stream, booted, todo, restarts>>

\* Config::load reads what the file holds by now.  If that fails the old
\* last_modified stays, so that the next poll tries again.
Load ==
    /\ pc = "load"
    /\ new' = file
    /\ pc' = IF file.content.loads THEN "http" ELSE "sleep"
    /\ UNCHANGED <<file, seen, current, http, stream, booted, todo, restarts>>

\* The listeners of the new file are not the ones the process was started
\* with: a name came, went or has another address.
listener_set_changed == new.content.listeners # booted.content.listeners

\* Mutant: streams are reloaded whatever the listeners are.
ReloadHttpAlways ==
    /\ pc = "http"
    /\ http' = IF new.content.http THEN new.version ELSE http
    /\ todo' = Streams
    /\ pc' = "streams"
    /\ UNCHANGED <<file, seen, current, new, stream, booted, restarts>>

\* http_reload_handle.reload: an error is only logged.  Streams are reloaded
\* only if the set of listeners is the running one.
ReloadHttp ==
    /\ pc = "http"
    /\ http' = IF new.content.http THEN new.version ELSE http
    /\ todo' = IF listener_set_changed THEN {} ELSE Streams
    /\ pc' = "streams"
    /\ UNCHANGED <<file, seen, current, new, stream, booted, restarts>>

\* proxy.reload for one stream: an error is only logged.
ReloadStream ==
    /\ pc = "streams"
    /\ \E s \in todo :
         /\ todo' = todo \ {s}
         /\ stream' = [stream EXCEPT ![s] = IF s \in new.content.bad THEN @ ELSE new.version]
    /\ UNCHANGED <<file, pc, seen, current, new, http, booted, restarts>>

\* Mutant: the modification time is taken when the reload is over.
RememberLate ==
    /\ pc = "streams"
    /\ todo = {}
    /\ seen' = file.version
    /\ pc' = "sleep"
    /\ UNCHANGED <<file, current, new, http, stream, booted, todo, restarts>>

\* last_modified = current_modified.
Remember ==
    /\ pc = "streams"
    /\ todo = {}
    /\ seen' = current
    /\ pc' = "sleep"
    /\ UNCHANGED <<file, current, new, http, stream, booted, todo, restarts>>

\* The process ends, by order or by accident.
Stop ==
    /\ pc # "down"
    /\ restarts < MaxRestarts
    /\ restarts' = restarts + 1
    /\ pc' = "down"
    /\ todo' = {}
    /\ UNCHANGED <<file, seen, current, new, http, stream, booted>>

WatcherStep ==
    Start \/ Watch \/ Poll \/ Load \/ ReloadHttp \/ ReloadStream \/ Remember

WatcherNext == Edit \/ WatcherStep \/ Stop

WatcherSpec == WatcherInit /\ [][WatcherNext]_watcherVars

\* A process that is down is started again and the watcher task is run.
FairSpec == WatcherSpec /\ WF_watcherVars(WatcherStep)

-----------------------------------------------------------------------------
\* What runs is what the file says, as far as it can be without a restart.
Applied ==
    /\ http = file.version
    /\ file.content.listeners = booted.content.listeners =>
           \A s \in Streams : stream[s] = file.version

(***************************************************************************)
(* The watcher never rests on a stale configuration: between two polls,    *)
(* when last_modified is the file's time, an acceptable file is what runs. *)
(* The file may change between the look at its time and its reading, and   *)
(* while it is being applied.                                              *)
(***************************************************************************)
RestsOnlyWhenApplied ==
    (pc = "sleep" /\ seen = file.version /\ Acceptable(file.content)) => Applied

(***************************************************************************)
(* A stream never runs routes of a configuration with other listeners than *)
(* the ones bound (main.rs, "If the set changed we preserve the running    *)
(* stream config"): no version a stream took up came with other listeners. *)
(***************************************************************************)
StreamsMatchListeners ==
    [][\A s \in Streams :
         stream'[s] # stream[s] => new'.content.listeners = booted'.content.listeners
                                   \/ pc' = "boot"]_watcherVars

(***************************************************************************)
(* docs/src/usage.md:135, "Wicket watches the config file for changes and  *)
(* automatically reloads routes and upstreams without restarting": in the  *)
(* end an acceptable file is what runs, whenever it was written.           *)
(***************************************************************************)
EventuallyApplied == <>[](Acceptable(file.content) => Applied)

(***************************************************************************)
(* docs/src/usage.md:135, "The reload is atomic -- if the new config is    *)
(* invalid, the running config is preserved": between two polls the HTTP   *)
(* proxy and the streams run the same configuration, unless one with other *)
(* listeners has been loaded.                                              *)
(***************************************************************************)
ReloadIsAtomic ==
    (pc = "sleep" /\ new.content.listeners = booted.content.listeners) =>
        \A s \in Streams : stream[s] = http

(***************************************************************************)
(* docs/src/usage.md:137, "Unchanged listeners can hot-reload              *)
(* routes/upstreams/timeouts": once a file is applied, the timeouts, which *)
(* are those of the configuration the process was started with, are the    *)
(* file's.                                                                 *)
(***************************************************************************)
TimeoutsFollow ==
    (pc = "sleep" /\ seen = file.version /\ Acceptable(file.content)
        /\ file.content.listeners = booted.content.listeners)
        => booted.version = file.version
=============================================================================
