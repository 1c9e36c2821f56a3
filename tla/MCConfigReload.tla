---------------------------- MODULE MCConfigReload ----------------------------
(* Small instances of ConfigReload for TLC. *)
EXTENDS ConfigReload

CONSTANTS s1, s2, None

Good      == [loads |-> TRUE,  http |-> TRUE,  bad |-> {},   listeners |-> 0]
Garbled   == [loads |-> FALSE, http |-> FALSE, bad |-> {},   listeners |-> 0]
BadHost   == [loads |-> TRUE,  http |-> FALSE, bad |-> {},   listeners |-> 0]
BadServer == [loads |-> TRUE,  http |-> TRUE,  bad |-> {s1}, listeners |-> 0]
Rebound   == [loads |-> TRUE,  http |-> TRUE,  bad |-> {},   listeners |-> 1]

AllContents == {Good, Garbled, BadHost, BadServer, Rebound}
-----------------------------------------------------------------------------
(* The start of the process. *)

P == INSTANCE ProcessStart WITH Missing <- None

Args == [dump_schema : BOOLEAN, dump_config : BOOLEAN, validate : BOOLEAN, upgrade : BOOLEAN]

\* A call that only asks never serves, and one that serves has loaded its
\* configuration.
ASSUME AskingNeverServes ==
    \A args \in Args, loaded \in BOOLEAN :
        P!bootstrap(args, loaded) = "run" =>
            loaded /\ ~args.dump_schema /\ ~args.dump_config /\ ~args.validate

Tls == {None} \cup [mode : {"file", "acme", "mixed"}, file : BOOLEAN, acme : BOOLEAN]
Steps == {"file", "acme", "proxy", "streams", "bootstrap", "pid", "notify"}

\* A process that runs has had a source of certificates if TLS is asked for,
\* and has not been started to take over from one with stream listeners.
ASSUME RunsOnlyComplete ==
    \A tls \in Tls, streams, upgrade \in BOOLEAN, fails \in {{}} \cup {{x} : x \in Steps} \cup {{"file", "acme"}} :
        P!run_server([tls |-> tls, streams |-> streams], [upgrade |-> upgrade], fails) = "running" =>
            /\ ~(streams /\ upgrade)
            /\ fails \cap {"proxy", "streams", "bootstrap", "pid", "notify"} = {}
            /\ tls # None => P!TlsParts(tls) # <<>> /\ \A i \in DOMAIN P!TlsParts(tls) : P!TlsParts(tls)[i] \notin fails

\* The computed HTTPS port is the HTTP port of no listener that computes
\* one, below the ports where the sum is cut off (main.rs:1212).
ASSUME HttpsPortsDiffer ==
    /\ \A p \in 1..65172 : P!compute_https_addr(p) # p /\ P!compute_https_addr(p) <= 65535
    /\ \A p, q \in 1..500 : p # q => P!compute_https_addr(p) # P!compute_https_addr(q)
    /\ P!compute_https_addr(65535) = 65535 /\ P!compute_https_addr(65300) = P!compute_https_addr(65400)

\* HTTP and HTTPS do not contend for a port when HTTP is turned off, or when
\* the port of HTTPS is computed and no other listener has it.
ASSUME PortsApart ==
    \A off, tls \in BOOLEAN, port \in {80, 443, 8080}, https \in {None, 443}, more \in {<<>>, <<81>>} :
        LET ports == P!ListenPorts([disable_http |-> off, listen |-> port, more |-> more, https |-> https], tls)
        IN off \/ https = None => \A i, j \in DOMAIN ports : i # j => ports[i] # ports[j]

\* The PID file belongs to the process that wrote it last: an old process
\* that goes away does not take its successor's file with it.
ASSUME SuccessorKeepsPid ==
    \A pidfile \in {None, 0, 1, 2}, first, second \in {1, 2} :
        first # second =>
            /\ P!drop(P!write_pid_file(P!write_pid_file(pidfile, first), second), first) = second
            /\ P!drop(P!write_pid_file(pidfile, first), first) = None

\* A socket name the check lets pass can be sent to, but for the longest
\* one, which the check lets pass and the kernel refuses (main.rs:1148).
ASSUME NotifyLengths ==
    \A len \in 0..120 :
        LET r == P!systemd_notify_ready([abstract |-> TRUE, len |-> len])
        IN /\ len <= 107 <=> r = "sent"
           /\ len = 108 <=> r = "refused"

\* The level is the first one given; an unknown one counts as info, and a
\* verbose one never opens the libraries' logs.
ASSUME LevelsInOrder ==
    \A x, y \in {None, "debug", "loud"} :
        LET level == P!log_level([level |-> x], [logging |-> y, server |-> "warning"])
            f == P!default_tracing_filter(level)
        IN /\ x # None => level = x
           /\ x = None /\ y # None => level = y
           /\ x = None /\ y = None => f.wicket = "warn"
           /\ P!json_logs([json |-> FALSE], [format |-> x, serverJson |-> TRUE]) <=> x = None
           /\ f.all \notin {"trace", "debug"} /\ (level = "loud" => f.all = "info")
=============================================================================
