---------------------------- MODULE ProcessStart ----------------------------
(***************************************************************************)
(* What the wicket process does before it serves, and the files and        *)
(* sockets through which its supervisor knows it.                          *)
(*                                                                         *)
(* Source: crates/wicket/src/main.rs.  A path or text is a model value or  *)
(* a small number, a socket's name the number of its bytes.                *)
(***************************************************************************)
EXTENDS Naturals, Sequences, SequencesExt

CONSTANT Missing    \* an optional value that is not there, a file that is not

\* bootstrap: what one call of the program comes to.  loaded tells whether
\* the configuration could be loaded.
bootstrap(args, loaded) ==
    CASE args.dump_schema -> "schema"
      [] ~args.dump_schema /\ ~loaded -> "error"
      [] ~args.dump_schema /\ loaded /\ args.dump_config -> "dump"
      [] ~args.dump_schema /\ loaded /\ ~args.dump_config /\ args.validate -> "valid"
      [] OTHER -> "run"

\* The command line beats [logging], [logging] beats [server].
log_level(args, config) ==
    Head(SelectSeq(<<args.level, config.logging, config.server>>, LAMBDA l : l # Missing))

json_logs(args, config) ==
    args.json \/ IF config.format = Missing THEN config.serverJson ELSE config.format = "json"

Levels == {"trace", "debug", "info", "warn", "error"}

tracing_filter_level(level) ==
    IF level \in Levels THEN level ELSE IF level = "warning" THEN "warn" ELSE "info"

\* Below info only wicket's own modules speak.
default_tracing_filter(level) ==
    IF tracing_filter_level(level) \in {"trace", "debug"}
    THEN [all |-> "info", wicket |-> tracing_filter_level(level)]
    ELSE [all |-> tracing_filter_level(level), wicket |-> tracing_filter_level(level)]

----------------------------------------------------------------------------
(* run_server up to run_forever.                                           *)

\* The parts that bring certificates, in order.  A part whose section is
\* missing is passed over.
TlsParts(tls) ==
    SelectSeq(CASE tls.mode = "file" -> <<"file">>
                [] tls.mode = "acme" -> <<"acme">>
                [] tls.mode = "mixed" -> <<"file", "acme">>,
              LAMBDA part : tls[part])

\* The first step that fails, or "running".  fails is the set of steps that
\* would fail if they were reached; without any part the store stays empty.
run_server(config, args, fails) ==
    LET tls == IF config.tls = Missing THEN <<>> ELSE TlsParts(config.tls) \o <<"store">>
        steps == <<"upgrade">> \o tls \o <<"proxy", "streams", "bootstrap", "pid", "notify">>
        bad(step) == CASE step = "upgrade" -> args.upgrade /\ config.streams
                       [] step = "store" -> TlsParts(config.tls) = <<>>
                       [] OTHER -> step \in fails
        failing == SelectSeq(steps, bad)
    IN IF failing = <<>> THEN "running" ELSE Head(failing)

\* u16::saturating_add
compute_https_addr(port) ==
    IF port = 80 THEN 443 ELSE IF port + 363 > 65535 THEN 65535 ELSE port + 363

\* The ports of the HTTP and HTTPS listeners.
ListenPorts(server, tls) ==
    (IF server.disable_http THEN <<>> ELSE <<server.listen>> \o server.more)
    \o IF ~tls THEN <<>>
       ELSE <<IF server.https = Missing THEN compute_https_addr(server.listen) ELSE server.https>>

----------------------------------------------------------------------------
(* The PID file: the number in it, zero for other text, or Missing.        *)

\* PidFileGuard::install: written beside it and renamed over it.
write_pid_file(file, pid) == pid

pid_file_matches_pid(file, pid) == file = pid

\* PidFileGuard::drop
drop(file, pid) == IF pid_file_matches_pid(file, pid) THEN Missing ELSE file

\* The notification is sent, skipped without a socket, or an error.  An
\* abstract socket's name starts with @ and has so many bytes after it;
\* sockaddr_un has 110 bytes, and the kernel takes no longer address.
systemd_notify_abstract(len) ==
    IF len + 2 > 110 THEN "too long" ELSE IF 2 + 1 + len > 110 THEN "refused" ELSE "sent"

systemd_notify_ready(socket) ==
    IF socket = Missing THEN "skipped"
    ELSE IF socket.abstract THEN systemd_notify_abstract(socket.len) ELSE "sent"
=============================================================================
