---------------------------- MODULE StreamBackend ----------------------------
(***************************************************************************)
(* How a stream listener reaches a backend: the endpoints of its servers,  *)
(* the pool of source addresses and the PROXY protocol header.             *)
(*                                                                         *)
(* Source: crates/wicket-stream/src/endpoint.rs, pool.rs, protocol.rs      *)
(* and proxy.rs (connect_backend, parse_backend_endpoints).                *)
(* A text is the sequence of its parts ("unix:", "/", a name, or what      *)
(* parses as a socket address); an address is [ip, port], an ip its bytes. *)
(***************************************************************************)
EXTENDS Naturals, Sequences, SequencesExt

CONSTANTS
    Invalid,        \* a text that is refused
    SocketAddrs,    \* texts that parse as a socket address
    NoSource,       \* no source address is bound
    W               \* width of the pool's counter in bits

(* endpoint.rs *)

parse_unix_endpoint(path) ==
    IF path = <<>> \/ IsPrefix(<<"/", "/">>, path) \/ Head(path) # "/" THEN Invalid
    ELSE [unix |-> TRUE, at |-> path]

StreamBackendAddr(input) ==
    IF input = <<>> THEN Invalid
    ELSE IF Head(input) = "unix:" THEN parse_unix_endpoint(Tail(input))
    ELSE IF input \in SocketAddrs THEN [unix |-> FALSE, at |-> input]
    ELSE Invalid

\* The label health is kept under.
Display(endpoint) == IF endpoint.unix THEN <<"unix:">> \o endpoint.at ELSE endpoint.at

\* All servers of an upstream, or none.
parse_backend_endpoints(servers) ==
    LET all == [i \in DOMAIN servers |-> StreamBackendAddr(servers[i])]
    IN IF Invalid \in ToSet(all) THEN Invalid ELSE all

-----------------------------------------------------------------------------
(* pool.rs *)

\* fetch_add wraps; the address and the counter after the call.
next_ip(ips, counter) ==
    [ip |-> ips[(counter % Len(ips)) + 1], counter |-> (counter + 1) % 2^W]

\* bind fails if the socket, of the backend's family, cannot have the source
\* address.
configure_outbound_socket(addr, ip) == Len(addr.ip) = Len(ip)

\* What connect_backend tries before the connect itself: the source address
\* (NoSource: the kernel's choice), whether the connect is made at all, and
\* the counter.  A Unix socket and a listener without a pool use no address.
connect_backend(endpoint, addr, ips, counter) ==
    IF endpoint.unix \/ ips = <<>> THEN [from |-> NoSource, tried |-> TRUE, counter |-> counter]
    ELSE LET next == next_ip(ips, counter)
         IN [from |-> next.ip, tried |-> configure_outbound_socket(addr, next.ip),
             counter |-> next.counter]

-----------------------------------------------------------------------------
(* protocol.rs *)

is_ipv4(a) == Len(a.ip) = 4

Zeros(n) == [i \in 1 .. n |-> 0]
V4InV6   == Zeros(10) \o <<255, 255>>

to_ipv4(ip) ==
    IF Len(ip) = 4 THEN ip
    ELSE IF IsPrefix(V4InV6, ip) THEN SubSeq(ip, 13, 16) ELSE Zeros(4)

to_ipv6(ip) == IF Len(ip) = 16 THEN ip ELSE V4InV6 \o ip

\* The client decides the family, the proxy's own address is made to fit.
Fitted(client, ip) == IF is_ipv4(client) THEN to_ipv4(ip) ELSE to_ipv6(ip)

\* The words of the line.
encode_v1(client, proxy) ==
    <<"PROXY", IF is_ipv4(client) THEN "TCP4" ELSE "TCP6",
      Fitted(client, client.ip), Fitted(client, proxy.ip), client.port, proxy.port>>

PROXY_V2_SIGNATURE == <<13, 10, 13, 10, 0, 13, 10, 81, 85, 73, 84, 10>>

to_be_bytes(port) == <<port \div 256, port % 256>>

encode_v2(client, proxy) ==
    PROXY_V2_SIGNATURE
    \o (IF is_ipv4(client) THEN <<33, 17, 0, 12>> ELSE <<33, 33, 0, 36>>)
    \o Fitted(client, client.ip) \o Fitted(client, proxy.ip)
    \o to_be_bytes(client.port) \o to_be_bytes(proxy.port)
=============================================================================
