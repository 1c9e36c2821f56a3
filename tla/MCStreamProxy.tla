---------------------------- MODULE MCStreamProxy ----------------------------
(* Small instances of StreamProxy for TLC, and the checks of the operators  *)
(* the listener is built from.                                              *)
EXTENDS StreamProxy, ClientHello, StreamBackend

(* A reference encoder of ClientHello messages. *)

Counted16(bytes) == to_be_bytes(Len(bytes)) \o bytes

Named(type, name) == <<type>> \o Counted16(name)
SniExt(list)      == to_be_bytes(EXT_SERVER_NAME) \o Counted16(Counted16(list))
OtherExt(bytes)   == <<0, 10>> \o Counted16(bytes)

\* exts is <<>> for a message without the extensions block.
Hello(sid, exts) ==
    LET body == <<3, 3>> \o Zeros(32) \o <<Len(sid)>> \o sid \o Counted16(<<19, 1>>) \o <<1, 0>>
                \o (IF exts = <<>> THEN <<>> ELSE Counted16(exts))
    IN <<TLS_HANDSHAKE, 3, 1>> \o Counted16(<<HANDSHAKE_CLIENT_HELLO, 0>> \o Counted16(body))

Sids  == {<<>>, <<7, 7, 7>>}
Hosts == {<<97>>, <<97, 46, 98>>, [i \in 1 .. MAX_HOSTNAME_LEN |-> 97]}

\* The name is found wherever it is: after other extensions, after names of
\* another type, with the bytes of the next record behind the message.
ASSUME SniFound ==
    \A sid \in Sids, host \in Hosts, first \in {<<>>, OtherExt(<<0, 0>>)},
       odd \in {<<>>, Named(9, <<0, 1>>)}, more \in {<<>>, <<23, 3, 3>>} :
        extract_sni(Hello(sid, first \o SniExt(odd \o Named(NAME_TYPE_HOSTNAME, host))) \o more) = host

\* One peek may see any part of the message: a part never gives a name, so
\* never a wrong one.
ASSUME SniOfPart ==
    \A sid \in Sids, host \in {<<97>>, <<97, 46, 98>>} :
        LET hello == Hello(sid, OtherExt(<<0>>) \o SniExt(Named(NAME_TYPE_HOSTNAME, host)))
        IN \A n \in 0 .. Len(hello) - 1 : extract_sni(SubSeq(hello, 1, n)) = NoName

\* No name: none given, one that is too long, one that is not text.
ASSUME SniRefused ==
    \A exts \in {<<>>, OtherExt(<<0>>), SniExt(<<>>), SniExt(Named(9, <<97>>)),
                 SniExt(Named(0, [i \in 1 .. MAX_HOSTNAME_LEN + 1 |-> 97])), SniExt(Named(0, <<200>>))} :
        extract_sni(Hello(<<>>, exts)) = NoName

-----------------------------------------------------------------------------
(* Endpoints, source addresses and the PROXY protocol. *)

TheAddrs == {<<"10.0.0.1:80">>}

Texts == BoundedSeq({"unix:", "/", "sock", "10.0.0.1:80"}, 3)

\* Health is found again by the text of an endpoint: the text parses back to
\* the endpoint it is of.  Only absolute paths are accepted.
ASSUME EndpointsRoundTrip ==
    \A t \in Texts :
        LET e == StreamBackendAddr(t)
        IN e # Invalid => /\ Display(e) = t
                          /\ StreamBackendAddr(Display(e)) = e
                          /\ e.unix => e.at[1] = "/" /\ (Len(e.at) > 1 => e.at[2] # "/")

\* Between two wraps of the counter any Len(ips) calls in a row use every
\* address once; at a wrap too if the number of addresses divides 2^W.
ASSUME PoolIsFair ==
    \A n \in 1 .. 4, c \in 0 .. 2^W - 1 :
        LET ips == [i \in 1 .. n |-> i]
            from[k \in 0 .. n] == IF k = 0 THEN c ELSE next_ip(ips, from[k - 1]).counter
        IN (2^W % n = 0 \/ c + n <= 2^W) => {next_ip(ips, from[k]).ip : k \in 0 .. n - 1} = ToSet(ips)

\* Every connection of a pool of one family is tried and the addresses take
\* turns; a pool of both families loses the turns of the other family's
\* addresses; a Unix socket uses up no turn.
ASSUME SourcesTakeTurns ==
    \A n \in 1 .. 3, c \in 0 .. 2^W - 1, mixed \in BOOLEAN, unix \in BOOLEAN :
        LET ips == [i \in 1 .. n |-> IF mixed /\ i = n THEN Zeros(15) \o <<i>> ELSE <<10, 0, 0, i>>]
            to == [ip |-> <<10, 0, 0, 9>>, port |-> 80]
            r == connect_backend([unix |-> unix, at |-> <<"/">>], to, ips, c)
        IN /\ unix => r = connect_backend([unix |-> FALSE, at |-> <<"/">>], to, <<>>, c)
           /\ unix => r.counter = c /\ r.tried
           /\ ~unix => r.from = next_ip(ips, c).ip /\ r.tried = ~(mixed /\ c % n = n - 1)

Addrs == [ip : {<<10, 0, 0, 1>>, V4InV6 \o <<10, 0, 0, 2>>, Zeros(15) \o <<1>>}, port : {0, 80, 65535}]

\* A receiver of either header finds both addresses in the family announced,
\* the client's own, and the length it was told.
ASSUME HeadersDecode ==
    \A c, p \in Addrs :
        LET h == encode_v2(c, p)
            n == IF h[14] = 17 THEN 4 ELSE 16
            v1 == encode_v1(c, p)
        IN /\ Len(h) = 16 + U16(h, 14)
           /\ SubSeq(h, 17, 16 + n) = c.ip
           /\ SubSeq(h, 17 + n, 16 + 2 * n) = v1[4]
           /\ U16(h, 16 + 2 * n) = c.port
           /\ U16(h, 18 + 2 * n) = p.port
           /\ v1[3] = c.ip /\ Len(v1[4]) = Len(v1[3])
           /\ (v1[2] = "TCP4") = (n = 4)

-----------------------------------------------------------------------------
\* What a listener may see of one client: its name, or only a part of it.
Client == Hello(<<>>, SniExt(Named(NAME_TYPE_HOSTNAME, <<97>>)))
Peeked == {extract_sni(SubSeq(Client, 1, n)) : n \in {40, Len(Client)}}

\* Each reload renames the one upstream; without SNI nothing matches at first.
Names     == <<"u1", "u2", "u3">>
MCNames   == [v \in Versions |-> {Names[v + 1]}]
MCRouteOf == [v \in Versions |->
                [s \in Snis |-> IF s = NoName /\ v = 0 THEN NoUpstream ELSE Names[v + 1]]]
=============================================================================
