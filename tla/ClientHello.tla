----------------------------- MODULE ClientHello -----------------------------
(***************************************************************************)
(* The server name in the bytes a stream listener peeks at.                *)
(*                                                                         *)
(* Source: crates/wicket-stream/src/sni.rs (extract_sni and its readers).  *)
(* handle_connection peeks once: the bytes are whatever part of the TLS    *)
(* ClientHello has arrived by then.  A buffer is a sequence of bytes, a    *)
(* position counts from 0 as the code's cursor does; every failed read or  *)
(* skip, and every truncation, ends in NoName.                             *)
(***************************************************************************)
EXTENDS Naturals, Sequences

CONSTANT NoName     \* extract_sni returned None

TLS_HANDSHAKE          == 22
HANDSHAKE_CLIENT_HELLO == 1
EXT_SERVER_NAME        == 0
NAME_TYPE_HOSTNAME     == 0
MAX_HOSTNAME_LEN       == 253

\* read_u8, read_u16 and read_u24; the caller sees to it that they can.
Can(buf, pos, n) == pos + n <= Len(buf)
U8(buf, pos)     == buf[pos + 1]
U16(buf, pos)    == 256 * U8(buf, pos) + U8(buf, pos + 1)
U24(buf, pos)    == 65536 * U8(buf, pos) + U16(buf, pos + 1)

\* std::str::from_utf8; of the bytes above 127 only stray ones are told apart.
IsUtf8(bytes) == \A i \in DOMAIN bytes : bytes[i] < 128

HandshakeStart == 9
SessionId      == HandshakeStart + 2 + 32

\* Where the cipher suites, the compression methods and the extensions are,
\* once what comes before them can be read.
CipherSuites(buf) == SessionId + 1 + U8(buf, SessionId)
Compression(buf)  == CipherSuites(buf) + 2 + U16(buf, CipherSuites(buf))
Extensions(buf)   == Compression(buf) + 1 + U8(buf, Compression(buf))

HandshakeEnd(buf) == HandshakeStart + U24(buf, 6)

\* The record and the handshake are complete, and extensions follow.
HasExtensions(buf) ==
    /\ Can(buf, 0, 1) /\ U8(buf, 0) = TLS_HANDSHAKE
    /\ Can(buf, 3, 2) /\ Can(buf, 5, U16(buf, 3))
    /\ Can(buf, 5, 1) /\ U8(buf, 5) = HANDSHAKE_CLIENT_HELLO
    /\ Can(buf, 6, 3) /\ Can(buf, HandshakeStart, U24(buf, 6))
    /\ Can(buf, SessionId, 1)
    /\ Can(buf, CipherSuites(buf), 2)
    /\ Can(buf, Compression(buf), 1)
    /\ Can(buf, Extensions(buf), 0)
    /\ Extensions(buf) < HandshakeEnd(buf)
    /\ Can(buf, Extensions(buf), 2)

\* The first host name of the list at pos.
ServerName(buf, pos) ==
    LET end == pos + 2 + U16(buf, pos)
        name[p \in 0 .. Len(buf)] ==
            IF p >= end \/ ~Can(buf, p, 3) THEN NoName
            ELSE LET n == U16(buf, p + 1)
                     bytes == SubSeq(buf, p + 4, p + 3 + n)
                 IN IF U8(buf, p) # NAME_TYPE_HOSTNAME
                    THEN IF Can(buf, p + 3, n) THEN name[p + 3 + n] ELSE NoName
                    ELSE IF n <= MAX_HOSTNAME_LEN /\ Can(buf, p + 3, n) /\ IsUtf8(bytes)
                         THEN bytes ELSE NoName
    IN IF Can(buf, pos, 2) THEN name[pos + 2] ELSE NoName

\* The first server_name extension decides; the others are passed over, and
\* one that claims to reach beyond the buffer ends the search.
extract_sni(buf) ==
    LET first == Extensions(buf) + 2
        end == first + U16(buf, Extensions(buf))
        scan[p \in 0 .. Len(buf)] ==
            IF p >= end \/ ~Can(buf, p, 4) THEN NoName
            ELSE IF U16(buf, p) = EXT_SERVER_NAME THEN ServerName(buf, p + 4)
            ELSE IF Can(buf, p + 4, U16(buf, p + 2)) THEN scan[p + 4 + U16(buf, p + 2)]
            ELSE NoName
    IN IF HasExtensions(buf) THEN scan[first] ELSE NoName
=============================================================================
