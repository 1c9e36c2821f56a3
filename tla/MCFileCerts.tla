------------------------------ MODULE MCFileCerts ------------------------------
(* Small instances of FileCerts for TLC. *)
EXTENDS FileCerts, Sequences, SequencesExt

CONSTANTS c1, c2
-----------------------------------------------------------------------------
(* Which certificate a client gets. *)

S == INSTANCE CertSelection WITH Nothing <- None, LowerCase <- [A |-> "a"]

Hosts    == {<<"a">>, <<"a", "c">>, <<"A", "c">>, <<"b", "c">>, <<"b", "a", "c">>}
Names    == Hosts \cup {<<"*", "c">>, <<"*", "a", "c">>}
Domains  == {{}} \cup {{x} : x \in Names} \cup {{<<"a", "c">>, <<"*", "c">>}}
Shelves  == {S!insert(S!insert(e, x, 1), y, 2) :
                e \in {S!EmptyStore, S!set_default(S!EmptyStore, 3)}, x, y \in Domains}

\* RFC 6125: a wildcard stands for exactly one label.
Covers(domain, host) ==
    \/ S!Lower(domain) = S!Lower(host)
    \/ S!IsWildcard(domain) /\ Len(host) >= 2 /\ S!Lower(Tail(domain)) = S!Lower(Tail(host))

\* A client gets a certificate that was inserted for its name if there is
\* one, an exact one before a wildcard and a later one before an earlier,
\* whatever the case of the letters, and otherwise the default.
ASSUME ServedIsCovered ==
    \A x, y \in Domains, default \in {None, 3}, host \in Hosts :
        LET shelf == S!insert(S!insert([S!EmptyStore EXCEPT !.default = default], x, 1), y, 2)
            got == S!resolve(shelf, host)
            lower(set) == {S!Lower(d) : d \in set}
            covered(set) == \E d \in set : Covers(d, host)
        IN /\ got.cert = 1 => covered(x)
           /\ got.cert = 2 => covered(y)
           /\ got.cert \notin {1, 2} => got.cert = default /\ ~covered(x) /\ ~covered(y)
           /\ got.outcome = "Wildcard" => S!Lower(host) \notin lower(x) \cup lower(y)
           /\ got.outcome = "Exact" /\ S!Lower(host) \in lower(y) => got.cert = 2

\* A connection that comes up has told its name, so that the proxy can hold
\* every request's Host against it; without a name there is none.
ASSUME NamesComeAlong ==
    \A shelf \in Shelves, sni \in Hosts \cup {None}, late, broken \in BOOLEAN :
        LET c == S!handshake(shelf, [sni |-> sni, late |-> late, broken |-> broken])
        IN c.up => c.sni # None /\ c.cert # None /\ ~S!is_empty(shelf)

\* A store that is not empty serves somebody, an empty one nobody.
ASSUME EmptyServesNobody ==
    \A shelf \in Shelves :
        S!is_empty(shelf) <=> \A host \in Hosts : S!resolve(shelf, host).cert = None

Zones == SUBSET {<<"c">>, <<"a", "c">>, <<"b", "a", "c">>}

\* The zone is the closest one around the domain: no other zone lies between,
\* and a wildcard has the zone of its base.
ASSUME ClosestZone ==
    \A zones \in Zones, domain \in Names :
        LET z == S!get_zone_id(zones, domain)
        IN /\ z # None => z \in zones /\ IsSuffix(z, domain) /\ Len(z) >= 2
           /\ \A other \in zones : Len(other) >= 2 /\ IsSuffix(other, domain) => z # None /\ Len(z) >= Len(other)
           /\ S!IsWildcard(domain) /\ Len(domain) > 2 => z = S!get_zone_id(zones, Tail(domain))

\* A token file that is configured but cannot be read is an error: nothing
\* else is tried in its place.
ASSUME TokenFileFirst ==
    \A file \in {None, "f"}, var \in {None, "v"}, files \in {<<>>, [f |-> 1]}, env \in {<<>>, [v |-> 2]} :
        LET token == S!resolve_api_token([file |-> file, token |-> 3, var |-> var], files, env)
        IN /\ token = 2 => file = None /\ var = "v"
           /\ token = 3 => file = None /\ var = None
           /\ file = "f" /\ files = <<>> => token = None

\* A key file holds what is between its first BEGIN and its first END.
ASSUME FirstBlockOnly ==
    \A lines \in UNION {[1..n -> {"BEGIN", "END", "x"}] : n \in 0..4} :
        LET body == S!pem_to_der(lines)
        IN /\ \A i \in DOMAIN body : body[i] = "x"
           /\ body # <<>> => /\ \E i \in DOMAIN lines : lines[i] = "BEGIN"
                            /\ Head(lines) # "END"

\* No refusal is taken for a success, but for a deletion that was refused
\* without an error.
ASSUME RefusalsShow ==
    \A ok, parses \in BOOLEAN, errors \in {<<>>, <<1>>} :
        LET reply == [ok |-> ok, parses |-> parses, errors |-> errors]
        IN /\ S!handle_response(reply) = "Ok" => ok
           /\ S!delete(reply) = "Ok" => ok \/ errors = <<>>
=============================================================================
