---------------------------- MODULE CertSelection ----------------------------
(***************************************************************************)
(* Which certificate a TLS client gets, and what ACME needs to know before *)
(* it can order one: the credentials and the zone of a domain.             *)
(*                                                                         *)
(* Source: crates/wicket-tls/src/cert_store.rs, cert_manager.rs,           *)
(* config.rs, acme/cloudflare.rs and acme/mod.rs, and the HTTPS listener   *)
(* of crates/wicket/src/main.rs.  A host is the sequence of its labels, a  *)
(* wildcard has the label "*" in front; a store is [exact, wildcard,       *)
(* default], the first two functions from hosts to certificates.           *)
(***************************************************************************)
EXTENDS Naturals, Sequences, SequencesExt, TLC

CONSTANTS
    Nothing,        \* an optional value that is not there
    LowerCase       \* the labels that to_lowercase changes, with what it makes of them

Lower(host) ==
    [i \in DOMAIN host |-> IF host[i] \in DOMAIN LowerCase THEN LowerCase[host[i]] ELSE host[i]]

----------------------------------------------------------------------------
(* CertStore and CertManager.                                              *)

EmptyStore == [exact |-> <<>>, wildcard |-> <<>>, default |-> Nothing]

IsWildcard(host) == Len(host) >= 2 /\ host[1] = "*"

\* A later certificate for the same name replaces the earlier one.
insert(store, domains, cert) ==
    LET lower == {Lower(d) : d \in domains}
        wild == {Tail(d) : d \in {x \in lower : IsWildcard(x)}}
        plain == {d \in lower : ~IsWildcard(d)}
    IN [store EXCEPT !.exact = [d \in plain |-> cert] @@ @,
                     !.wildcard = [d \in wild |-> cert] @@ @]

set_default(store, cert) == [store EXCEPT !.default = cert]

resolve_with_outcome(store, sni) ==
    LET host == Lower(sni)
    IN CASE host \in DOMAIN store.exact -> [cert |-> store.exact[host], outcome |-> "Exact"]
         [] host \notin DOMAIN store.exact /\ Len(host) >= 2 /\ Tail(host) \in DOMAIN store.wildcard ->
               [cert |-> store.wildcard[Tail(host)], outcome |-> "Wildcard"]
         [] OTHER -> [cert |-> store.default, outcome |-> IF store.default = Nothing THEN "Miss" ELSE "Default"]

is_empty(store) == DOMAIN store.exact = {} /\ DOMAIN store.wildcard = {} /\ store.default = Nothing

\* CertManager as rustls' resolver: without a name not even the default.
resolve(store, sni) ==
    IF sni = Nothing THEN [cert |-> Nothing, outcome |-> "NoSni"] ELSE resolve_with_outcome(store, sni)

\* The HTTPS listener: a handshake fails without a certificate, may fail
\* anyway or time out; the name it used goes along with the connection.
handshake(store, hello) ==
    CASE hello.late -> [up |-> FALSE, error |-> "timeout"]
      [] ~hello.late /\ (hello.broken \/ resolve(store, hello.sni).cert = Nothing) -> [up |-> FALSE, error |-> "failure"]
      [] OTHER -> [up |-> TRUE, sni |-> hello.sni, cert |-> resolve(store, hello.sni).cert]

----------------------------------------------------------------------------
(* Credentials of the DNS provider.                                        *)

\* dns is [file, token, var]: the token's file, or the token, or the name of
\* the variable the token is a reference to.  files and env give what can be
\* read.  Nothing when there is no token.
resolve_api_token(dns, files, env) ==
    CASE dns.file # Nothing -> IF dns.file \in DOMAIN files THEN files[dns.file] ELSE Nothing
      [] dns.file = Nothing /\ dns.var # Nothing -> IF dns.var \in DOMAIN env THEN env[dns.var] ELSE Nothing
      [] OTHER -> dns.token

\* The longest ending of the domain that is a zone; never the last label
\* alone.  Nothing when the provider has none.
get_zone_id(zones, domain) ==
    LET ending(i) == SubSeq(domain, i, Len(domain))
        found == {i \in 1..(Len(domain) - 1) : ending(i) \in zones}
    IN IF found = {} THEN Nothing ELSE ending(CHOOSE i \in found : \A j \in found : i <= j)

\* A reply of the DNS provider is [ok, errors, parses].  A refused deletion
\* that names no error counts as done.
handle_response(reply) ==
    IF ~reply.ok THEN "Api" ELSE IF reply.parses THEN "Ok" ELSE "UnexpectedResponse"

delete(reply) ==
    IF reply.ok THEN "Ok"
    ELSE IF ~reply.parses THEN "Request"
    ELSE IF reply.errors # <<>> THEN "Api" ELSE "Ok"

----------------------------------------------------------------------------
\* pem_to_der: what is between the first BEGIN and the first END.
pem_to_der(lines) ==
    LET at(mark) == {i \in DOMAIN lines : lines[i] = mark}
        end == IF at("END") = {} THEN Len(lines) + 1 ELSE CHOOSE i \in at("END") : \A j \in at("END") : i <= j
        inside(i) == lines[i] # "BEGIN" /\ \E b \in at("BEGIN") : b < i
        kept == SelectSeq([i \in 1..(end - 1) |-> i], inside)
    IN [i \in DOMAIN kept |-> lines[kept[i]]]
=============================================================================
