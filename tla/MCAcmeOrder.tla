----------------------------- MODULE MCAcmeOrder -----------------------------
(* Small instances of AcmeOrder for TLC. *)
EXTENDS AcmeOrder

DistinctNames == [k \in Authz |-> k]

\* An apex and its wildcard: both identifiers are the apex.
SharedName == [k \in Authz |-> 1]

EitherNames == {DistinctNames, SharedName}
=============================================================================
