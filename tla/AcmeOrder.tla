------------------------------ MODULE AcmeOrder ------------------------------
(***************************************************************************)
(* The account and one certificate's orders: DNS-01 challenge records,     *)
(* their validation by the ACME server, and the clean-up.                  *)
(*                                                                         *)
(* Source: crates/wicket-tls/src/acme/mod.rs (obtain_cert,                 *)
(* get_or_create_account, create_dns_challenge_records,                    *)
(* notify_dns_challenges_ready, cleanup_dns_records), with the record      *)
(* operations of acme/cloudflare.rs and the account file of                *)
(* acme/storage.rs.  The ACME server and the DNS zone are external.        *)
(*                                                                         *)
(* An order has one authorization per domain.  Its TXT record is named     *)
(* after the identifier, which for a wildcard is the base domain, so two   *)
(* authorizations may share a name: whether they do is chosen with the     *)
(* certificate, at first.  A record is known by the attempt and the        *)
(* authorization it was created for.                                       *)
(***************************************************************************)
EXTENDS Integers, FiniteSets

CONSTANTS
    NumAuthz,       \* domains of the certificate
    Namings,        \* the TXT record names the authorizations may have
    MaxAttempts,    \* bound: orders
    MaxFailures     \* bound: failed requests and crashes

Authz == 1 .. NumAuthz

ASSUME AcmeOrderAssumption ==
    /\ NumAuthz \in Nat \ {0}
    /\ \A names \in Namings : DOMAIN names = Authz
    /\ MaxAttempts \in Nat
    /\ MaxFailures \in Nat

Attempts == 0 .. MaxAttempts
Records  == Attempts \X Authz

VARIABLES
    txt_name,   \* the record name of each authorization
    step,       \* where obtain_cert is
    saved,      \* the account's credentials are in storage
    attempt,    \* number of the last order
    i,          \* authorization the loop is at
    stale,      \* record ids listed for deletion
    mine,       \* record_ids
    dns,        \* records in the zone
    authz,      \* status of each authorization of the order, at the server
    result,     \* how the last call ended, or will end after the clean-up
    failures,   \* failures so far
    excused     \* history: records that a failed request left behind

orderVars == <<txt_name, step, saved, attempt, i, stale, mine, dns, authz, result, failures, excused>>

Results == {"none", "issued", "invalid", "error", "unclean"}

OrderTypeOK ==
    /\ txt_name \in Namings
    /\ step \in {"idle", "account", "save", "order", "create", "delete", "notify",
                "poll", "finalize", "cleanup"}
    /\ saved \in BOOLEAN
    /\ attempt \in Attempts
    /\ i \in 1 .. NumAuthz + 1
    /\ stale \subseteq Records
    /\ mine \subseteq Records
    /\ dns \subseteq Records
    /\ authz \in [Authz -> {"pending", "processing", "valid", "invalid"}]
    /\ result \in Results
    /\ failures \in 0 .. MaxFailures
    /\ excused \subseteq Records

OrderInit ==
    /\ txt_name \in Namings
    /\ step = "idle"
    /\ saved = FALSE
    /\ attempt = 0
    /\ i = 1
    /\ stale = {}
    /\ mine = {}
    /\ dns = {}
    /\ authz = [k \in Authz |-> "pending"]
    /\ result = "none"
    /\ failures = 0
    /\ excused = {}

-----------------------------------------------------------------------------
Record(k) == <<attempt, k>>
SameName(k) == {r \in dns : txt_name[r[2]] = txt_name[k]}

Failure == failures < MaxFailures /\ failures' = failures + 1

\* A call of obtain_cert, the first one or another after a failure.
Begin ==
    /\ step = "idle"
    /\ result # "issued"
    /\ attempt < MaxAttempts
    /\ step' = "account"
    /\ UNCHANGED <<txt_name, saved, attempt, i, stale, mine, dns, authz, result, failures, excused>>

\* get_or_create_account: the account of an earlier call ...
LoadAccount ==
    /\ step = "account"
    /\ saved
    /\ step' = "order"
    /\ UNCHANGED <<txt_name, saved, attempt, i, stale, mine, dns, authz, result, failures, excused>>

\* ... or a new one, which has no authorizations yet ...
CreateAccount ==
    /\ step = "account"
    /\ ~saved
    /\ authz' = [k \in Authz |-> "pending"]
    /\ step' = "save"
    /\ UNCHANGED <<txt_name, saved, attempt, i, stale, mine, dns, result, failures, excused>>

\* ... and whose credentials are lost if they are not saved.
SaveAccount ==
    /\ step = "save"
    /\ saved' = TRUE
    /\ step' = "order"
    /\ UNCHANGED <<txt_name, attempt, i, stale, mine, dns, authz, result, failures, excused>>

\* No account, no token, no zone or no order: `?` returns.
SetupFails ==
    /\ step \in {"account", "save", "order"}
    /\ Failure
    /\ step' = "idle"
    /\ result' = "error"
    /\ UNCHANGED <<txt_name, saved, attempt, i, stale, mine, dns, authz, excused>>

\* Token and zone are there, and the order; the server may reuse what the
\* account has validated before and makes the other authorizations anew.
NewOrder ==
    /\ step = "order"
    /\ attempt' = attempt + 1
    /\ \E reused \in SUBSET {k \in Authz : authz[k] = "valid"} :
         authz' = [k \in Authz |-> IF k \in reused THEN "valid" ELSE "pending"]
    /\ mine' = {}
    /\ i' = 1
    /\ step' = "create"
    /\ UNCHANGED <<txt_name, saved, stale, dns, result, failures, excused>>

\* create_dns_challenge_records: an authorization that is valid is skipped.
SkipValid ==
    /\ step \in {"create", "notify"}
    /\ i \in Authz
    /\ authz[i] = "valid"
    /\ i' = i + 1
    /\ UNCHANGED <<txt_name, saved, step, attempt, stale, mine, dns, authz, result, failures, excused>>

\* Mutant: stale records are never looked for.
ListNothing ==
    /\ step = "create"
    /\ i \in Authz
    /\ authz[i] # "valid"
    /\ step' = "delete"
    /\ stale' = {}
    /\ UNCHANGED <<txt_name, saved, attempt, i, mine, dns, authz, result, failures, excused>>

\* Mutant: the listing is not narrowed to the name.
ListAll ==
    /\ step = "create"
    /\ i \in Authz
    /\ authz[i] # "valid"
    /\ step' = "delete"
    /\ stale' = dns
    /\ UNCHANGED <<txt_name, saved, attempt, i, mine, dns, authz, result, failures, excused>>

\* list_txt_records: every record with the name; an error only warns.
ListStale ==
    /\ step = "create"
    /\ i \in Authz
    /\ authz[i] # "valid"
    /\ step' = "delete"
    /\ \/ /\ stale' = SameName(i)
          /\ UNCHANGED <<failures, excused>>
       \/ /\ Failure
          /\ stale' = {}
          /\ excused' = excused \cup SameName(i)
    /\ UNCHANGED <<txt_name, saved, attempt, i, mine, dns, authz, result>>

\* delete_txt_record for each of them; an error only warns.
DeleteStale ==
    /\ step = "delete"
    /\ \E r \in stale :
         /\ stale' = stale \ {r}
         /\ \/ dns' = dns \ {r} /\ UNCHANGED <<failures, excused>>
            \/ Failure /\ excused' = excused \cup {r} /\ UNCHANGED dns
    /\ UNCHANGED <<txt_name, saved, step, attempt, i, mine, authz, result>>

\* create_txt_record.
Create ==
    /\ step = "delete"
    /\ stale = {}
    /\ dns' = dns \cup {Record(i)}
    /\ mine' = mine \cup {Record(i)}
    /\ i' = i + 1
    /\ step' = "create"
    /\ UNCHANGED <<txt_name, saved, attempt, stale, authz, result, failures, excused>>

\* The authorization cannot be fetched, the record cannot be created, or the
\* reply to its creation is lost with the id.
CreateFails ==
    /\ i \in Authz
    /\ step = "create" \/ (step = "delete" /\ stale = {})
    /\ Failure
    /\ \/ UNCHANGED <<dns, excused>>
       \/ step = "delete" /\ dns' = dns \cup {Record(i)} /\ excused' = excused \cup {Record(i)}
    /\ result' = "error"
    /\ step' = "cleanup"
    /\ UNCHANGED <<txt_name, saved, attempt, i, stale, mine, authz>>

\* All records are there; the wait for DNS propagation, then the second loop.
Propagate ==
    /\ step = "create"
    /\ i = NumAuthz + 1
    /\ i' = 1
    /\ step' = "notify"
    /\ UNCHANGED <<txt_name, saved, attempt, stale, mine, dns, authz, result, failures, excused>>

\* notify_dns_challenges_ready: challenge.set_ready(), which may fail.
Notify ==
    /\ step = "notify"
    /\ i \in Authz
    /\ authz[i] # "valid"
    /\ \/ /\ authz' = [authz EXCEPT ![i] = "processing"]
          /\ i' = i + 1
          /\ UNCHANGED <<step, result, failures>>
       \/ /\ Failure
          /\ result' = "error"
          /\ step' = "cleanup"
          /\ UNCHANGED <<authz, i>>
    /\ UNCHANGED <<txt_name, saved, attempt, stale, mine, dns, excused>>

Notified ==
    /\ step = "notify"
    /\ i = NumAuthz + 1
    /\ step' = "poll"
    /\ UNCHANGED <<txt_name, saved, attempt, i, stale, mine, dns, authz, result, failures, excused>>

\* The ACME server looks the record up.
Validate(k) ==
    /\ authz[k] = "processing"
    /\ authz' = [authz EXCEPT ![k] = IF Record(k) \in dns THEN "valid" ELSE "invalid"]
    /\ UNCHANGED <<txt_name, saved, step, attempt, i, stale, mine, dns, result, failures, excused>>

\* poll_ready: the order is ready, or invalid ...
PollReady ==
    /\ step = "poll"
    /\ \/ /\ \A k \in Authz : authz[k] = "valid"
          /\ step' = "finalize"
          /\ UNCHANGED result
       \/ /\ \E k \in Authz : authz[k] = "invalid"
          /\ step' = "cleanup"
          /\ result' = "invalid"
    /\ UNCHANGED <<txt_name, saved, attempt, i, stale, mine, dns, authz, failures, excused>>

\* ... finalize_csr and poll_certificate succeed ...
Finalize ==
    /\ step = "finalize"
    /\ step' = "cleanup"
    /\ result' = "issued"
    /\ UNCHANGED <<txt_name, saved, attempt, i, stale, mine, dns, authz, failures, excused>>

\* ... or one of the three fails and `?` returns without the clean-up.
PollFails ==
    /\ step \in {"poll", "finalize"}
    /\ Failure
    /\ step' = "idle"
    /\ result' = "unclean"
    /\ UNCHANGED <<txt_name, saved, attempt, i, stale, mine, dns, authz, excused>>

\* cleanup_dns_records: delete what this call created; an error only warns.
\* A record that another authorization of the order has deleted is gone.
CleanUp ==
    /\ step = "cleanup"
    /\ \E r \in mine :
         /\ mine' = mine \ {r}
         /\ \/ dns' = dns \ {r} /\ UNCHANGED <<failures, excused>>
            \/ Failure /\ excused' = excused \cup {r} /\ UNCHANGED dns
    /\ UNCHANGED <<txt_name, saved, step, attempt, i, stale, authz, result>>

CleanedUp ==
    /\ step = "cleanup"
    /\ mine = {}
    /\ step' = "idle"
    /\ UNCHANGED <<txt_name, saved, attempt, i, stale, mine, dns, authz, result, failures, excused>>

\* The process dies; its record ids are lost, the records are not.
CrashOrder ==
    /\ step # "idle"
    /\ Failure
    /\ step' = "idle"
    /\ stale' = {}
    /\ mine' = {}
    /\ result' = "unclean"
    /\ UNCHANGED <<txt_name, saved, attempt, i, dns, authz, excused>>

ObtainStep ==
    \/ Begin \/ LoadAccount \/ CreateAccount \/ SaveAccount \/ NewOrder
    \/ SkipValid \/ ListStale \/ DeleteStale \/ Create \/ Propagate
    \/ Notify \/ Notified \/ PollReady \/ Finalize \/ CleanUp \/ CleanedUp

OrderNext ==
    \/ ObtainStep \/ SetupFails \/ CreateFails \/ PollFails \/ CrashOrder
    \/ \E k \in Authz : Validate(k)

OrderSpec == OrderInit /\ [][OrderNext]_orderVars

\* The task runs, the server validates, and a failed call is made again
\* (initialize at the next start, check_and_renew the next day).
FairSpec == OrderSpec /\ WF_orderVars(ObtainStep) /\ \A k \in Authz : WF_orderVars(Validate(k))

-----------------------------------------------------------------------------
\* No later authorization of the order has the record name of this one.
LastOfName(k) == \A l \in Authz : l > k => txt_name[l] # txt_name[k]

(***************************************************************************)
(* acme/mod.rs:448, before a record is created: "Delete any stale          *)
(* challenge records from previous failed attempts."  Deleting spares the  *)
(* records of this attempt but for those with the very name: when the      *)
(* server is told that a challenge is ready, its record is in the zone,    *)
(* unless a later authorization of the order has the same record name (a   *)
(* domain and its wildcard), whatever failed or crashed before.            *)
(***************************************************************************)
LastChallengeInPlace ==
    step \in {"notify", "poll"} =>
        \A k \in Authz :
            (LastOfName(k) /\ authz[k] \in {"pending", "processing"}) => Record(k) \in dns

(***************************************************************************)
(* However calls fail, crash and are repeated, records do not pile up: of  *)
(* all records with one name at most one was not left behind by a failed   *)
(* request to the DNS provider.                                            *)
(***************************************************************************)
NoPileUp ==
    \A k \in Authz : Cardinality(SameName(k) \ excused) <= 1

(***************************************************************************)
(* With more attempts than failures the certificate is issued: records     *)
(* that earlier attempts left behind never stand in the way.  (A domain    *)
(* and its wildcard in one order are left out: the first one's record is   *)
(* gone when it is looked up.)                                             *)
(***************************************************************************)
EventuallyIssued == (\A k \in Authz : LastOfName(k)) => <>(result = "issued")

(***************************************************************************)
(* acme/mod.rs:448 taken at its word, "from previous failed attempts": no  *)
(* record of this attempt is deleted before its authorization is decided.  *)
(***************************************************************************)
ChallengeInPlace ==
    step \in {"notify", "poll"} =>
        \A k \in Authz : authz[k] \in {"pending", "processing"} => Record(k) \in dns
=============================================================================
