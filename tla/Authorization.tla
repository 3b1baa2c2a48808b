---------------------------- MODULE Authorization ----------------------------
(***************************************************************************)
(* How a target comes to be tested: operators prove its ownership, write an *)
(* authorization record and create an assessment that is bound to it        *)
(* (api/routers/targets.py, services/ownership.py,                          *)
(* services/assessment_service.py).                                         *)
(*                                                                          *)
(* One target of one organisation; each handler is one transaction.  A      *)
(* record is never changed after it is written.  A row of ownership changes *)
(* in its status alone, which no verification reads: one that awaits its    *)
(* answer is the step in which it writes, whatever others wrote meanwhile.  *)
(***************************************************************************)
EXTENDS Scope, FiniteSets

CONSTANTS
    Ownership,     \* rows of ownership_verifications
    BaseHost,      \* the host of the target's base_url
    LoopbackHost,  \* hosts that lab_bundled trusts
    Body           \* bodies of requests for an authorization: a Grant each

ASSUME AuthorizationAssumption ==
    /\ BaseHost \in Host
    /\ LoopbackHost \subseteq Host
    /\ Body \subseteq Grant

VARIABLES
    ownership,  \* the rows: method and status
    proven,     \* history: rows that have been verified at some time
    record,     \* the authorization record that operators go on with
    assessed    \* an assessment is bound to it

authVars == <<ownership, proven, record, assessed>>

OwnershipMethod == {"dns_txt", "http_file", "manual_attestation", "lab_bundled"}

Status == {"pending", "verified", "failed"}

NoRow == [method |-> "none", status |-> "none"]

NoRecord == [status |-> "none"]

\* owners: the ownership row behind a record, {} for one that is pending.
Records ==
    [status : {"pending", "verified"}, grant : Grant, owners : SUBSET Ownership]

AuthTypeOK ==
    /\ ownership \in [Ownership -> [method : OwnershipMethod, status : Status] \cup {NoRow}]
    /\ proven \subseteq Ownership
    /\ record \in Records \cup {NoRecord}
    /\ assessed \in BOOLEAN

AuthInit ==
    /\ ownership = [o \in Ownership |-> NoRow]
    /\ proven = {}
    /\ record = NoRecord
    /\ assessed = FALSE

\* Mistake: without a resolver for TXT records there is no outcome.
verify_without_outcome(method, found, attested, asked) ==
    CASE method = "lab_bundled" -> IF BaseHost \in LoopbackHost THEN "verified" ELSE "failed"
      [] method = "manual_attestation" -> IF attested THEN "verified" ELSE "failed"
      [] method = "dns_txt" /\ ~asked -> "none"
      [] OTHER -> IF found THEN "verified" ELSE "failed"

\* What a verification concludes: found says whether the token is where the
\* method looks for it, attested whether an attestation of 32 characters came
\* along, asked whether the resolver for TXT records is installed.
verify_ownership(method, found, attested, asked) ==
    CASE method = "lab_bundled" -> IF BaseHost \in LoopbackHost THEN "verified" ELSE "failed"
      [] method = "manual_attestation" -> IF attested THEN "verified" ELSE "failed"
      [] method = "dns_txt" /\ ~asked -> "pending"
      [] OTHER -> IF found THEN "verified" ELSE "failed"

SetOwnership(o, method, status) ==
    /\ ownership' = [ownership EXCEPT ![o] = [method |-> method, status |-> status]]
    /\ proven' = IF status = "verified" THEN proven \cup {o} ELSE proven
    /\ UNCHANGED <<record, assessed>>

\* A new row; two of the methods are decided at once.
start_ownership(o, method, attested) ==
    /\ ownership[o] = NoRow
    /\ SetOwnership(o, method,
           IF method \in {"lab_bundled", "manual_attestation"}
           THEN verify_ownership(method, FALSE, attested, FALSE)
           ELSE "pending")

\* The endpoint has no attestation to pass on.
verify_ownership_endpoint(o, found, asked) ==
    /\ ownership[o] # NoRow
    /\ SetOwnership(o, ownership[o].method,
           verify_ownership(ownership[o].method, found, FALSE, asked))

VerifiedRows == {o \in Ownership : ownership[o].status = "verified"}

\* A body without hosts means the target's own.
HostsOf(body) == IF body.hosts = {} THEN {BaseHost} ELSE body.hosts

\* Mistake: a record counts as verified as soon as somebody has started to
\* prove the ownership.
authorize_once_started(body, invasive) ==
    /\ ~assessed
    /\ BaseHost \in HostsOf(body) \/ VerifiedRows # {}
    /\ ~(invasive /\ body.environment = "production")
    /\ \E o \in Ownership :
          /\ ownership[o] # NoRow
          /\ record' = [status |-> "verified",
                        grant |-> [body EXCEPT !.hosts = HostsOf(body)], owners |-> {o}]
    /\ UNCHANGED <<ownership, proven, assessed>>

\* A record is verified if some row is when it is written, and stays so.  One
\* that no assessment is bound to may be written anew.
create_authorization(body, invasive) ==
    /\ ~assessed
    /\ BaseHost \in HostsOf(body) \/ VerifiedRows # {}
    /\ ~(invasive /\ body.environment = "production")
    /\ \E owners \in IF VerifiedRows = {} THEN {{}} ELSE {{o} : o \in VerifiedRows} :
          record' = [status |-> IF VerifiedRows = {} THEN "pending" ELSE "verified",
                     grant  |-> [body EXCEPT !.hosts = HostsOf(body)],
                     owners |-> owners]
    /\ UNCHANGED <<ownership, proven, assessed>>

create_assessment ==
    /\ ~assessed
    /\ record.status = "verified"
    /\ assessed' = TRUE
    /\ UNCHANGED <<ownership, proven, record>>

AuthNext ==
    \/ \E o \in Ownership :
          \/ \E m \in OwnershipMethod, attested \in BOOLEAN : start_ownership(o, m, attested)
          \/ \E found, asked \in BOOLEAN : verify_ownership_endpoint(o, found, asked)
    \/ \E body \in Body, invasive \in BOOLEAN : create_authorization(body, invasive)
    \/ create_assessment
=============================================================================
