---------------------------- MODULE RequestBudget ----------------------------
(***************************************************************************)
(* The request budget of one assessment: ScopeGuard.check_budget and        *)
(* note_requests as GuardedHttpClient.request of security/http_client.py    *)
(* calls them, and the count that the engine keeps in the database.         *)
(*                                                                          *)
(* Every guarded client has a guard of its own, which takes its count from  *)
(* the row when it is made and never looks there again.  A run opens one    *)
(* client, each task of steps approved later another, and under the graph   *)
(* engine the nodes that talk to the target one each.  The agents of a      *)
(* client call it concurrently and yield to each other at the rate limiter, *)
(* at the write of the count and while the request is under way.  The other *)
(* refusals of the guard leave no trace here and are left out.              *)
(***************************************************************************)
EXTENDS Integers, FiniteSets

CONSTANTS
    Client,            \* guarded clients of the assessment, each with its guard
    GraphClient,       \* those that a node of the graph engine opens
    Caller,            \* coroutines that share a client
    MaxRequests,       \* max_requests of the authorization record
    MaxPerAssessment,  \* max_requests_per_assessment of the settings
    PersistEvery,      \* every so many requests the count is written, 10 in the code
    MaxRedirects       \* hops that one request may follow, 3 in the code

ASSUME BudgetAssumption ==
    /\ GraphClient \subseteq Client
    /\ MaxRequests \in Int
    /\ MaxPerAssessment \in Int
    /\ PersistEvery \in Nat \ {0}
    /\ MaxRedirects \in Nat
    /\ IsFiniteSet(Caller)
    /\ Caller # {}

VARIABLES
    persisted,  \* assessments.requests_made
    client,     \* "new", "open", "closed", or "settled" by its graph node
    made,       \* guard.requests_made of every client
    at,         \* where a caller waits inside request()
    count,      \* the count a caller is about to persist
    hops,       \* redirects its request has followed
    noted       \* history: requests that all the guards counted

vars == <<persisted, client, made, at, count, hops, noted>>

Waiting == {"acquiring", "acquiring_hop"}

TypeOK ==
    /\ persisted \in Nat
    /\ client \in [Client -> {"new", "open", "closed", "settled"}]
    /\ made \in [Client -> Nat]
    /\ at \in [Client -> [Caller -> {"idle", "persisting", "sending"} \cup Waiting]]
    /\ count \in [Client -> [Caller -> Nat]]
    /\ hops \in [Client -> [Caller -> 0..MaxRedirects]]
    /\ noted \in Nat

Init ==
    /\ persisted = 0
    /\ client = [c \in Client |-> "new"]
    /\ made = [c \in Client |-> 0]
    /\ at = [c \in Client |-> [k \in Caller |-> "idle"]]
    /\ count = [c \in Client |-> [k \in Caller |-> 0]]
    /\ hops = [c \in Client |-> [k \in Caller |-> 0]]
    /\ noted = 0

\* No schema keeps the column positive: any integer may stand there.
Limit == IF MaxRequests < MaxPerAssessment THEN MaxRequests ELSE MaxPerAssessment

\* Mistake: the guard refuses only when the limit has been exceeded.
check_budget_late(c) == Limit # 0 => made[c] <= Limit

\* A minimum of 0 is taken for no limit.
check_budget(c) == Limit # 0 => made[c] + 1 <= Limit

note_requests(c) ==
    /\ made' = [made EXCEPT ![c] = @ + 1]
    /\ noted' = noted + 1

GoTo(c, k, place) == at' = [at EXCEPT ![c][k] = place]

\* Mistake: a new guard counts the request it is made for.
MakeGuardForRequest(c) ==
    /\ client[c] = "new"
    /\ client' = [client EXCEPT ![c] = "open"]
    /\ made' = [made EXCEPT ![c] = persisted + 1]
    /\ UNCHANGED <<persisted, at, count, hops, noted>>

\* _make_guard and the entry of the client.
OpenClient(c) ==
    /\ client[c] = "new"
    /\ client' = [client EXCEPT ![c] = "open"]
    /\ made' = [made EXCEPT ![c] = persisted]
    /\ UNCHANGED <<persisted, at, count, hops, noted>>

\* The client is closed when the run has left its phases; an execution that
\* was stopped leaves callers behind.
CloseClient(c) ==
    /\ client[c] = "open"
    /\ client' = [client EXCEPT ![c] = "closed"]
    /\ UNCHANGED <<persisted, made, at, count, hops, noted>>

\* A graph node writes the exact count once its client is closed; the inline
\* engine never does.
_persist_exact_count(c) ==
    /\ c \in GraphClient
    /\ client[c] = "closed"
    /\ client' = [client EXCEPT ![c] = "settled"]
    /\ persisted' = made[c]
    /\ UNCHANGED <<made, at, count, hops, noted>>

\* The gates of request(), up to the rate limiter.
Admit(c, k) ==
    /\ client[c] # "new"
    /\ at[c][k] = "idle"
    /\ check_budget(c)
    /\ GoTo(c, k, "acquiring")
    /\ hops' = [hops EXCEPT ![c][k] = 0]
    /\ UNCHANGED <<persisted, client, made, count, noted>>

\* The limiter lets the request pass, it is counted, and on_request gets the
\* count: every so often it goes on to write it.
Count(c, k) ==
    /\ at[c][k] = "acquiring"
    /\ note_requests(c)
    /\ count' = [count EXCEPT ![c][k] = made[c] + 1]
    /\ GoTo(c, k, IF (made[c] + 1) % PersistEvery = 0 THEN "persisting" ELSE "sending")
    /\ UNCHANGED <<persisted, client, hops>>

_persist_request_count(c, k) ==
    /\ at[c][k] = "persisting"
    /\ persisted' = count[c][k]
    /\ GoTo(c, k, "sending")
    /\ UNCHANGED <<client, made, count, hops, noted>>

\* A response that is final, a redirect too many, out of scope or budget, or
\* no response at all.
EndRequest(c, k) ==
    /\ client[c] = "open"
    /\ at[c][k] = "sending"
    /\ GoTo(c, k, "idle")
    /\ UNCHANGED <<persisted, client, made, count, hops, noted>>

\* Mistake: a hop is followed before the number of hops is looked at.
RedirectUnbounded(c, k) ==
    /\ client[c] = "open"
    /\ at[c][k] = "sending"
    /\ check_budget(c)
    /\ hops' = [hops EXCEPT ![c][k] = @ + 1]
    /\ GoTo(c, k, "acquiring_hop")
    /\ UNCHANGED <<persisted, client, made, count, noted>>

\* Mistake: a redirect belongs to a request that has passed the budget already.
RedirectUnchecked(c, k) ==
    /\ client[c] = "open"
    /\ at[c][k] = "sending"
    /\ hops[c][k] < MaxRedirects
    /\ hops' = [hops EXCEPT ![c][k] = @ + 1]
    /\ GoTo(c, k, "acquiring_hop")
    /\ UNCHANGED <<persisted, client, made, count, noted>>

\* A redirect goes through the budget and the limiter again.
Redirect(c, k) ==
    /\ client[c] = "open"
    /\ at[c][k] = "sending"
    /\ hops[c][k] < MaxRedirects
    /\ check_budget(c)
    /\ hops' = [hops EXCEPT ![c][k] = @ + 1]
    /\ GoTo(c, k, "acquiring_hop")
    /\ UNCHANGED <<persisted, client, made, count, noted>>

\* A hop is counted, but on_request is not called for it.
CountHop(c, k) ==
    /\ at[c][k] = "acquiring_hop"
    /\ note_requests(c)
    /\ GoTo(c, k, "sending")
    /\ UNCHANGED <<persisted, client, count, hops>>

\* The timeout of the agent, or an attempt to send through a closed client.
AbandonRequest(c, k) ==
    /\ at[c][k] # "idle"
    /\ GoTo(c, k, "idle")
    /\ UNCHANGED <<persisted, client, made, count, hops, noted>>

Request(c, k) ==
    \/ Admit(c, k)
    \/ Count(c, k)
    \/ _persist_request_count(c, k)
    \/ EndRequest(c, k)
    \/ Redirect(c, k)
    \/ CountHop(c, k)
    \/ AbandonRequest(c, k)

Next ==
    \E c \in Client :
        \/ OpenClient(c)
        \/ CloseClient(c)
        \/ _persist_exact_count(c)
        \/ \E k \in Caller : Request(c, k)

Spec == Init /\ [][Next]_vars

(***************************************************************************)
(* Properties.                                                              *)
(***************************************************************************)
\* What a guard counts at most while no more than w callers wait at the limiter
\* together; a negative limit lets nobody through.
Bound(w) == IF Limit > 0 THEN Limit + w - 1 ELSE 0

\* A guard looks at its count before the rate limiter and counts after it, so
\* the callers that wait there together may exceed the limit; but never by
\* more than all of them but one, redirects included.
OvershootIsBounded ==
    Limit # 0 => \A c \in Client : made[c] <= Bound(Cardinality(Caller))

Opened == {c \in Client : client[c] # "new"}

\* What is left of a common limit: each client spends a budget of its own, so an
\* assessment makes at most that many times as many requests as it opened clients.
JointOvershootIsBounded ==
    Limit # 0 => noted <= Cardinality(Opened) * Bound(Cardinality(Caller))

\* Clients overwrite each other's count, late and out of order, but the row
\* never claims requests that no guard has counted.
RowClaimsNoMore == persisted <= noted

\* The claim of the README and of execute_approved_steps that a fresh client
\* works within the same budget: all the clients together keep to the limit.
BudgetIsShared == Limit > 0 => noted <= Limit
=============================================================================
