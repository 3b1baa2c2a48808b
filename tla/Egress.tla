-------------------------------- MODULE Egress --------------------------------
(***************************************************************************)
(* Requests of an assessment on their way to the target:                    *)
(* GuardedHttpClient.request (security/http_client.py) with the gates of    *)
(* Scope, under a record of Authorization, within the budget of             *)
(* RequestBudget.  Every action of RequestBudget appears here with what it  *)
(* leaves out: what is asked for, the gates in front of it, the address     *)
(* that the connection is pinned to, and the redirects of the target.       *)
(*                                                                          *)
(* A resolution blocks the event loop, so nothing of the process moves      *)
(* between the gates; but the name may resolve differently for each.        *)
(***************************************************************************)
EXTENDS RequestBudget, Authorization

CONSTANTS
    Sandboxed   \* settings.sandbox_mode is not "none"

ASSUME SandboxAssumption == Sandboxed \in BOOLEAN

VARIABLES
    window,  \* where the time stands relative to a testing window
    wire     \* what a caller has under way

netVars == <<window, wire>>
egressVars == <<vars, authVars, netVars>>

Nothing == [method |-> "none"]

InFlight == [method : Methods, url : Url, ips : SUBSET Address]

EgressTypeOK ==
    /\ TypeOK
    /\ AuthTypeOK
    /\ window \in {"before", "open", "after"}
    /\ wire \in [Client -> [Caller -> InFlight \cup {Nothing}]]

EgressInit ==
    /\ Init
    /\ AuthInit
    /\ window = "before"
    /\ wire = [c \in Client |-> [k \in Caller |-> Nothing]]

check_record_active ==
    /\ record.status = "verified"
    /\ record.grant.windowed => window = "open"

\* _build_pinned: a literal is connected to as it is, a name at the first of
\* the addresses that the guard has validated.
Pinned(w) == IF w.url.host \in Address THEN w.url.host ELSE CHOOSE a \in w.ips : TRUE

Put(c, k, w) == wire' = [wire EXCEPT ![c][k] = w]

\* Operators prove, write records and create the assessment at any time.
Administer == AuthNext /\ UNCHANGED <<vars, netVars>>

\* A testing window opens and closes.
PassTime ==
    /\ window' = CASE window = "before" -> "open" [] OTHER -> "after"
    /\ window # "after"
    /\ UNCHANGED <<vars, authVars, wire>>

\* A run, or a task of late steps, looks at the record before it opens its
\* client; a graph node relies on the look of the first node.
OpenGuarded(c) ==
    /\ assessed
    /\ c \notin GraphClient => check_record_active
    /\ OpenClient(c)
    /\ UNCHANGED <<authVars, netVars>>

Settle(c) ==
    /\ CloseClient(c) \/ _persist_exact_count(c)
    /\ UNCHANGED <<authVars, netVars>>

\* Every gate of request() in its order; the count is not yet taken.
Authorize(c, k) ==
    /\ check_record_active
    /\ Admit(c, k)
    /\ \E u \in Url, m \in Methods :
       \E ips \in Answers(u.host) :
          /\ check_request(record.grant, m, u, ips)
          /\ \E again, later \in Answers(u.host) :
                /\ _assert_no_rebinding(u, ips, again)
                /\ Sandboxed => assert_egress_allowed(record.grant, u, later)
          /\ Put(c, k, [method |-> m, url |-> u, ips |-> ips])
    /\ UNCHANGED <<authVars, window>>

\* Behind the limiter the request is counted, its count written, and it goes
\* out.
Proceed(c, k) ==
    /\ Count(c, k) \/ _persist_request_count(c, k) \/ CountHop(c, k)
    /\ UNCHANGED <<authVars, netVars>>

\* Where the answer may point to: any URL, or a path that is joined to the URL
\* of the response, in which _build_pinned has replaced the host.
Locations(w) ==
    Url \cup {[w.url EXCEPT !.host = Pinned(w), !.path = p] : p \in Path}

\* Mistake: the next hop is pinned to the addresses of the one before.
follow_with_old_addresses(c, k) ==
    /\ Redirect(c, k)
    /\ \E u \in Locations(wire[c][k]), kept \in BOOLEAN :
       \E ips \in Answers(u.host) :
          /\ check_request(record.grant, "GET", u, ips)
          /\ Put(c, k, [method |-> IF kept THEN wire[c][k].method ELSE "GET",
                        url |-> u, ips |-> wire[c][k].ips])
    /\ UNCHANGED <<authVars, window>>

\* Mistake: the hop is followed at once, without the limiter and the count.
follow_at_once(c, k) ==
    /\ client[c] = "open"
    /\ at[c][k] = "sending"
    /\ hops[c][k] < MaxRedirects
    /\ hops' = [hops EXCEPT ![c][k] = @ + 1]
    /\ \E u \in Locations(wire[c][k]), kept \in BOOLEAN :
       \E ips \in Answers(u.host) :
          /\ check_request(record.grant, "GET", u, ips)
          /\ Put(c, k, [method |-> IF kept THEN wire[c][k].method ELSE "GET",
                        url |-> u, ips |-> ips])
    /\ UNCHANGED <<persisted, client, made, at, count, noted, authVars, window>>

\* Mistake: a hop is authorized like a first request of the method it will
\* have, but for its path.
follow_any_path(c, k) ==
    /\ Redirect(c, k)
    /\ \E u \in Locations(wire[c][k]), kept \in BOOLEAN :
       \E ips \in Answers(u.host) :
          /\ check_request([record.grant EXCEPT !.deny = {}, !.allow = {}], "GET", u, ips)
          /\ Put(c, k, [method |-> IF kept THEN wire[c][k].method ELSE "GET",
                        url |-> u, ips |-> ips])
    /\ UNCHANGED <<authVars, window>>

\* A hop is authorized as a GET and resolved anew; 307 and 308 keep the
\* method.  Record, rebinding and sandbox are not looked at again.
FollowRedirect(c, k) ==
    /\ Redirect(c, k)
    /\ \E u \in Locations(wire[c][k]), kept \in BOOLEAN :
       \E ips \in Answers(u.host) :
          /\ check_request(record.grant, "GET", u, ips)
          /\ Put(c, k, [method |-> IF kept THEN wire[c][k].method ELSE "GET",
                        url |-> u, ips |-> ips])
    /\ UNCHANGED <<authVars, window>>

Finish(c, k) ==
    /\ EndRequest(c, k) \/ AbandonRequest(c, k)
    /\ Put(c, k, Nothing)
    /\ UNCHANGED <<authVars, window>>

Travel(c, k) ==
    Authorize(c, k) \/ Proceed(c, k) \/ FollowRedirect(c, k) \/ Finish(c, k)

EgressNext ==
    \/ Administer
    \/ PassTime
    \/ \E c \in Client :
          \/ OpenGuarded(c)
          \/ Settle(c)
          \/ \E k \in Caller : Travel(c, k)

EgressSpec == EgressInit /\ [][EgressNext]_egressVars

(***************************************************************************)
(* Properties.                                                              *)
(***************************************************************************)
Busy(c, k) == at[c][k] # "idle"

\* Whatever operators do meanwhile, a request is under way only on behalf of a
\* record that was verified with an ownership that had itself been verified:
\* ownership.py, create_authorization, create_assessment and the guard's first
\* look together.
OnlyOwnersTest ==
    \A c \in Client, k \in Caller :
        Busy(c, k) => record.status = "verified" /\ record.owners \cap proven # {}

\* At every hop, redirects that keep their method included, host, port, path
\* and method are in the record's scope, although a hop is authorized as a GET.
HopsStayInScope ==
    \A c \in Client, k \in Caller :
        Busy(c, k) =>
            LET w == wire[c][k] g == record.grant IN
            /\ w.url.host \in g.hosts
            /\ PortOf(w.url) \in g.ports \cup (IF g.ports = {} THEN {80, 443} ELSE {})
            /\ w.url.path \notin g.deny
            /\ g.allow = {} \/ w.url.path \in g.allow
            /\ g.methods = {} \/ w.method \in g.methods
            /\ w.method = "GET" \/ g.changing

\* However a name resolves from look to look, a connection goes to an address
\* of the very host of this hop, never to a metadata service, and into private
\* networks only where the record's environment and the settings permit it.
ConnectsAreVetted ==
    \A c \in Client, k \in Caller :
        Busy(c, k) =>
            LET w == wire[c][k] a == Pinned(w) IN
            /\ a \in IF w.url.host \in Address THEN {w.url.host} ELSE Serves[w.url.host]
            /\ Kind[a] # "metadata"
            /\ Kind[a] = "private" =>
                  \/ record.grant.environment = "lab"
                  \/ record.grant.environment \in {"staging", "development"} /\ AllowPrivate

\* The guard, the look for rebinding and the sandbox are three implementations
\* of one rule: what the guard allows is refused by neither of the others as
\* long as the name resolves to the same addresses.
StableHostsPass ==
    assessed =>
        \A u \in {v \in Url : v.host \in record.grant.hosts}, m \in Methods :
        \A ips \in Answers(u.host) :
            check_request(record.grant, m, u, ips) =>
                /\ _assert_no_rebinding(u, ips, ips)
                /\ assert_egress_allowed(record.grant, u, ips)

\* The requests keep to the rules of RequestBudget, action by action: what is
\* shown there of the budget holds with the gates and the redirects as well.
KeepsToTheBudget == Spec

\* The claim of GuardedHttpClient.request, "Follows redirects with re-auth"
\* (http_client.py:99): the target may send a request on to another of its own
\* paths if the guard would allow that path to be asked for directly.
OwnRedirectsAreFollowed ==
    \A c \in Client, k \in Caller :
        Busy(c, k) =>
            LET w == wire[c][k] IN
            \A p \in Path :
                check_request(record.grant, "GET", [w.url EXCEPT !.path = p], w.ips) =>
                    LET u == [w.url EXCEPT !.host = Pinned(w), !.path = p] IN
                    \E ips \in Answers(u.host) : check_request(record.grant, "GET", u, ips)
=============================================================================
