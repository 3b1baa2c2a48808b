----------------------------- MODULE EgressProofs -----------------------------
(* Theorems about Egress for any hosts, addresses and ways to resolve names,  *)
(* any bodies of records, rows of ownership, clients and callers.             *)
EXTENDS Egress, RequestBudgetProofs, TLAPS

\* What is under way would be allowed as it is, under the record as it is, and
\* its addresses are an answer for its host.
Covered(w) ==
    /\ w \in InFlight
    /\ w.ips \in Answers(w.url.host)
    /\ check_request(record.grant, w.method, w.url, w.ips)

\* From the ownership to the wire: rows, record, assessment, client, request.
ChainInv ==
    /\ \A o \in VerifiedRows : o \in proven
    /\ record.status = "verified" => record.owners \cap proven # {}
    /\ assessed => record.status = "verified"
    /\ \A c \in Client : client[c] # "new" => assessed
    /\ \A c \in Client, k \in Caller : Busy(c, k) => client[c] # "new"
    /\ \A c \in Client, k \in Caller : Busy(c, k) => Covered(wire[c][k])

(***************************************************************************)
(* The budget.                                                              *)
(***************************************************************************)
\* Initial states and steps of Egress are initial states and steps of
\* RequestBudget, or leave its variables alone.
THEOREM BudgetIsKept == EgressSpec => KeepsToTheBudget
<1>1. EgressInit => Init
    BY DEF EgressInit
<1>2. [EgressNext]_egressVars => [Next]_vars
    <2> SUFFICES ASSUME [EgressNext]_egressVars PROVE [Next]_vars
        OBVIOUS
    <2>1. CASE Administer \/ PassTime
        BY <2>1 DEF Administer, PassTime
    <2>2. ASSUME NEW c \in Client, OpenGuarded(c) \/ Settle(c)
          PROVE  Next
        BY <2>2 DEF OpenGuarded, Settle, Next
    <2>3. ASSUME NEW c \in Client, NEW k \in Caller, Travel(c, k)
          PROVE  Next
        <3>1. Request(c, k)
            BY <2>3 DEF Travel, Authorize, Proceed, FollowRedirect, Finish, Request
        <3> QED
            BY <3>1 DEF Next
    <2>4. CASE UNCHANGED egressVars
        BY <2>4 DEF egressVars
    <2> QED
        BY <2>1, <2>2, <2>3, <2>4 DEF EgressNext
<1> QED
    BY <1>1, <1>2, PTL DEF EgressSpec, KeepsToTheBudget, Spec

\* What is proved of the budget holds behind the gates as well: the types of
\* its variables, the bound on every guard's count, and the one on what all the
\* guards of an assessment let through together.
THEOREM BudgetHoldsBehindTheGates ==
    EgressSpec => [](TypeOK /\ OvershootIsBounded /\ JointOvershootIsBounded)
BY BudgetIsKept, TypeCorrect, GuardOvershootsByCallers, ClientsOvershootTogether, PTL
DEF KeepsToTheBudget

(***************************************************************************)
(* The gates.                                                               *)
(***************************************************************************)
\* A hop that may be asked for with GET may be asked for with the method of a
\* request that was itself allowed: methods are granted for the whole record.
LEMMA MethodsCarryOver ==
    ASSUME NEW g, NEW m, NEW u, NEW ips, NEW v, NEW old,
           check_request(g, m, u, ips), check_request(g, "GET", v, old)
    PROVE  check_request(g, m, v, old)
BY DEF check_request

\* Resolving to the same addresses again passes the look for rebinding, and
\* the sandbox is nowhere stricter than the guard: its default ports contain
\* the scheme's, and it lets more environments into private networks.
LEMMA GatesAgree ==
    ASSUME NEW g \in Grant, NEW m \in Methods, NEW u \in Url, NEW ips,
           check_request(g, m, u, ips)
    PROVE  _assert_no_rebinding(u, ips, ips) /\ assert_egress_allowed(g, u, ips)
<1>1. _assert_no_rebinding(u, ips, ips)
    BY DEF _assert_no_rebinding
<1>2. u.host \in g.hosts /\ ips # {} /\ ~IsHardBlocked(u.host, ips)
    BY DEF check_request, _host_in_scope
<1>3. PortOf(u) \in SandboxPorts(g)
    <2>1. PortOf(u) \in AllowedPorts(g, u.scheme)
        BY DEF check_request
    <2>2. CASE g.ports = {}
        BY <2>1, <2>2 DEF AllowedPorts, SandboxPorts, DEFAULT_PORTS, default_port_for_scheme
    <2>3. CASE g.ports # {}
        BY <2>1, <2>3 DEF AllowedPorts, SandboxPorts
    <2> QED
        BY <2>2, <2>3
<1>4. IsInner(ips) => SandboxAllowsPrivate(g)
    BY DEF check_request, _private_allowed, SandboxAllowsPrivate
<1> QED
    BY <1>1, <1>2, <1>3, <1>4 DEF assert_egress_allowed

\* What the record grants: the port in the words of the record.
LEMMA CoveredIsInScope ==
    ASSUME NEW g \in Grant, NEW m \in Methods, NEW u \in Url, NEW ips,
           check_request(g, m, u, ips)
    PROVE  /\ u.host \in g.hosts
           /\ PortOf(u) \in g.ports \cup (IF g.ports = {} THEN {80, 443} ELSE {})
           /\ u.path \notin g.deny
           /\ g.allow = {} \/ u.path \in g.allow
           /\ g.methods = {} \/ m \in g.methods
           /\ m = "GET" \/ g.changing
<1>1. PortOf(u) \in g.ports \cup (IF g.ports = {} THEN {80, 443} ELSE {})
    <2>1. PortOf(u) \in AllowedPorts(g, u.scheme)
        BY DEF check_request
    <2>2. CASE g.ports = {}
        BY <2>1, <2>2 DEF AllowedPorts, default_port_for_scheme
    <2>3. CASE g.ports # {}
        BY <2>1, <2>3 DEF AllowedPorts
    <2> QED
        BY <2>2, <2>3
<1>2. m = "GET" \/ g.changing
    BY DEF check_request, Methods, STATE_CHANGING_METHODS
<1> QED
    BY <1>1, <1>2 DEF check_request, _host_in_scope, _path_decision

\* The address that a covered request is pinned to.
LEMMA PinnedIsVetted ==
    ASSUME NEW g \in Grant, NEW w \in InFlight,
           w.ips \in Answers(w.url.host),
           check_request(g, w.method, w.url, w.ips)
    PROVE  LET a == Pinned(w) IN
           /\ a \in IF w.url.host \in Address THEN {w.url.host} ELSE Serves[w.url.host]
           /\ Kind[a] # "metadata"
           /\ Kind[a] = "private" =>
                 \/ g.environment = "lab"
                 \/ g.environment \in {"staging", "development"} /\ AllowPrivate
<1>1. w.ips # {} /\ ~IsHardBlocked(w.url.host, w.ips)
      /\ (IsInner(w.ips) => _private_allowed(g))
    BY DEF check_request
<1>2. Pinned(w) \in w.ips
    <2>1. CASE w.url.host \in Address
        BY <2>1 DEF Pinned, Answers
    <2>2. CASE w.url.host \notin Address
        BY <2>2, <1>1 DEF Pinned
    <2> QED
        BY <2>1, <2>2
<1>3. Pinned(w) \in IF w.url.host \in Address THEN {w.url.host} ELSE Serves[w.url.host]
    BY <1>2 DEF Answers
<1>4. Kind[Pinned(w)] # "metadata"
    BY <1>1, <1>2 DEF IsHardBlocked
<1>5. Kind[Pinned(w)] = "private" =>
          \/ g.environment = "lab"
          \/ g.environment \in {"staging", "development"} /\ AllowPrivate
    BY <1>1, <1>2 DEF IsInner, _private_allowed, _coerce_env
<1> QED
    BY <1>3, <1>4, <1>5

(***************************************************************************)
(* Types.                                                                   *)
(***************************************************************************)
\* A body with its hosts filled in is still a grant.
LEMMA BodyIsGrant ==
    ASSUME NEW body \in Body
    PROVE  [body EXCEPT !.hosts = HostsOf(body)] \in Grant
<1>1. body \in Grant /\ BaseHost \in Host
    BY AuthorizationAssumption DEF AuthorizationAssumption
<1>2. HostsOf(body) \in SUBSET Host
    BY <1>1 DEF HostsOf, Grant
<1> QED
    BY <1>1, <1>2 DEF Grant

\* What a verification concludes is a status.
LEMMA VerifyReturnsStatus ==
    ASSUME NEW m, NEW f, NEW a, NEW q
    PROVE  verify_ownership(m, f, a, q) \in Status
BY DEF verify_ownership, Status

\* The rows keep their types in every transaction of the operators.
LEMMA AuthTypes ==
    ASSUME AuthTypeOK, AuthNext
    PROVE  AuthTypeOK'
<1> USE DEF AuthTypeOK
<1>1. ASSUME NEW o \in Ownership, NEW m \in OwnershipMethod, NEW st \in Status,
             SetOwnership(o, m, st)
      PROVE  AuthTypeOK'
    <2>1. [method |-> m, status |-> st] \in [method : OwnershipMethod, status : Status]
        OBVIOUS
    <2>2. proven' \subseteq Ownership
        BY <1>1 DEF SetOwnership
    <2> QED
        BY <1>1, <2>1, <2>2 DEF SetOwnership
<1>2. ASSUME NEW o \in Ownership, NEW m \in OwnershipMethod, NEW attested \in BOOLEAN,
             start_ownership(o, m, attested)
      PROVE  AuthTypeOK'
    <2>1. "pending" \in Status
        BY DEF Status
    <2> QED
        BY <1>1, <1>2, <2>1, VerifyReturnsStatus DEF start_ownership
<1>3. ASSUME NEW o \in Ownership, NEW found \in BOOLEAN, NEW asked \in BOOLEAN,
             verify_ownership_endpoint(o, found, asked)
      PROVE  AuthTypeOK'
    <2>1. ownership[o].method \in OwnershipMethod
        BY <1>3 DEF verify_ownership_endpoint
    <2> QED
        BY <1>1, <1>3, <2>1, VerifyReturnsStatus DEF verify_ownership_endpoint
<1>4. ASSUME NEW body \in Body, NEW invasive \in BOOLEAN,
             create_authorization(body, invasive)
      PROVE  AuthTypeOK'
    <2>1. PICK owners \in IF VerifiedRows = {} THEN {{}} ELSE {{o} : o \in VerifiedRows} :
              record' = [status |-> IF VerifiedRows = {} THEN "pending" ELSE "verified",
                         grant  |-> [body EXCEPT !.hosts = HostsOf(body)],
                         owners |-> owners]
        BY <1>4 DEF create_authorization
    <2>2. owners \in SUBSET Ownership
        BY <2>1 DEF VerifiedRows
    <2>3. record' \in Records
        BY <2>1, <2>2, BodyIsGrant DEF Records
    <2> QED
        BY <1>4, <2>3 DEF create_authorization
<1>5. CASE create_assessment
    BY <1>5 DEF create_assessment
<1> QED
    BY <1>2, <1>3, <1>4, <1>5 DEF AuthNext

\* The part of EgressTypeOK that is not about the budget.
WireTypeOK ==
    /\ AuthTypeOK
    /\ window \in {"before", "open", "after"}
    /\ wire \in [Client -> [Caller -> InFlight \cup {Nothing}]]

(***************************************************************************)
(* From the ownership to the wire.                                          *)
(***************************************************************************)
\* Where the places of the callers come from: only the actions of a caller
\* move it, and it starts in an open client.
LEMMA CallersAtRest ==
    ASSUME TypeOK, NEW c \in Client, NEW k \in Caller, Request(c, k),
           \A d \in Client, j \in Caller : Busy(d, j) => client[d] # "new"
    PROVE  /\ client' = client
           /\ \A d \in Client, j \in Caller : Busy(d, j)' => client[d] # "new"
           /\ \A d \in Client, j \in Caller :
                  d # c \/ j # k => (Busy(d, j)' <=> Busy(d, j))
<1> USE DEF Busy
<1>1. \E place : at' = [at EXCEPT ![c][k] = place] /\ (place # "idle" => client[c] # "new")
      /\ client' = client
    <2>1. CASE Admit(c, k)
        BY <2>1 DEF Admit, GoTo
    <2>2. CASE Count(c, k)
        BY <2>2 DEF Count, GoTo
    <2>3. CASE _persist_request_count(c, k)
        BY <2>3 DEF _persist_request_count, GoTo
    <2>4. CASE EndRequest(c, k)
        BY <2>4 DEF EndRequest, GoTo
    <2>5. CASE Redirect(c, k)
        BY <2>5 DEF Redirect, GoTo
    <2>6. CASE CountHop(c, k)
        BY <2>6 DEF CountHop, GoTo
    <2>7. CASE AbandonRequest(c, k)
        BY <2>7 DEF AbandonRequest, GoTo
    <2> QED
        BY <2>1, <2>2, <2>3, <2>4, <2>5, <2>6, <2>7 DEF Request
<1>2. PICK place : /\ at' = [at EXCEPT ![c][k] = place]
                   /\ place # "idle" => client[c] # "new"
                   /\ client' = client
    BY <1>1
<1>3. ASSUME NEW d \in Client, NEW j \in Caller
      PROVE  /\ d # c \/ j # k => at'[d][j] = at[d][j]
             /\ d = c /\ j = k => at'[d][j] = place
    BY <1>2 DEF TypeOK
<1> QED
    BY <1>2, <1>3

\* The operators' transactions keep the chain: a record is verified only with
\* a row that is, and once an assessment is bound to it, it stays as it is.
LEMMA OperatorsKeepTheChain ==
    ASSUME WireTypeOK, ChainInv, Administer
    PROVE  ChainInv'
<1> USE DEF WireTypeOK, AuthTypeOK
<1>1. /\ client' = client
      /\ \A c \in Client, k \in Caller : Busy(c, k)' <=> Busy(c, k)
      /\ wire' = wire
    BY DEF Administer, vars, netVars, Busy
<1>2. assessed => assessed' /\ record' = record
    <2>1. AuthNext
        BY DEF Administer
    <2>2. ASSUME NEW o \in Ownership, NEW m, NEW st, SetOwnership(o, m, st)
          PROVE  assessed' = assessed /\ record' = record
        BY <2>2 DEF SetOwnership
    <2>3. ASSUME NEW body \in Body, NEW invasive \in BOOLEAN,
                 create_authorization(body, invasive)
          PROVE  ~assessed
        BY <2>3 DEF create_authorization
    <2>4. CASE create_assessment
        BY <2>4 DEF create_assessment
    <2> QED
        BY <2>1, <2>2, <2>3, <2>4 DEF AuthNext, start_ownership, verify_ownership_endpoint
<1>3. \A c \in Client, k \in Caller : Busy(c, k)' => Covered(wire[c][k])'
    BY <1>1, <1>2 DEF ChainInv, Covered
<1>4. \A c \in Client : client[c]' # "new" => assessed'
    BY <1>1, <1>2 DEF ChainInv
<1>5. \A c \in Client, k \in Caller : Busy(c, k)' => client[c]' # "new"
    BY <1>1 DEF ChainInv
<1> DEFINE Head ==
        /\ \A o \in VerifiedRows : o \in proven
        /\ record.status = "verified" => record.owners \cap proven # {}
        /\ assessed => record.status = "verified"
<1>6. ASSUME NEW o \in Ownership, NEW m, NEW st, SetOwnership(o, m, st)
      PROVE  Head'
    <2>1. proven \subseteq proven'
        BY <1>6 DEF SetOwnership
    <2>2. record' = record /\ assessed' = assessed
        BY <1>6 DEF SetOwnership
    <2>3. ASSUME NEW p \in VerifiedRows'
          PROVE  p \in proven'
        <3>1. CASE p = o
            BY <1>6, <2>3, <3>1 DEF SetOwnership, VerifiedRows
        <3>2. CASE p # o
            BY <1>6, <2>1, <2>3, <3>2 DEF SetOwnership, VerifiedRows, ChainInv
        <3> QED
            BY <3>1, <3>2
    <2> QED
        BY <2>1, <2>2, <2>3 DEF ChainInv
<1>7. ASSUME NEW body \in Body, NEW invasive \in BOOLEAN,
             create_authorization(body, invasive)
      PROVE  Head'
    <2>1. ownership' = ownership /\ proven' = proven /\ ~assessed'
        BY <1>7 DEF create_authorization
    <2>2. PICK owners \in IF VerifiedRows = {} THEN {{}} ELSE {{o} : o \in VerifiedRows} :
              record' = [status |-> IF VerifiedRows = {} THEN "pending" ELSE "verified",
                         grant  |-> [body EXCEPT !.hosts = HostsOf(body)],
                         owners |-> owners]
        BY <1>7 DEF create_authorization
    <2>3. record'.status = "verified" => record'.owners \cap proven # {}
        BY <2>2 DEF ChainInv
    <2> QED
        BY <2>1, <2>3 DEF ChainInv, VerifiedRows
<1>8. ASSUME create_assessment
      PROVE  Head'
    BY <1>8 DEF create_assessment, ChainInv, VerifiedRows
<1>9. Head'
    <2>1. AuthNext
        BY DEF Administer
    <2> HIDE DEF Head
    <2> QED
        BY <2>1, <1>6, <1>7, <1>8 DEF AuthNext, start_ownership, verify_ownership_endpoint
<1> QED
    BY <1>3, <1>4, <1>5, <1>9 DEF ChainInv

\* A location that the guard lets pass is a URL: the host of a path joined to
\* the pinned URL is in the record's list of hosts.
LEMMA AllowedLocationIsUrl ==
    ASSUME NEW g \in Grant, NEW w \in InFlight, NEW u \in Locations(w), NEW m, NEW ips,
           check_request(g, m, u, ips)
    PROVE  u \in Url
<1>1. CASE u \in Url
    BY <1>1
<1>2. CASE u \notin Url
    <2>1. PICK p \in Path : u = [w.url EXCEPT !.host = Pinned(w), !.path = p]
        BY <1>2 DEF Locations
    <2>2. w.url \in Url
        BY DEF InFlight
    <2>3. u.host = Pinned(w)
        BY <2>1, <2>2 DEF Url
    <2>4. Pinned(w) \in Host
        BY <2>3 DEF check_request, _host_in_scope, Grant
    <2> QED
        BY <2>1, <2>2, <2>4 DEF Url
<1> QED
    BY <1>1, <1>2

\* Types and chain together are inductive.
LEMMA ChainIsKept == EgressSpec => [](WireTypeOK /\ ChainInv)
<1>1. EgressInit => WireTypeOK /\ ChainInv
    <2> SUFFICES ASSUME EgressInit PROVE WireTypeOK /\ ChainInv
        OBVIOUS
    <2>1. WireTypeOK
        BY DEF EgressInit, AuthInit, WireTypeOK, AuthTypeOK
    <2>2. VerifiedRows = {}
        BY DEF EgressInit, AuthInit, VerifiedRows, NoRow
    <2>3. record.status = "none" /\ ~assessed
        BY DEF EgressInit, AuthInit, NoRecord
    <2>4. \A c \in Client : client[c] = "new" /\ \A k \in Caller : ~Busy(c, k)
        BY DEF EgressInit, Init, Busy
    <2> QED
        BY <2>1, <2>2, <2>3, <2>4 DEF ChainInv
<1>2. TypeOK /\ WireTypeOK /\ ChainInv /\ [EgressNext]_egressVars => (WireTypeOK /\ ChainInv)'
    <2> SUFFICES ASSUME TypeOK, WireTypeOK, ChainInv, [EgressNext]_egressVars
                 PROVE  WireTypeOK' /\ ChainInv'
        OBVIOUS
    <2>1. CASE Administer
        <3>1. WireTypeOK'
            BY <2>1, AuthTypes DEF Administer, WireTypeOK, netVars
        <3> QED
            BY <2>1, <3>1, OperatorsKeepTheChain
    <2>2. ASSUME UNCHANGED <<ownership, proven, record, assessed, wire, client>>,
                 \A c \in Client, k \in Caller : Busy(c, k)' => Busy(c, k)
          PROVE  ChainInv'
        BY <2>2 DEF ChainInv, Covered, VerifiedRows
    <2>3. CASE PassTime
        <3>1. WireTypeOK'
            BY <2>3 DEF PassTime, WireTypeOK, authVars, AuthTypeOK
        <3> QED
            BY <2>2, <2>3, <3>1 DEF PassTime, authVars, vars, Busy
    <2>4. ASSUME NEW c \in Client, OpenGuarded(c) \/ Settle(c)
          PROVE  WireTypeOK' /\ ChainInv'
        <3>1. UNCHANGED <<ownership, proven, record, assessed, window, wire, at>>
            BY <2>4 DEF OpenGuarded, Settle, OpenClient, CloseClient, _persist_exact_count,
                        authVars, netVars
        <3>2. \A d \in Client : client[d]' # "new" => client[d] # "new" \/ assessed
            BY <2>4 DEF OpenGuarded, Settle, OpenClient, CloseClient, _persist_exact_count,
                        TypeOK
        <3>3. \A d \in Client : client[d] # "new" => client[d]' # "new"
            BY <2>4 DEF OpenGuarded, Settle, OpenClient, CloseClient, _persist_exact_count,
                        TypeOK
        <3>4. WireTypeOK'
            BY <3>1 DEF WireTypeOK, AuthTypeOK
        <3> QED
            BY <3>1, <3>2, <3>3, <3>4 DEF ChainInv, Covered, VerifiedRows, Busy
    <2>5. ASSUME NEW c \in Client, NEW k \in Caller, Request(c, k),
                 NEW w \in InFlight \cup {Nothing}, Put(c, k, w),
                 UNCHANGED <<ownership, proven, record, assessed, window>>,
                 Busy(c, k)' => Covered(w)
          PROVE  WireTypeOK' /\ ChainInv'
        <3>1. WireTypeOK'
            BY <2>5 DEF Put, WireTypeOK, AuthTypeOK
        <3>2. /\ client' = client
              /\ \A d \in Client, j \in Caller : Busy(d, j)' => client[d] # "new"
              /\ \A d \in Client, j \in Caller :
                     d # c \/ j # k => (Busy(d, j)' <=> Busy(d, j))
            BY <2>5, CallersAtRest DEF ChainInv
        <3>3. ASSUME NEW d \in Client, NEW j \in Caller, Busy(d, j)'
              PROVE  Covered(wire[d][j])'
            <4>1. CASE d = c /\ j = k
                <5>1. wire'[d][j] = w
                    BY <2>5, <4>1 DEF Put, WireTypeOK
                <5> QED
                    BY <2>5, <3>3, <4>1, <5>1 DEF Covered
            <4>2. CASE d # c \/ j # k
                <5>1. wire'[d][j] = wire[d][j]
                    BY <2>5, <4>2 DEF Put, WireTypeOK
                <5>2. Covered(wire[d][j])
                    BY <3>2, <3>3, <4>2 DEF ChainInv
                <5> QED
                    BY <2>5, <5>1, <5>2 DEF Covered
            <4> QED
                BY <4>1, <4>2
        <3> QED
            BY <2>5, <3>1, <3>2, <3>3 DEF ChainInv, VerifiedRows
    <2>6. ASSUME NEW c \in Client, NEW k \in Caller, Travel(c, k)
          PROVE  WireTypeOK' /\ ChainInv'
        <3> DEFINE w0 == wire[c][k]
        <3>0. /\ w0 \in InFlight \cup {Nothing}
              /\ record.status = "verified" => record.grant \in Grant
            BY DEF WireTypeOK, AuthTypeOK, Records, NoRecord
        <3>1. CASE Authorize(c, k)
            <4>1. PICK u \in Url, m \in Methods : \E ips \in Answers(u.host) :
                      /\ check_request(record.grant, m, u, ips)
                      /\ Put(c, k, [method |-> m, url |-> u, ips |-> ips])
                BY <3>1 DEF Authorize
            <4>2. PICK ips \in Answers(u.host) :
                      /\ check_request(record.grant, m, u, ips)
                      /\ Put(c, k, [method |-> m, url |-> u, ips |-> ips])
                BY <4>1
            <4> DEFINE w == [method |-> m, url |-> u, ips |-> ips]
            <4>3. ips \in SUBSET Address
                BY ScopeAssumption DEF ScopeAssumption, Answers, Url, Host
            <4>4. w \in InFlight
                BY <4>3 DEF InFlight
            <4>5. Covered(w)
                BY <4>2, <4>4 DEF Covered
            <4>6. Request(c, k) /\ UNCHANGED <<ownership, proven, record, assessed, window>>
                BY <3>1 DEF Authorize, Request, authVars
            <4> HIDE DEF w
            <4>7. Put(c, k, w)
                BY <4>2 DEF w
            <4> QED
                BY <4>4, <4>5, <4>6, <4>7, <2>5
        <3>2. CASE Proceed(c, k)
            <4>1. Busy(c, k)
                BY <3>2 DEF Proceed, Count, CountHop, _persist_request_count, Busy
            <4>2. Covered(w0)
                BY <4>1 DEF ChainInv
            <4>3. Put(c, k, w0)
                BY <3>2 DEF Proceed, netVars, Put, WireTypeOK
            <4>4. Request(c, k) /\ UNCHANGED <<ownership, proven, record, assessed, window>>
                BY <3>2 DEF Proceed, Request, authVars, netVars
            <4> HIDE DEF w0
            <4> QED
                BY <3>0, <4>2, <4>3, <4>4, <2>5
        <3>3. CASE FollowRedirect(c, k)
            <4>1. PICK u \in Locations(w0), kept \in BOOLEAN : \E ips \in Answers(u.host) :
                      /\ check_request(record.grant, "GET", u, ips)
                      /\ Put(c, k, [method |-> IF kept THEN w0.method ELSE "GET",
                                    url |-> u, ips |-> ips])
                BY <3>3 DEF FollowRedirect
            <4>2. PICK ips \in Answers(u.host) :
                      /\ check_request(record.grant, "GET", u, ips)
                      /\ Put(c, k, [method |-> IF kept THEN w0.method ELSE "GET",
                                    url |-> u, ips |-> ips])
                BY <4>1
            <4> DEFINE m == IF kept THEN w0.method ELSE "GET"
                       w == [method |-> m, url |-> u, ips |-> ips]
            <4>3. Busy(c, k) /\ Covered(w0)
                BY <3>3 DEF FollowRedirect, Redirect, Busy, ChainInv
            <4>4. record.grant \in Grant
                BY <3>0, <4>3 DEF ChainInv
            <4>5. w0 \in InFlight /\ check_request(record.grant, w0.method, w0.url, w0.ips)
                BY <4>3 DEF Covered
            <4>6. u \in Url
                BY <4>2, <4>4, <4>5, AllowedLocationIsUrl
            <4>7. ips \in SUBSET Address
                BY <4>6, ScopeAssumption DEF ScopeAssumption, Answers, Url, Host
            <4>8. m \in Methods
                BY <4>5 DEF InFlight, Methods
            <4>9. w \in InFlight
                BY <4>6, <4>7, <4>8 DEF InFlight
            <4>10. check_request(record.grant, m, u, ips)
                BY <4>2, <4>5, MethodsCarryOver
            <4>11. Covered(w)
                BY <4>2, <4>9, <4>10 DEF Covered
            <4>12. Request(c, k) /\ UNCHANGED <<ownership, proven, record, assessed, window>>
                BY <3>3 DEF FollowRedirect, Request, authVars
            <4>13. Put(c, k, w)
                BY <4>2
            <4> HIDE DEF w
            <4> QED
                BY <4>9, <4>11, <4>12, <4>13, <2>5
        <3>4. CASE Finish(c, k)
            <4>1. ~Busy(c, k)'
                BY <3>4 DEF Finish, EndRequest, AbandonRequest, GoTo, Busy, TypeOK
            <4>2. Request(c, k) /\ Put(c, k, Nothing)
                  /\ UNCHANGED <<ownership, proven, record, assessed, window>>
                BY <3>4 DEF Finish, Request, authVars
            <4> QED
                BY <4>1, <4>2, <2>5
        <3> QED
            BY <2>6, <3>1, <3>2, <3>3, <3>4 DEF Travel
    <2>7. CASE UNCHANGED egressVars
        <3>1. UNCHANGED <<ownership, proven, record, assessed, window, wire, client, at>>
            BY <2>7 DEF egressVars, vars, authVars, netVars
        <3> QED
            BY <2>2, <3>1 DEF WireTypeOK, AuthTypeOK, Busy
    <2> QED
        BY <2>1, <2>3, <2>4, <2>6, <2>7 DEF EgressNext
<1> QED
    BY <1>1, <1>2, BudgetHoldsBehindTheGates, PTL DEF EgressSpec

\* Every variable of Egress keeps its type.
THEOREM EgressTypeCorrect == EgressSpec => []EgressTypeOK
<1>1. TypeOK /\ WireTypeOK => EgressTypeOK
    BY DEF WireTypeOK, EgressTypeOK
<1> QED
    BY <1>1, ChainIsKept, BudgetHoldsBehindTheGates, PTL

\* Nothing is under way without a record that a proven ownership stands behind.
THEOREM NobodyElsesTargetIsTested == EgressSpec => []OnlyOwnersTest
<1>1. ChainInv => OnlyOwnersTest
    BY DEF ChainInv, OnlyOwnersTest
<1> QED
    BY <1>1, ChainIsKept, PTL

\* What is known of a request under way.
LEMMA BusyIsCovered ==
    ASSUME WireTypeOK, ChainInv, NEW c \in Client, NEW k \in Caller, Busy(c, k)
    PROVE  record.grant \in Grant /\ wire[c][k] \in InFlight /\ Covered(wire[c][k])
<1>1. record.status = "verified"
    BY DEF ChainInv
<1> QED
    BY <1>1 DEF ChainInv, Covered, WireTypeOK, AuthTypeOK, Records, NoRecord

\* Every hop is in scope in host, port, path and method.
THEOREM EveryHopIsInScope == EgressSpec => []HopsStayInScope
<1>1. WireTypeOK /\ ChainInv => HopsStayInScope
    <2> SUFFICES ASSUME WireTypeOK, ChainInv, NEW c \in Client, NEW k \in Caller, Busy(c, k)
                 PROVE  LET w == wire[c][k] g == record.grant IN
                        /\ w.url.host \in g.hosts
                        /\ PortOf(w.url) \in g.ports \cup (IF g.ports = {} THEN {80, 443} ELSE {})
                        /\ w.url.path \notin g.deny
                        /\ g.allow = {} \/ w.url.path \in g.allow
                        /\ g.methods = {} \/ w.method \in g.methods
                        /\ w.method = "GET" \/ g.changing
        BY DEF HopsStayInScope
    <2> DEFINE w == wire[c][k]
    <2>1. record.grant \in Grant /\ w \in InFlight
          /\ check_request(record.grant, w.method, w.url, w.ips)
        BY BusyIsCovered DEF Covered
    <2>2. w.method \in Methods /\ w.url \in Url
        BY <2>1 DEF InFlight
    <2> HIDE DEF w
    <2>3. /\ w.url.host \in record.grant.hosts
          /\ PortOf(w.url) \in record.grant.ports
                 \cup (IF record.grant.ports = {} THEN {80, 443} ELSE {})
          /\ w.url.path \notin record.grant.deny
          /\ record.grant.allow = {} \/ w.url.path \in record.grant.allow
          /\ record.grant.methods = {} \/ w.method \in record.grant.methods
          /\ w.method = "GET" \/ record.grant.changing
        BY <2>1, <2>2, CoveredIsInScope
    <2> QED
        BY <2>3 DEF w
<1> QED
    BY <1>1, ChainIsKept, PTL

\* Every connection goes to a validated address of its own host.
THEOREM EveryConnectIsVetted == EgressSpec => []ConnectsAreVetted
<1>1. WireTypeOK /\ ChainInv => ConnectsAreVetted
    <2> SUFFICES ASSUME WireTypeOK, ChainInv, NEW c \in Client, NEW k \in Caller, Busy(c, k)
                 PROVE  LET w == wire[c][k] a == Pinned(w) IN
                        /\ a \in IF w.url.host \in Address THEN {w.url.host}
                                  ELSE Serves[w.url.host]
                        /\ Kind[a] # "metadata"
                        /\ Kind[a] = "private" =>
                              \/ record.grant.environment = "lab"
                              \/ record.grant.environment \in {"staging", "development"}
                                    /\ AllowPrivate
        BY DEF ConnectsAreVetted
    <2> QED
        BY BusyIsCovered, PinnedIsVetted DEF Covered
<1> QED
    BY <1>1, ChainIsKept, PTL

\* Guard, rebinding look and sandbox agree about a name that stands still.
THEOREM GuardsAgree == EgressSpec => []StableHostsPass
<1>1. WireTypeOK /\ ChainInv => StableHostsPass
    <2> SUFFICES ASSUME WireTypeOK, ChainInv, assessed,
                        NEW u \in Url, NEW m \in Methods, NEW ips \in Answers(u.host),
                        check_request(record.grant, m, u, ips)
                 PROVE  /\ _assert_no_rebinding(u, ips, ips)
                        /\ assert_egress_allowed(record.grant, u, ips)
        BY DEF StableHostsPass
    <2>1. record.grant \in Grant
        BY DEF ChainInv, WireTypeOK, AuthTypeOK, Records, NoRecord
    <2> QED
        BY <2>1, GatesAgree
<1> QED
    BY <1>1, ChainIsKept, PTL
=============================================================================
