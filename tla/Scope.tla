-------------------------------- MODULE Scope --------------------------------
(***************************************************************************)
(* What an authorization record permits: the decisions of ScopeGuard        *)
(* (security/scope.py), of the network classification beneath it            *)
(* (security/netguard.py), of the look for a rebound name                   *)
(* (GuardedHttpClient._assert_no_rebinding) and of the sandbox              *)
(* (security/sandbox.py), which is written independently of the guard.      *)
(*                                                                          *)
(* A host is a name or an address literal.  A name is resolved anew at each *)
(* look, so every decision takes the answer as a parameter; the empty       *)
(* answer is a failed resolution.  Entries of a record's lists stand for    *)
(* the hosts and paths they match, wildcards and prefixes expanded.         *)
(***************************************************************************)
EXTENDS Naturals

CONSTANTS
    Name,          \* host names
    Address,       \* addresses, which may stand in a URL as literals
    Serves,        \* the addresses a name may resolve to
    Kind,          \* "public", "private" (loopback included) or "metadata"
    MetadataName,  \* HARD_BLOCK_HOSTS
    Path,          \* paths of the URLs
    ExplicitPort,  \* ports that URLs and records name
    AllowPrivate   \* settings.allow_private_networks

ASSUME ScopeAssumption ==
    /\ Name \cap Address = {}
    /\ Serves \in [Name -> SUBSET Address]
    /\ Kind \in [Address -> {"public", "private", "metadata"}]
    /\ MetadataName \subseteq Name
    /\ ExplicitPort \subseteq Nat \ {0}
    /\ AllowPrivate \in BOOLEAN

Host == Name \cup Address

Methods == {"GET", "POST", "DELETE"}

STATE_CHANGING_METHODS == {"POST", "DELETE"}

\* "qa" is a word that is no Environment: create_authorization takes any.
Environments == {"lab", "staging", "development", "production", "qa"}

\* The columns of a record that decide about requests.
Grant ==
    [environment : Environments,
     hosts       : SUBSET Host,
     ports       : SUBSET ExplicitPort,
     methods     : SUBSET Methods,
     changing    : BOOLEAN,            \* allow_state_changing
     allow       : SUBSET Path,        \* path_allowlist, {} when there is none
     deny        : SUBSET Path,        \* path_denylist
     windowed    : BOOLEAN]            \* it has a window_start and a window_end

\* A URL without a port has port 0.
Url == [scheme : {"http", "https"}, host : Host, port : ExplicitPort \cup {0}, path : Path]

default_port_for_scheme(scheme) == IF scheme = "https" THEN 443 ELSE 80

\* parse_url: "or" takes the default for port 0 as for none.
PortOf(u) == IF u.port = 0 THEN default_port_for_scheme(u.scheme) ELSE u.port

\* The answers that a resolver may give.
Answers(host) == IF host \in Address THEN {{host}} ELSE SUBSET Serves[host]

IsHardBlocked(host, ips) ==
    \/ host \in MetadataName
    \/ \E a \in ips : Kind[a] = "metadata"

\* One private or loopback address marks the whole host.
IsInner(ips) == \E a \in ips : Kind[a] = "private"

_coerce_env(environment) == IF environment = "qa" THEN "production" ELSE environment

_host_in_scope(grant, host) == host \in grant.hosts

_path_decision(grant, path) ==
    /\ path \notin grant.deny
    /\ grant.allow # {} => path \in grant.allow

_private_allowed(grant) ==
    \/ _coerce_env(grant.environment) = "lab"
    \/ _coerce_env(grant.environment) \in {"staging", "development"} /\ AllowPrivate

AllowedPorts(grant, scheme) ==
    IF grant.ports = {} THEN {default_port_for_scheme(scheme)} ELSE grant.ports

\* The gates of a request or of a redirect's hop, with the answer ips.
check_request(grant, method, u, ips) ==
    /\ grant.methods # {} => method \in grant.methods
    /\ method \in STATE_CHANGING_METHODS => grant.changing
    /\ _host_in_scope(grant, u.host)
    /\ PortOf(u) \in AllowedPorts(grant, u.scheme)
    /\ _path_decision(grant, u.path)
    /\ ips # {}
    /\ ~IsHardBlocked(u.host, ips)
    /\ IsInner(ips) => _private_allowed(grant)

\* The name is resolved again and compared with the validated addresses; a
\* failed resolution is left to the request.
_assert_no_rebinding(u, validated, ips) ==
    ips # {} =>
        /\ (IsHardBlocked(u.host, ips) \/ IsInner(ips)) /\ validated # {}
               => validated \cap ips # {}
        /\ validated # {} => ips \subseteq validated

DEFAULT_PORTS == {80, 443}

\* SandboxProfile.from_record.
SandboxPorts(grant) == IF grant.ports = {} THEN DEFAULT_PORTS ELSE grant.ports

\* Mistake: a sandbox that takes only laboratories for private networks.
SandboxAllowsPrivateLab(grant) == _coerce_env(grant.environment) = "lab"

SandboxAllowsPrivate(grant) ==
    _coerce_env(grant.environment) \in {"lab", "staging", "development"}

\* Sandbox.assert_egress_allowed, with an answer of its own.
assert_egress_allowed(grant, u, ips) ==
    /\ u.host \in grant.hosts
    /\ PortOf(u) \in SandboxPorts(grant)
    /\ ips # {}
    /\ ~IsHardBlocked(u.host, ips)
    /\ IsInner(ips) => SandboxAllowsPrivate(grant)
=============================================================================
