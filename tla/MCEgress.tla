------------------------------- MODULE MCEgress -------------------------------
(* Values of the constants for the runs of Egress.                            *)
EXTENDS Egress, TLC

CONSTANTS run, a1, a2, site, other, metadata, front, back, imds, home, admin, o1, o2

MCClient == {run}
MCNoClient == {}
MCCaller == {a1, a2}
Callers == Permutations(MCCaller)
MCName == {site, other, metadata}
MCAddress == {front, back, imds}
MCServes == site :> {front, back} @@ other :> {back, imds} @@ metadata :> {imds}
MCKind == front :> "public" @@ back :> "private" @@ imds :> "metadata"
MCMetadataName == {metadata}
MCPath == {home, admin}
MCOwnership == {o1}
MCLoopbackHost == {back}

Plain ==
    [environment |-> "production", hosts |-> {}, ports |-> {}, methods |-> {},
     changing |-> FALSE, allow |-> {}, deny |-> {}, windowed |-> TRUE]

\* The target alone in production; the same in an environment
\* that is none, which counts as production, with a second host; a private
\* network with hosts, ports, methods and paths of its own; and a laboratory
\* that is addressed by literals and has no window.
MCBody == {
    Plain,
    [Plain EXCEPT !.environment = "qa", !.hosts = {site, other}],
    [Plain EXCEPT !.environment = "staging", !.hosts = {site, other, metadata},
                  !.ports = {8080}, !.methods = {"GET", "POST"}, !.changing = TRUE,
                  !.deny = {admin}],
    [Plain EXCEPT !.environment = "lab", !.hosts = {back, other}, !.allow = {home},
                  !.methods = {"POST"}, !.changing = TRUE, !.windowed = FALSE]}
=============================================================================
