----------------------------- MODULE MCFindings -----------------------------
(* Instances of Findings for TLC.                                            *)
EXTENDS Findings, TLC

CONSTANTS k1, k2, first, again, run, late, rerun

MCKey == {k1, k2}
MCAssessment == {first, again}
MCPass == {run, late, rerun}
MCRun == {run, rerun}
MCOf == run :> first @@ late :> first @@ rerun :> again
MCWork == run :> {k1} @@ late :> {k2} @@ rerun :> {k1}
MCSeverity == k1 :> "critical" @@ k2 :> "info"

\* The pages that tell the checks apart, for each request they depend on.
Marks(kind) ==
    LET d == kind.detector
    IN  CASE d = "db_error_signature" -> {"db_error"}
          [] d = "unescaped_reflection" -> {"marker", "escaped_marker"}
          [] d = "location_header_host" -> {"attacker_host"}
          [] d = "numeric_bounds" -> {"applied"}
          [] d = "prompt_injection" -> {"leak"}
          [] d = "error_signature" -> {"signature", "payload", "relative_location"}
          [] d = "reflection" -> {"payload", "escaped_payload"}
          [] OTHER -> {}

InjectionTargets(kind) ==
    LET page == {Page(s, "html", 20, m) : s \in {200, 500}, m \in SUBSET Marks(kind)}
                  \cup {Page(200, "json", 20, Marks(kind))}
    IN  {[Usual EXCEPT !["payload"] = p, !["alternate"] = q, !["typed"] = t] :
            p \in page, q \in {Plain} \cup {Shows(200, m) : m \in Marks(kind)},
            t \in {Plain, Page(400, "html", 20, {})}}
       \cup {[Usual EXCEPT ![q] = Refused] : q \in {"payload", "alternate"}}

BooleanTargets ==
    {[Usual EXCEPT !["baseline"] = b, !["true"] = t, !["false"] = f] :
        b \in {Plain, Page(200, "html", 0, {})},
        t \in {Plain, Page(200, "html", 22, {}), Page(500, "html", 10, {})},
        f \in {Plain, Page(200, "html", 10, {}), Page(500, "html", 20, {})}}

BolaTargets ==
    LET page == {Shows(200, "object"), Plain, Page(403, "html", 5, {}), Page(500, "html", 5, {})}
    IN  {[Usual EXCEPT !["session"] = s, !["attacker"] = p, !["anonymous"] = q,
                       !["bare_attacker"] = r] :
            s \in BOOLEAN, p \in page, q \in page, r \in page}

HeaderTargets ==
    {Usual} \cup {[Usual EXCEPT !["plain"] = Shows(200, m), !["alternate"] = Shows(200, m)] :
        m \in {"headers_missing", "headers_disclosure", "header", "reflects"}}

FlowTargets ==
    {[Usual EXCEPT !["flow"] = Page(s, c, 20, m)] :
        s \in {200, 201, 409}, c \in {"html", "json"}, m \in {{}, {"exceeds"}}}

TargetsOf(kind) ==
    {Everywhere(Unreachable), Everywhere(Refused)} \cup
    LET d == kind.detector
    IN  CASE d = "boolean_differential" -> BooleanTargets
          [] d \in {"cross_account_path", "cross_account_query"} -> BolaTargets
          [] d \in {"headers_missing", "headers_disclosure"} \cup HeaderDetector ->
                 HeaderTargets
          [] d = "business_flow" -> FlowTargets
          [] OTHER -> InjectionTargets(kind)

Casts == {[kind |-> d, targets |-> TargetsOf(d)] : d \in Kind}

\* Of the kinds with the same faces, one.
Distinct == {CHOOSE c \in Casts : FacesOf(c) = f : f \in {FacesOf(c) : c \in Casts}}

\* A check for database errors, in a target that shows them or does not.
Errors == {[kind    |-> [class |-> "sqli", detector |-> "db_error_signature"],
            targets |-> {Usual, [Usual EXCEPT !["payload"] = Shows(200, "db_error")]}]}

\* The same check in a target that shows none, for a key without a task.
Silent == {[kind |-> [class |-> "sqli", detector |-> "db_error_signature"], targets |-> {Usual}]}

\* Every kind in a run alone; runs and tasks side by side with one kind.
MCScenarios ==
    {[tasks |-> {run}, casts |-> k1 :> Distinct @@ k2 :> Silent],
     [tasks |-> {run, late}, casts |-> k1 :> Errors @@ k2 :> Errors],
     [tasks |-> {run, rerun}, casts |-> k1 :> Errors @@ k2 :> Silent]}
=============================================================================
