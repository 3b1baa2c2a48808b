------------------------------ MODULE Reproof ------------------------------
(***************************************************************************)
(* What becomes of a finding that is tried again: the independent           *)
(* validation of services/validation.py and the regression tests of         *)
(* services/regression.py.                                                  *)
(*                                                                          *)
(* Both are given the class of the finding and its recipe, never the        *)
(* evidence.  They choose what to do by the class, which for a declarative  *)
(* skill is whatever its author wrote, so that the recipe of one detector   *)
(* may be replayed by the validator of another.                             *)
(***************************************************************************)
EXTENDS Probes

Verdict == {"confirmed", "suspected", "inconclusive", "rejected"}

TestResult == {"fixed", "still_vulnerable", "inconclusive"}

Declarative(kind) == kind.detector \in InjectingDetector \cup HeaderDetector

\* The recipes of the header detectors name no parameter and no payload.
Injects(kind) == kind.detector \notin HeaderDetector

\* The request that a replay of the payload of the recipe amounts to.
Replay(kind) == IF Injects(kind) THEN "payload" ELSE "plain"

AllReached(target, requests) == \A r \in requests : Reached(target[r])

_len_close(a, b) == ~_len_differs(a, b, 15)

\* The response to the true payload differs from that to the false one.
Differential(target) ==
    \/ target["true"].status # target["false"].status
    \/ _len_differs(target["true"], target["false"], 30)

_validate_sqli(kind, target) ==
    LET d == kind.detector
    IN  CASE d = "db_error_signature" ->
                 IF ~Reached(target["payload"]) THEN "inconclusive"
                 ELSE IF "db_error" \in target["payload"].shows THEN "confirmed"
                 ELSE IF ~Reached(target["alternate"]) THEN "inconclusive"
                 ELSE IF "db_error" \in target["alternate"].shows THEN "confirmed"
                 ELSE "rejected"
          [] d = "boolean_differential" ->
                 IF ~AllReached(target, {"baseline", "true", "false"}) THEN "inconclusive"
                 ELSE IF ~Differential(target) THEN "rejected"
                 ELSE IF _len_close(target["true"], target["baseline"]) THEN "confirmed"
                 ELSE "suspected"
          [] OTHER -> "inconclusive"

\* A recipe with a marker is tried for the built-in form of the marker, also
\* that of a declarative reflection, which sent a form of its own.
Sought(kind) ==
    IF kind.detector \in {"unescaped_reflection", "reflection"} THEN "marker"
    ELSE IF Injects(kind) THEN "payload" ELSE "nothing"

XssReproduces(kind, target) ==
    LET page == target[Replay(kind)]
    IN  /\ renderable_html_context(page)
        /\ Sought(kind) \in page.shows
        /\ Sought(kind) = "marker" => "escaped_marker" \notin page.shows

\* Mistake: the marker is looked for in its escaped form.
_validate_escaped(kind, target) ==
    LET page == target[Replay(kind)]
    IN  IF ~Reached(page) THEN "inconclusive"
        ELSE IF "escaped_marker" \in page.shows THEN "confirmed" ELSE "rejected"

_validate_xss(kind, target) ==
    IF ~Reached(target[Replay(kind)]) THEN "inconclusive"
    ELSE IF XssReproduces(kind, target) THEN "confirmed" ELSE "rejected"

\* The url of a recipe holds the object's id only when the id is in the path.
_validate_bola(kind, target) ==
    LET bare == kind.detector = "cross_account_query"
        anon == target[IF bare THEN "bare_anonymous" ELSE "anonymous"]
        as_attacker == target[IF bare THEN "bare_attacker" ELSE "attacker"]
    IN  IF Declarative(kind) \/ ~Reached(anon) THEN "inconclusive"
        ELSE IF HasObject(anon) THEN "confirmed"
        ELSE IF ~target["session"] THEN "suspected"
        ELSE IF HasObject(as_attacker) THEN "confirmed"
        ELSE IF as_attacker.status \in {401, 403, 404} THEN "rejected"
        ELSE "inconclusive"

_validate_business_logic(kind, target) ==
    IF \/ ~Injects(kind)
       \/ ~AllReached(target, {"baseline", "payload"})
       \/ ~Accepted(target["baseline"])
    THEN "inconclusive"
    ELSE IF Accepted(target["payload"]) /\ "applied" \in target["payload"].shows
    THEN "confirmed"
    ELSE IF target["payload"].status >= 400 THEN "rejected" ELSE "suspected"

_validate_business_flow(kind, target) ==
    LET page == target["flow"]
    IN  IF Declarative(kind) \/ ~Reached(page) THEN "inconclusive"
        ELSE IF page.status \notin {200, 201} THEN "rejected"
        ELSE IF page.ctype # "json" THEN "inconclusive"
        ELSE IF "exceeds" \in page.shows THEN "confirmed" ELSE "rejected"

_validate_prompt_injection(kind, target) ==
    IF ~Injects(kind) \/ ~AllReached(target, {"baseline", "payload"}) THEN "inconclusive"
    ELSE IF "leak" \in target["payload"].shows \ target["baseline"].shows
    THEN "confirmed" ELSE "rejected"

\* A payload without a host has the host of every relative location: none.
AttackerHost(kind) ==
    IF kind.detector = "location_header_host" THEN "attacker_host" ELSE "relative_location"

RedirectReproduces(kind, target) == AttackerHost(kind) \in target[Replay(kind)].shows

\* That the guard refuses the request is taken for the redirect itself.
_validate_open_redirect(kind, target) ==
    LET page == target[Replay(kind)]
    IN  CASE page.arrives = "refused" -> "confirmed"
          [] page.arrives = "unreachable" -> "inconclusive"
          [] OTHER -> IF RedirectReproduces(kind, target) THEN "confirmed" ELSE "rejected"

\* Any answer confirms; nobody looks at its headers.
_validate_headers(target) ==
    CASE target["plain"].arrives = "refused" -> "inconclusive"
      [] target["plain"].arrives = "unreachable" -> "suspected"
      [] OTHER -> "confirmed"

_validate_declarative(kind, target) ==
    IF ~Reached(target[Replay(kind)]) THEN "inconclusive"
    ELSE IF Injects(kind) /\ ~DeclarativeCheck(target, kind.detector) THEN "rejected"
    ELSE "confirmed"

validate_finding(kind, target) ==
    LET c == kind.class
    IN  CASE c = "bola" -> _validate_bola(kind, target)
          [] c = "sqli" -> _validate_sqli(kind, target)
          [] c = "xss" -> _validate_xss(kind, target)
          [] c = "open_redirect" -> _validate_open_redirect(kind, target)
          [] c \in {"security_headers", "info_disclosure"} -> _validate_headers(target)
          [] c = "business_logic" -> _validate_business_logic(kind, target)
          [] c = "business_flow" -> _validate_business_flow(kind, target)
          [] c = "llm_prompt_injection" -> _validate_prompt_injection(kind, target)
          [] OTHER -> _validate_declarative(kind, target)

(***************************************************************************)
(* Regression tests.                                                        *)
(***************************************************************************)
Reproduces(condition) == IF condition THEN "still_vulnerable" ELSE "fixed"

\* Mistake: the boolean payloads are taken for the one that shows an error.
_regress_errors(kind, target) ==
    IF Reached(target["payload"])
    THEN Reproduces("db_error" \in target["payload"].shows) ELSE "inconclusive"

\* Unlike the validator this sends no alternate payload, and it takes the
\* recipe of every other detector for a boolean one, whose two payloads are
\* then both missing and get the same answer.
_regress_sqli(kind, target) ==
    CASE kind.detector = "db_error_signature" ->
             IF Reached(target["payload"])
             THEN Reproduces("db_error" \in target["payload"].shows)
             ELSE "inconclusive"
      [] kind.detector = "boolean_differential" ->
             IF AllReached(target, {"baseline", "true", "false"})
             THEN Reproduces(/\ Differential(target)
                             /\ _len_close(target["true"], target["baseline"]))
             ELSE "inconclusive"
      [] OTHER -> IF AllReached(target, {"baseline", "plain"}) THEN "fixed" ELSE "inconclusive"

_regress_xss(kind, target) ==
    IF Reached(target[Replay(kind)]) THEN Reproduces(XssReproduces(kind, target))
    ELSE "inconclusive"

_regress_open_redirect(kind, target) ==
    LET page == target[Replay(kind)]
    IN  CASE page.arrives = "refused" -> "still_vulnerable"
          [] page.arrives = "unreachable" -> "inconclusive"
          [] OTHER -> Reproduces(RedirectReproduces(kind, target))

run_regression(kind, target) ==
    CASE kind.class = "sqli" -> _regress_sqli(kind, target)
      [] kind.class = "xss" -> _regress_xss(kind, target)
      [] kind.class = "open_redirect" -> _regress_open_redirect(kind, target)
      [] OTHER -> "inconclusive"

(***************************************************************************)
(* What a target's answers come to for a kind of finding.                   *)
(***************************************************************************)

\* The kinds whose recipe reaches the validator it is meant for, with all of
\* the request in it: the object's id of a query parameter is not.
Own(kind) ==
    /\ Declarative(kind) => kind.class = "custom"
    /\ kind.detector # "cross_account_query"

FaceOf(kind, target) ==
    [probe |-> SpecialistCheckAgent(kind, target), verdict |-> validate_finding(kind, target),
     regress |-> run_regression(kind, target), own |-> Own(kind)]
=============================================================================
