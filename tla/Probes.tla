------------------------------- MODULE Probes -------------------------------
(***************************************************************************)
(* What the checks of app/checks find in a target, as functions of what the *)
(* target answers.                                                          *)
(*                                                                          *)
(* A kind of finding is a class and a detector: those of the built-in       *)
(* checks, and those of declarative skills, whose class the author of the   *)
(* manifest chooses freely.  The kind determines the recipe that the check  *)
(* leaves for those who try the finding again (services/validation.py,      *)
(* services/regression.py).                                                 *)
(*                                                                          *)
(* A target is a record of its answers, one per request that a check, the   *)
(* validator or a regression test can send, and whether a session of the    *)
(* attacking test account is still active.  Of an answer only that is kept  *)
(* which somebody looks at: status, content type, length, and the marks     *)
(* that are found in body or headers.                                       *)
(***************************************************************************)
EXTENDS Naturals

\* Answers, and the two ways not to get one: the connection fails
\* (TargetUnreachable), or the guard refuses to send (ScopeViolation).
Page(status, ctype, len, shows) ==
    [arrives |-> "reply", status |-> status, ctype |-> ctype, len |-> len, shows |-> shows]

NoPage(why) == [arrives |-> why, status |-> 0, ctype |-> "", len |-> 0, shows |-> {}]

Mark ==
    {"db_error", "marker", "escaped_marker", "object", "attacker_host", "headers_missing",
     "headers_disclosure", "applied", "exceeds", "leak", "signature", "payload",
     "escaped_payload", "header", "reflects", "relative_location"}

Answer ==
    [arrives : {"reply", "unreachable", "refused"}, status : Nat, ctype : {"", "html", "json"},
     len : Nat, shows : SUBSET Mark]

Unreachable == NoPage("unreachable")
Refused == NoPage("refused")

Plain == Page(200, "html", 20, {})

Shows(status, mark) == Page(status, "html", 20, {mark})

Reached(page) == page.arrives = "reply"

Accepted(page) == page.status \in 200..299

Request ==
    {"plain", "baseline", "typed", "payload", "alternate", "true", "false",
     "attacker", "anonymous", "bare_attacker", "bare_anonymous", "flow"}

IsTarget(t) == t["session"] \in BOOLEAN /\ \A q \in Request : t[q] \in Answer

\* A target with a session for the attacker that answers every request alike.
Everywhere(page) == [q \in Request \cup {"session"} |-> IF q = "session" THEN TRUE ELSE page]

Usual == Everywhere(Plain)

BuiltinClass ==
    {"sqli", "xss", "bola", "open_redirect", "security_headers", "info_disclosure",
     "business_logic", "business_flow", "llm_prompt_injection"}

BuiltinDetector ==
    {"db_error_signature", "boolean_differential", "unescaped_reflection",
     "cross_account_path", "cross_account_query", "location_header_host",
     "headers_missing", "headers_disclosure", "numeric_bounds", "business_flow",
     "prompt_injection"}

ClassOf(detector) ==
    CASE detector \in {"db_error_signature", "boolean_differential"} -> "sqli"
      [] detector = "unescaped_reflection" -> "xss"
      [] detector \in {"cross_account_path", "cross_account_query"} -> "bola"
      [] detector = "location_header_host" -> "open_redirect"
      [] detector = "headers_missing" -> "security_headers"
      [] detector = "headers_disclosure" -> "info_disclosure"
      [] detector = "numeric_bounds" -> "business_logic"
      [] detector = "business_flow" -> "business_flow"
      [] detector = "prompt_injection" -> "llm_prompt_injection"

InjectingDetector == {"error_signature", "status_code", "reflection"}
HeaderDetector == {"header_presence", "header_reflects"}

\* "custom" is a class for which no validator of its own exists.
DeclarativeKind ==
    [class : BuiltinClass \cup {"custom"}, detector : InjectingDetector \cup HeaderDetector]

Kind == {[class |-> ClassOf(d), detector |-> d] : d \in BuiltinDetector} \cup DeclarativeKind

(***************************************************************************)
(* The checks.  Each operator says whether its check returns a finding.     *)
(***************************************************************************)
renderable_html_context(page) == page.status < 400 /\ page.ctype \in {"", "html"}

Longer(m, n) == IF m > n THEN m ELSE n
Apart(m, n) == IF m > n THEN m - n ELSE n - m

\* The length differs from the other by more than so many percent of the longer one.
_len_differs(a, b, percent) ==
    /\ Longer(a.len, b.len) # 0
    /\ 100 * Apart(a.len, b.len) > percent * Longer(a.len, b.len)

\* The length of an empty baseline counts as 1, and "close" excludes 15 percent.
_boolean_differs(baseline, r_true, r_false) ==
    \/ r_true.status # r_false.status
    \/ LET base == Longer(baseline.len, 1)
       IN  /\ _len_differs(r_true, r_false, 30)
           /\ 100 * Apart(r_true.len, base) < 15 * Longer(r_true.len, base)

\* "payload" is the first of ERROR_PAYLOADS that shows an error, if one does.
SqlInjectionCheck(target, detector) ==
    LET error == "db_error" \in target["payload"].shows
    IN  /\ Reached(target["baseline"])
        /\ \/ detector = "db_error_signature" /\ error
           \/ /\ detector = "boolean_differential"
              /\ ~error
              /\ Reached(target["true"])
              /\ Reached(target["false"])
              /\ _boolean_differs(target["baseline"], target["true"], target["false"])

ReflectedXssCheck(target) ==
    LET page == target["payload"]
    IN  /\ Reached(page)
        /\ renderable_html_context(page)
        /\ "marker" \in page.shows
        /\ "escaped_marker" \notin page.shows

HasObject(page) == page.status = 200 /\ "object" \in page.shows

\* An object that everybody can fetch is public and not reported.
BolaCheck(target) ==
    /\ target["session"]
    /\ HasObject(target["attacker"])
    /\ ~HasObject(target["anonymous"])

OpenRedirectCheck(target) == "attacker_host" \in target["payload"].shows

SecurityHeadersCheck(target, mark) == mark \in target["plain"].shows

NumericBoundsCheck(target) ==
    /\ Reached(target["payload"])
    /\ Accepted(target["baseline"])
    /\ target["typed"].status >= 400
    /\ Accepted(target["payload"])
    /\ "applied" \in target["payload"].shows

\* The steps of the flow are one request here; its last page is looked at.  A
\* value that is not in a JSON body is still found by the check's pattern.
BusinessFlowCheck(target) ==
    /\ target["flow"].status = 200
    /\ "exceeds" \in target["flow"].shows

PromptInjectionCheck(target) ==
    /\ Reached(target["baseline"])
    /\ "leak" \in target["payload"].shows
    /\ "leak" \notin target["baseline"].shows

DeclarativeCheck(target, detector) ==
    LET page == target["payload"]
    IN  CASE detector = "error_signature" -> "signature" \in page.shows
          [] detector = "status_code" -> page.status = 500
          [] detector = "reflection" ->
                 /\ Reached(page)
                 /\ renderable_html_context(page)
                 /\ "payload" \in page.shows
                 /\ "escaped_payload" \notin page.shows
          [] detector = "header_presence" -> "header" \in target["plain"].shows
          [] detector = "header_reflects" -> "reflects" \in target["alternate"].shows

Detects(kind, target) ==
    LET d == kind.detector
    IN  CASE d \in {"db_error_signature", "boolean_differential"} -> SqlInjectionCheck(target, d)
          [] d = "unescaped_reflection" -> ReflectedXssCheck(target)
          [] d \in {"cross_account_path", "cross_account_query"} -> BolaCheck(target)
          [] d = "location_header_host" -> OpenRedirectCheck(target)
          [] d \in {"headers_missing", "headers_disclosure"} -> SecurityHeadersCheck(target, d)
          [] d = "numeric_bounds" -> NumericBoundsCheck(target)
          [] d = "business_flow" -> BusinessFlowCheck(target)
          [] d = "prompt_injection" -> PromptInjectionCheck(target)
          [] OTHER -> DeclarativeCheck(target, d)

\* The requests that the check for a detector sends before it finds something.
SentBy(detector) ==
    CASE detector \in {"db_error_signature", "prompt_injection"} -> {"baseline", "payload"}
      [] detector = "boolean_differential" -> {"baseline", "payload", "true", "false"}
      [] detector \in {"cross_account_path", "cross_account_query"} -> {"attacker", "anonymous"}
      [] detector \in {"headers_missing", "headers_disclosure", "header_presence"} -> {"plain"}
      [] detector = "numeric_bounds" -> {"baseline", "typed", "payload"}
      [] detector = "business_flow" -> {"flow"}
      [] detector = "header_reflects" -> {"alternate"}
      [] OTHER -> {"payload"}

\* What the agent of a step makes of its check.  A refusal of any of its requests
\* by the guard is an error of the step, except that the redirect check takes it
\* for a finding, which the agent then drops because it comes without evidence.
\* A check that stops before the refused request has found nothing.
SpecialistCheckAgent(kind, target) ==
    IF \E q \in SentBy(kind.detector) : target[q].arrives = "refused"
    THEN IF kind.detector = "location_header_host" THEN "none" ELSE "error"
    ELSE IF Detects(kind, target) THEN "finding" ELSE "none"
=============================================================================
