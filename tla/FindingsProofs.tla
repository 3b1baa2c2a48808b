--------------------------- MODULE FindingsProofs ---------------------------
(* Theorems about Findings for any assessments, keys, passes and kinds, any   *)
(* division of the steps among the passes and any number of events.           *)
EXTENDS Findings, TLAPS

\* A rejection stands on a row of the memory and on a finding that exists.
Standing ==
    \A a \in Assessment, k \in Key :
        said[a][k] = "rejected" => KnownFalsePositive(k) /\ finding[a][k] # "none"

RejectionInv == TypeOK /\ Standing /\ RejectionSurvives

(***************************************************************************)
(* The checks, the validator and the regression tests, detector by detector. *)
(***************************************************************************)

\* The answers of the validator and of the regression test are among those
\* their callers know.
LEMMA ReproofTypes ==
    ASSUME NEW kind \in Kind, NEW target
    PROVE  /\ validate_finding(kind, target) \in Verdict
           /\ run_regression(kind, target) \in TestResult
           /\ SpecialistCheckAgent(kind, target) \in {"finding", "none", "error"}
<1>1. _validate_sqli(kind, target) \in Verdict /\ _validate_bola(kind, target) \in Verdict
    BY DEF _validate_sqli, _validate_bola, Verdict
<1>2. /\ _validate_xss(kind, target) \in Verdict
      /\ _validate_open_redirect(kind, target) \in Verdict
      /\ _validate_headers(target) \in Verdict
      /\ _validate_declarative(kind, target) \in Verdict
    BY DEF _validate_xss, _validate_open_redirect, _validate_headers, _validate_declarative, Verdict
<1>3. /\ _validate_business_logic(kind, target) \in Verdict
      /\ _validate_business_flow(kind, target) \in Verdict
      /\ _validate_prompt_injection(kind, target) \in Verdict
    BY DEF _validate_business_logic, _validate_business_flow, _validate_prompt_injection, Verdict
<1>4. validate_finding(kind, target) \in Verdict
    BY <1>1, <1>2, <1>3 DEF validate_finding
<1>5. /\ _regress_sqli(kind, target) \in TestResult
      /\ _regress_xss(kind, target) \in TestResult
      /\ _regress_open_redirect(kind, target) \in TestResult
    BY DEF _regress_sqli, _regress_xss, _regress_open_redirect, Reproduces, TestResult
<1>6. run_regression(kind, target) \in TestResult
    BY <1>5 DEF run_regression, TestResult
<1>7. SpecialistCheckAgent(kind, target) \in {"finding", "none", "error"}
    BY DEF SpecialistCheckAgent
<1> QED
    BY <1>4, <1>6, <1>7

\* The face of a kind in any target is one.
LEMMA FaceType ==
    ASSUME NEW kind \in Kind, NEW target
    PROVE  FaceOf(kind, target) \in Face
<1>1. Own(kind) \in BOOLEAN
    BY DEF Own
<1>2. Reached(target["plain"]) \in BOOLEAN
    BY DEF Reached
<1> QED
    BY <1>1, <1>2, ReproofTypes DEF FaceOf, Face

\* The kinds whose recipe is tried by the code that is meant for it.
LEMMA KindsOwn ==
    ASSUME NEW kind \in Kind, Own(kind)
    PROVE  \/ kind.detector \in BuiltinDetector \ {"cross_account_query"} /\ kind.class = ClassOf(kind.detector)
           \/ kind.detector \in InjectingDetector \cup HeaderDetector /\ kind.class = "custom"
<1>1. CASE kind \in DeclarativeKind
    BY <1>1 DEF DeclarativeKind, Own, Declarative
<1>2. CASE kind \in {[class |-> ClassOf(d), detector |-> d] : d \in BuiltinDetector}
    BY <1>2 DEF Own
<1> QED
    BY <1>1, <1>2 DEF Kind

\* What a check calls a finding its validator does not call a refutation,
\* whatever a target answers and whichever detector made the finding; and the
\* regression test calls it fixed only if it is a boolean differential whose
\* true page is not close to the baseline, which the validator leaves suspected.
THEOREM FoundIsNotRefuted ==
    ASSUME NEW kind \in Kind, NEW target, Own(kind),
           SpecialistCheckAgent(kind, target) = "finding"
    PROVE  /\ validate_finding(kind, target) # "rejected"
           /\ run_regression(kind, target) = "fixed"
              => /\ kind.detector = "boolean_differential"
                 /\ ~_len_close(target["true"], target["baseline"])
                 /\ validate_finding(kind, target) = "suspected"
<1> DEFINE d == kind.detector
           v == validate_finding(kind, target)
           r == run_regression(kind, target)
<1>0. Detects(kind, target)
    BY DEF SpecialistCheckAgent
<1>1. CASE d = "db_error_signature"
    <2>1. kind.class = "sqli"
        BY <1>1, KindsOwn DEF ClassOf, InjectingDetector, HeaderDetector
    <2>2. "db_error" \in target["payload"].shows
        BY <1>0, <1>1 DEF Detects, SqlInjectionCheck
    <2>3. v \in {"inconclusive", "confirmed"}
        BY <1>1, <2>1, <2>2 DEF validate_finding, _validate_sqli
    <2>4. r # "fixed"
        BY <1>1, <2>1, <2>2 DEF run_regression, _regress_sqli, Reproduces
    <2> QED
        BY <2>3, <2>4
<1>2. CASE d = "boolean_differential"
    <2>1. kind.class = "sqli"
        BY <1>2, KindsOwn DEF ClassOf, InjectingDetector, HeaderDetector
    <2>2. Differential(target)
        BY <1>0, <1>2 DEF Detects, SqlInjectionCheck, _boolean_differs, Differential
    <2>3. v # "rejected"
        BY <1>2, <2>1, <2>2 DEF validate_finding, _validate_sqli
    <2>4. r = "fixed" => AllReached(target, {"baseline", "true", "false"})
                         /\ ~_len_close(target["true"], target["baseline"])
        BY <1>2, <2>1, <2>2 DEF run_regression, _regress_sqli, Reproduces
    <2>5. r = "fixed" => v = "suspected"
        BY <1>2, <2>1, <2>2, <2>4 DEF validate_finding, _validate_sqli
    <2> QED
        BY <1>2, <2>3, <2>4, <2>5
<1>3. CASE d = "unescaped_reflection"
    <2>1. kind.class = "xss" /\ Replay(kind) = "payload"
        BY <1>3, KindsOwn DEF ClassOf, InjectingDetector, HeaderDetector, Replay, Injects
    <2>2. ReflectedXssCheck(target) /\ Sought(kind) = "marker"
        BY <1>0, <1>3 DEF Detects, Sought
    <2>3. XssReproduces(kind, target)
        BY <2>1, <2>2 DEF ReflectedXssCheck, XssReproduces
    <2> QED
        BY <2>1, <2>3 DEF validate_finding, _validate_xss, run_regression, _regress_xss, Reproduces
<1>4. CASE d = "cross_account_path"
    <2>1. kind.class = "bola" /\ ~Declarative(kind)
        BY <1>4, KindsOwn DEF ClassOf, InjectingDetector, HeaderDetector, Declarative
    <2>2. target["session"] /\ HasObject(target["attacker"])
        BY <1>0, <1>4 DEF Detects, BolaCheck
    <2>3. v # "rejected"
        BY <1>4, <2>1, <2>2 DEF validate_finding, _validate_bola
    <2> QED
        BY <2>1, <2>3 DEF run_regression
<1>5. CASE d = "location_header_host"
    <2>1. kind.class = "open_redirect" /\ Replay(kind) = "payload"
        BY <1>5, KindsOwn DEF ClassOf, InjectingDetector, HeaderDetector, Replay, Injects
    <2>2. RedirectReproduces(kind, target)
        BY <1>0, <1>5, <2>1 DEF Detects, OpenRedirectCheck, RedirectReproduces, AttackerHost
    <2> QED
        BY <2>1, <2>2 DEF validate_finding, _validate_open_redirect, run_regression,
                          _regress_open_redirect, Reproduces
<1>6. CASE d \in {"headers_missing", "headers_disclosure"}
    <2>1. kind.class \in {"security_headers", "info_disclosure"}
        BY <1>6, KindsOwn DEF ClassOf, InjectingDetector, HeaderDetector
    <2> QED
        BY <2>1 DEF validate_finding, _validate_headers, run_regression
<1>7. CASE d = "numeric_bounds"
    <2>1. kind.class = "business_logic"
        BY <1>7, KindsOwn DEF ClassOf, InjectingDetector, HeaderDetector
    <2>2. NumericBoundsCheck(target)
        BY <1>0, <1>7 DEF Detects
    <2> QED
        BY <2>1, <2>2 DEF NumericBoundsCheck, validate_finding, _validate_business_logic, run_regression
<1>8. CASE d = "business_flow"
    <2>1. kind.class = "business_flow"
        BY <1>8, KindsOwn DEF ClassOf, InjectingDetector, HeaderDetector
    <2>2. BusinessFlowCheck(target)
        BY <1>0, <1>8 DEF Detects
    <2> QED
        BY <2>1, <2>2 DEF BusinessFlowCheck, validate_finding, _validate_business_flow, run_regression
<1>9. CASE d = "prompt_injection"
    <2>1. kind.class = "llm_prompt_injection"
        BY <1>9, KindsOwn DEF ClassOf, InjectingDetector, HeaderDetector
    <2>2. PromptInjectionCheck(target)
        BY <1>0, <1>9 DEF Detects
    <2> QED
        BY <2>1, <2>2 DEF PromptInjectionCheck, validate_finding, _validate_prompt_injection,
                          run_regression
<1>10. CASE d \in InjectingDetector \cup HeaderDetector
    <2>1. kind.class = "custom"
        BY <1>10, KindsOwn DEF InjectingDetector, HeaderDetector, BuiltinDetector
    <2>2. Injects(kind) => DeclarativeCheck(target, d)
        BY <1>0, <1>10 DEF Detects, InjectingDetector, HeaderDetector, Injects
    <2> QED
        BY <2>1, <2>2 DEF validate_finding, _validate_declarative, run_regression
<1> QED
    BY <1>1, <1>2, <1>3, <1>4, <1>5, <1>6, <1>7, <1>8, <1>9, <1>10, KindsOwn DEF BuiltinDetector

\* The exception, seen from the target: a check reports a boolean differential
\* whose true page is not close to the baseline only if the two payloads get
\* answers of different status, or the baseline is an empty page.
THEOREM WeakDifferential ==
    ASSUME NEW target, IsTarget(target),
           SqlInjectionCheck(target, "boolean_differential"),
           ~_len_close(target["true"], target["baseline"])
    PROVE  \/ target["true"].status # target["false"].status
           \/ target["baseline"].len = 0
<1> SUFFICES ASSUME target["true"].status = target["false"].status,
                    target["baseline"].len # 0
             PROVE  FALSE
    OBVIOUS
<1> DEFINE m == target["true"].len
           n == target["baseline"].len
<1>1. m \in Nat /\ n \in Nat
    BY DEF IsTarget, Request, Answer
<1>2. Longer(n, 1) = n
    BY <1>1 DEF Longer
<1>3. 100 * Apart(m, n) < 15 * Longer(m, n)
    BY <1>2 DEF SqlInjectionCheck, _boolean_differs
<1>4. 100 * Apart(m, n) > 15 * Longer(m, n)
    BY DEF _len_close, _len_differs
<1> QED
    BY <1>1, <1>3, <1>4 DEF Apart, Longer

(***************************************************************************)
(* Types.                                                                   *)
(***************************************************************************)
LEMMA InitType == Init => TypeOK
<1> SUFFICES ASSUME Init PROVE TypeOK
    OBVIOUS
<1> USE FindingsAssumption DEF FindingsAssumption
<1>1. PICK s \in Scenarios :
          /\ tasks = s.tasks
          /\ \E cast \in {c \in [Key -> UNION Range(s.casts)] : \A k \in Key : c[k] \in s.casts[k]} :
                 faces = [k \in Key |-> FacesOf(cast[k])]
    BY DEF Init
<1>2. tasks \subseteq Pass /\ \A k \in Key : faces[k] \subseteq Face
    <2>1. PICK cast \in {c \in [Key -> UNION Range(s.casts)] : \A k \in Key : c[k] \in s.casts[k]} :
              faces = [k \in Key |-> FacesOf(cast[k])]
        BY <1>1
    <2>2. \A k \in Key : cast[k].kind \in Kind
        OBVIOUS
    <2>3. \A k \in Key : faces[k] \subseteq Face
        BY <2>1, <2>2, FaceType DEF FacesOf
    <2> QED
        BY <1>1, <2>3
<1>3. face \in [Key -> Face] /\ \A k \in Key : face[k] \in faces[k]
    <2>1. face \in [Key -> UNION Range(faces)] /\ \A k \in Key : face[k] \in faces[k]
        BY DEF Init
    <2> QED
        BY <2>1, <1>2
<1>4. /\ step \in [Assessment -> [Key -> StepStatus]]
      /\ finding \in [Assessment -> [Key -> FindingStatus]]
      /\ coverage \in [Assessment -> [Key -> SUBSET {"tested", "untested"}]]
      /\ DOMAIN risk = Assessment
    BY DEF Init, StepStatus, FindingStatus
<1>5. /\ memory \in [Key -> [false_positive : 0..MaxMemory, note : 0..1]]
      /\ tests \in [Key -> SUBSET ({"unknown"} \cup TestResult)]
      /\ events \in 0..MaxEvents
    BY DEF Init
<1>6. /\ said \in [Assessment -> [Key -> {"nothing", "rejected", "confirmed", "suspected"}]]
      /\ unscored \in [Pass -> SUBSET Key]
      /\ changed \in [Assessment -> SUBSET Key]
      /\ stale \in [Assessment -> BOOLEAN]
    BY DEF Init
<1>7. /\ pc \in [Pass -> PassPoint]
      /\ todo \in [Pass -> SUBSET Key]
      /\ loaded \in [Pass -> SUBSET Key]
      /\ verdict \in [Pass -> {NoVerdict} \cup (Key \X Verdict)]
      /\ cancelled \in [Assessment -> BOOLEAN]
      /\ DOMAIN scored = Pass
      /\ \A p \in Pass : scored[p].tested \subseteq Key
    BY DEF Init, PassPoint, NoScore
<1> QED
    BY <1>2, <1>3, <1>4, <1>5, <1>6, <1>7 DEF TypeOK

\* Setting rows of the memory keeps its type.
LEMMA SetMemoryType ==
    ASSUME TypeOK, NEW k \in Key, NEW rows \in [false_positive : 0..MaxMemory, note : 0..1],
           SetMemory(k, rows)
    PROVE  TypeOK'
<1> USE FindingsAssumption DEF FindingsAssumption, TypeOK
<1>1. said' \in [Assessment -> [Key -> {"nothing", "rejected", "confirmed", "suspected"}]]
    BY DEF SetMemory, Forget
<1>2. memory' \in [Key -> [false_positive : 0..MaxMemory, note : 0..1]]
    BY DEF SetMemory
<1>3. events' \in 0..MaxEvents
    BY DEF SetMemory, Happens
<1> QED
    BY <1>1, <1>2, <1>3 DEF SetMemory, world, passVars, rowVars

\* The rows that an edit of the memory may leave.
LEMMA MemoryRows ==
    ASSUME TypeOK, NEW k \in Key
    PROVE  LET R == [false_positive : 0..MaxMemory, note : 0..1]
           IN  /\ [false_positive |-> 1, note |-> 0] \in R
               /\ [false_positive |-> 0, note |-> 1] \in R
               /\ memory[k].false_positive > 0 => [memory[k] EXCEPT !.false_positive = @ - 1] \in R
               /\ memory[k].note > 0 => [memory[k] EXCEPT !.note = @ - 1] \in R
<1> DEFINE R == [false_positive : 0..MaxMemory, note : 0..1]
<1> USE FindingsAssumption DEF FindingsAssumption, TypeOK
<1>1. memory[k] \in R
    OBVIOUS
<1>2. [false_positive |-> 1, note |-> 0] \in R /\ [false_positive |-> 0, note |-> 1] \in R
    OBVIOUS
<1>3. ASSUME memory[k].false_positive > 0
      PROVE  [memory[k] EXCEPT !.false_positive = @ - 1] \in R
    <2>1. memory[k].false_positive - 1 \in 0..MaxMemory
        BY <1>1, <1>3
    <2> QED
        BY <1>1, <2>1
<1>4. ASSUME memory[k].note > 0 PROVE [memory[k] EXCEPT !.note = @ - 1] \in R
    <2>1. memory[k].note - 1 \in 0..1
        BY <1>1, <1>4
    <2> QED
        BY <1>1, <2>1
<1> QED
    BY <1>2, <1>3, <1>4

\* Every step keeps the types.
LEMMA NextType == TypeOK /\ [Next]_vars => TypeOK'
<1> SUFFICES ASSUME TypeOK, [Next]_vars PROVE TypeOK'
    OBVIOUS
<1> USE FindingsAssumption DEF FindingsAssumption, TypeOK
<1>1. CASE UNCHANGED vars
    BY <1>1 DEF vars, world, passVars, rowVars, projectVars, history
<1>2. ASSUME NEW p \in Pass, StartRun(p) PROVE TypeOK'
    BY <1>2 DEF StartRun, GoTo, PassPoint, world, rowVars, projectVars, history
<1>3. ASSUME NEW p \in Pass, ApproveStep(p) PROVE TypeOK'
    BY <1>3 DEF ApproveStep, GoTo, PassPoint, StepStatus, world, projectVars, history
<1>4. ASSUME NEW p \in Pass, PersistResult(p) PROVE TypeOK'
    <2>1. PICK k \in todo[p] : \E report \in Reports(face[k]) :
              LET a == Of[p]
                  errored == report = "error"
              IN  /\ \/ todo' = [todo EXCEPT ![p] = @ \ {k}]
                     \/ errored /\ p \in Run /\ todo' = todo
                  /\ step' = [step EXCEPT ![a][k] = IF errored THEN "errored" ELSE "done"]
                  /\ _persist_finding(a, k, report)
        BY <1>4 DEF PersistResult
    <2>2. k \in Key /\ Of[p] \in Assessment
        OBVIOUS
    <2>3. finding' \in [Assessment -> [Key -> FindingStatus]] /\ changed' \in [Assessment -> SUBSET Key]
        BY <2>1, <2>2 DEF _persist_finding, FindingStatus, Verdict
    <2>4. \/ step' = [step EXCEPT ![Of[p]][k] = "errored"]
          \/ step' = [step EXCEPT ![Of[p]][k] = "done"]
        BY <2>1
    <2>6. \/ todo' = [todo EXCEPT ![p] = @ \ {k}]
          \/ todo' = todo
        BY <2>1
    <2>7. /\ step \in [Assessment -> [Key -> StepStatus]]
          /\ todo \in [Pass -> SUBSET Key]
        OBVIOUS
    <2>8. step' \in [Assessment -> [Key -> StepStatus]]
        <3> HIDE FindingsAssumption DEF TypeOK, FindingsAssumption
        <3>1. CASE step' = [step EXCEPT ![Of[p]][k] = "errored"]
            BY <2>2, <2>7, <3>1 DEF StepStatus
        <3>2. CASE step' = [step EXCEPT ![Of[p]][k] = "done"]
            BY <2>2, <2>7, <3>2 DEF StepStatus
        <3> QED
            BY <2>4, <3>1, <3>2
    <2>10. todo' \in [Pass -> SUBSET Key]
        <3> HIDE FindingsAssumption DEF TypeOK, FindingsAssumption
        <3> QED
            BY <2>2, <2>6, <2>7
    <2> QED
        BY <1>4, <2>3, <2>8, <2>10 DEF PersistResult, world, projectVars
<1>5. ASSUME NEW p \in Pass, DropResults(p) PROVE TypeOK'
    BY <1>5 DEF DropResults, world, rowVars, projectVars, history
<1>6. ASSUME NEW p \in Pass, EndExecute(p) PROVE TypeOK'
    BY <1>6 DEF EndExecute, GoTo, PassPoint, world, rowVars, projectVars, history
<1>7. ASSUME NEW p \in Pass, LoadSuspected(p) PROVE TypeOK'
    BY <1>7 DEF LoadSuspected, GoTo, PassPoint, world, rowVars, projectVars, history
<1>8. ASSUME NEW p \in Pass, Reprove(p) PROVE TypeOK'
    BY <1>8 DEF Reprove, Face, Verdict, world, rowVars, projectVars, history
<1>9. ASSUME NEW p \in Pass, WriteVerdict(p) PROVE TypeOK'
    BY <1>9 DEF WriteVerdict, FindingStatus, world, projectVars
<1>10. ASSUME NEW p \in Pass, _apply_known_false_positives(p) PROVE TypeOK'
    BY <1>10 DEF _apply_known_false_positives, Looked, GoTo, PassPoint, FindingStatus, Verdict,
                 world, projectVars
<1>11. ASSUME NEW p \in Pass, LoadScore(p) PROVE TypeOK'
    <2>1. Tested(Of[p]) \subseteq Key
        BY DEF Tested, StepsOf
    <2>2. DOMAIN scored' = Pass /\ \A q \in Pass : scored'[q].tested \subseteq Key
        BY <1>11, <2>1 DEF LoadScore
    <2>3. pc' \in [Pass -> PassPoint] /\ stale' \in [Assessment -> BOOLEAN]
        BY <1>11 DEF LoadScore, GoTo, PassPoint
    <2> QED
        BY <1>11, <2>2, <2>3 DEF LoadScore, world, rowVars, projectVars
<1>11b. ASSUME NEW p \in Pass, StoreScore(p) PROVE TypeOK'
    <2>1. DOMAIN scored' = Pass /\ \A q \in Pass : scored'[q].tested \subseteq Key
        BY <1>11b DEF StoreScore, NoScore
    <2>2. coverage' \in [Assessment -> [Key -> SUBSET {"tested", "untested"}]]
        BY <1>11b DEF StoreScore, CoverageRow
    <2>3. pc' \in [Pass -> PassPoint] /\ DOMAIN risk' = Assessment
        BY <1>11b DEF StoreScore, GoTo, PassPoint
    <2> QED
        BY <1>11b, <2>1, <2>2, <2>3 DEF StoreScore, world, projectVars, history
<1>12. ASSUME NEW some \in SUBSET Pass, Lose(some) PROVE TypeOK'
    BY <1>12 DEF Lose, Happens, PassPoint, NoScore, world, rowVars, projectVars
<1>13. ASSUME NEW a \in Assessment, Cancel(a) PROVE TypeOK'
    BY <1>13 DEF Cancel, Happens, world, passVars, rowVars, projectVars, history
<1>14. ASSUME NEW a \in Assessment, generate_regression_tests(a) PROVE TypeOK'
    BY <1>14 DEF generate_regression_tests, Happens, world, passVars, rowVars, history
<1>15. ASSUME NEW a \in Assessment, NEW k \in Key, NEW s \in {"rejected", "confirmed", "suspected"},
              triage_finding(a, k, s)
       PROVE  TypeOK'
    <2>1. s = "rejected" => [memory EXCEPT ![k].false_positive = @ + 1]
                                \in [Key -> [false_positive : 0..MaxMemory, note : 0..1]]
        <3> SUFFICES ASSUME s = "rejected"
                     PROVE  [memory[k] EXCEPT !.false_positive = @ + 1]
                                \in [false_positive : 0..MaxMemory, note : 0..1]
            OBVIOUS
        <3>1. memory[k] \in [false_positive : 0..MaxMemory, note : 0..1]
            OBVIOUS
        <3>2. memory[k].false_positive + memory[k].note < MaxMemory
            BY <1>15 DEF triage_finding, Rows
        <3>3. memory[k].false_positive + 1 \in 0..MaxMemory
            BY <3>1, <3>2
        <3> QED
            BY <3>1, <3>3
    <2>2. memory' \in [Key -> [false_positive : 0..MaxMemory, note : 0..1]]
        BY <1>15, <2>1 DEF triage_finding
    <2>3. events' \in 0..MaxEvents
        BY <1>15 DEF triage_finding, Happens
    <2>4. /\ finding' \in [Assessment -> [Key -> FindingStatus]]
          /\ said' \in [Assessment -> [Key -> {"nothing", "rejected", "confirmed", "suspected"}]]
          /\ stale' \in [Assessment -> BOOLEAN]
        BY <1>15 DEF triage_finding, FindingStatus, Verdict
    <2> QED
        BY <1>15, <2>2, <2>3, <2>4 DEF triage_finding, world, passVars
<1>16. ASSUME NEW k \in Key, upsert_memory(k) \/ delete_memory(k) PROVE TypeOK'
    BY <1>16, MemoryRows, SetMemoryType DEF upsert_memory, delete_memory
<1>17. ASSUME NEW k \in Key, Deploy(k) PROVE TypeOK'
    BY <1>17 DEF Deploy, Happens, passVars, rowVars, projectVars
<1>18. ASSUME run_regression_tests PROVE TypeOK'
    <2>1. \A k \in Key : face[k].regress \in TestResult
        BY DEF Face
    <2> QED
        BY <1>18, <2>1 DEF run_regression_tests, Happens, world, passVars, rowVars, history
<1> HIDE FindingsAssumption DEF FindingsAssumption, TypeOK
<1>19. Passes => TypeOK'
    BY <1>2, <1>3, <1>4, <1>5, <1>6, <1>7, <1>8, <1>9, <1>10, <1>11, <1>11b DEF Passes
<1>20. Interrupt => TypeOK'
    BY <1>12 DEF Interrupt, ActivePasses
<1>21. Operators => TypeOK'
    BY <1>13, <1>14, <1>15, <1>16, <1>17, <1>18 DEF Operators
<1> QED
    BY <1>1, <1>19, <1>20, <1>21 DEF Next

\* Every field keeps its type.
THEOREM TypeCorrect == Spec => []TypeOK
<1> QED
    BY InitType, NextType, PTL DEF Spec

(***************************************************************************)
(* Rejections.  What stands in the memory is put back by the pass that      *)
(* wrote over it: the invariant is that the row outlives the ruling.        *)
(***************************************************************************)
LEMMA InitRejection == Init => RejectionInv
<1> SUFFICES ASSUME Init PROVE RejectionInv
    OBVIOUS
<1>1. TypeOK
    BY InitType
<1>2. \A a \in Assessment, k \in Key : said[a][k] = "nothing"
    BY DEF Init
<1> QED
    BY <1>1, <1>2 DEF RejectionInv, Standing, RejectionSurvives

\* Every step keeps what stands against a rejection on record.
LEMMA NextRejection == RejectionInv /\ [Next]_vars => RejectionInv'
<1> SUFFICES ASSUME RejectionInv, [Next]_vars PROVE RejectionInv'
    OBVIOUS
<1> USE FindingsAssumption DEF FindingsAssumption
<1>0. TypeOK /\ TypeOK'
    BY NextType DEF RejectionInv
<1> SUFFICES Standing' /\ RejectionSurvives'
    BY <1>0 DEF RejectionInv
<1> USE <1>0 DEF RejectionInv, Standing, RejectionSurvives, KnownFalsePositive, TypeOK
<1>1. CASE UNCHANGED <<said, memory, finding, unscored>>
    BY <1>1
<1>2. ASSUME NEW p \in Pass, PersistResult(p) PROVE Standing' /\ RejectionSurvives'
    BY <1>2 DEF PersistResult, _persist_finding, projectVars
<1>3. ASSUME NEW p \in Pass, WriteVerdict(p) PROVE Standing' /\ RejectionSurvives'
    <2>1. PICK k \in Key, v \in Verdict : verdict[p] = <<k, v>>
        BY <1>3 DEF WriteVerdict
    <2>2. /\ finding' = [finding EXCEPT ![Of[p]][k] = v]
          /\ unscored' = [unscored EXCEPT ![p] = @ \cup {k}]
          /\ said' = said /\ memory' = memory
        BY <1>3, <2>1 DEF WriteVerdict, projectVars
    <2>3. v # "none"
        BY DEF Verdict
    <2> QED
        BY <2>2, <2>3
<1>4. ASSUME NEW p \in Pass, _apply_known_false_positives(p)
      PROVE  Standing' /\ RejectionSurvives'
    <2>1. /\ UNCHANGED <<said, memory>>
          /\ finding' = [finding EXCEPT ![Of[p]] =
                 [k \in Key |-> IF KnownFalsePositive(k) /\ @[k] # "none" THEN "rejected" ELSE @[k]]]
          /\ unscored' = [q \in Pass |-> IF Of[q] = Of[p] THEN {} ELSE unscored[q]]
        BY <1>4 DEF _apply_known_false_positives, Looked, projectVars
    <2>2. Standing'
        BY <2>1
    <2>3. ASSUME NEW a \in Assessment, NEW k \in Key, said[a][k] = "rejected",
                 finding'[a][k] # "rejected"
          PROVE  a # Of[p] /\ finding[a][k] # "rejected"
        BY <2>1, <2>3
    <2> QED
        BY <2>1, <2>2, <2>3
<1>5. ASSUME NEW a \in Assessment, NEW k \in Key, NEW s \in {"rejected", "confirmed", "suspected"},
             triage_finding(a, k, s)
      PROVE  Standing' /\ RejectionSurvives'
    BY <1>5 DEF triage_finding
<1>6. ASSUME NEW k \in Key, NEW rows \in [false_positive : 0..MaxMemory, note : 0..1],
             SetMemory(k, rows)
      PROVE  Standing' /\ RejectionSurvives'
    BY <1>6 DEF SetMemory, Forget, rowVars
<1> HIDE FindingsAssumption
         DEF FindingsAssumption, Standing, RejectionSurvives, KnownFalsePositive, TypeOK
<1>7. ASSUME NEW p \in Pass, \/ StartRun(p) \/ ApproveStep(p) \/ DropResults(p)
                             \/ EndExecute(p) \/ LoadSuspected(p) \/ Reprove(p)
                             \/ LoadScore(p) \/ StoreScore(p)
      PROVE  UNCHANGED <<said, memory, finding, unscored>>
    BY <1>7 DEF StartRun, ApproveStep, DropResults, EndExecute, LoadSuspected, Reprove, LoadScore,
                StoreScore, rowVars, projectVars, history
<1>8. Passes => Standing' /\ RejectionSurvives'
    BY <1>1, <1>2, <1>3, <1>4, <1>7 DEF Passes
<1>9. Interrupt => UNCHANGED <<said, memory, finding, unscored>>
    BY DEF Interrupt, Lose, rowVars, projectVars
<1>10. ASSUME NEW k \in Key, upsert_memory(k) \/ delete_memory(k)
       PROVE  Standing' /\ RejectionSurvives'
    BY <1>6, <1>10, MemoryRows DEF upsert_memory, delete_memory
<1>11. ASSUME \/ \E a \in Assessment : Cancel(a) \/ generate_regression_tests(a)
              \/ \E k \in Key : Deploy(k)
              \/ run_regression_tests
       PROVE  UNCHANGED <<said, memory, finding, unscored>>
    BY <1>11 DEF Cancel, generate_regression_tests, Deploy, run_regression_tests,
                 rowVars, projectVars, history
<1>12. Operators => Standing' /\ RejectionSurvives'
    BY <1>1, <1>5, <1>10, <1>11 DEF Operators
<1>13. CASE UNCHANGED vars
    BY <1>1, <1>13 DEF vars, rowVars, projectVars, history
<1> QED
    BY <1>1, <1>8, <1>9, <1>12, <1>13 DEF Next

\* An operator's rejection survives the passes beside it, for any number of
\* assessments, passes and events.
THEOREM RejectionStands == Spec => []RejectionSurvives
<1>1. RejectionInv => RejectionSurvives
    BY DEF RejectionInv
<1> QED
    BY <1>1, InitRejection, NextRejection, PTL DEF Spec

(***************************************************************************)
(* Coverage.  A step that has been done is executed by nobody again, so     *)
(* that what was counted as tested stays so.                                *)
(***************************************************************************)
Pending ==
    \A p \in Pass :
        /\ todo[p] \subseteq Work[p]
        /\ \A k \in Work[p] : k \in todo[p] \/ pc[p] = "idle" => step[Of[p]][k] # "done"

\* What a pass has read as tested has been done.
Taken == \A p \in Pass : \A k \in scored[p].tested : step[Of[p]][k] = "done"

TestedDone ==
    \A a \in Assessment, k \in Key : "tested" \in coverage[a][k] => step[a][k] = "done"

CoverageInv == TypeOK /\ Pending /\ Taken /\ TestedDone

\* A result is reported once, or the step is tried again.
LEMMA OneLess ==
    ASSUME todo \in [Pass -> SUBSET Key], NEW p \in Pass, NEW k,
           todo' = todo \/ todo' = [todo EXCEPT ![p] = @ \ {k}]
    PROVE  \A q \in Pass : todo'[q] \subseteq todo[q]
<1>1. CASE todo' = todo
    BY <1>1
<1>2. CASE todo' = [todo EXCEPT ![p] = @ \ {k}]
    BY <1>2
<1> QED
    BY <1>1, <1>2

\* Initially nothing is tested.
LEMMA InitCoverage == Init => CoverageInv
<1> SUFFICES ASSUME Init PROVE CoverageInv
    OBVIOUS
<1>1. TypeOK
    BY InitType
<1>2. Pending
    BY FindingsAssumption DEF Init, Pending, FindingsAssumption
<1>3. Taken /\ TestedDone
    BY DEF Init, Taken, NoScore, TestedDone
<1> QED
    BY <1>1, <1>2, <1>3 DEF CoverageInv

\* No step calls tested what has not been done, and nothing done is undone.
LEMMA NextCoverage == CoverageInv /\ [Next]_vars => CoverageInv'
<1> SUFFICES ASSUME CoverageInv, [Next]_vars PROVE CoverageInv'
    OBVIOUS
<1>0. TypeOK /\ TypeOK'
    BY NextType DEF CoverageInv
<1> DEFINE Kept == Pending' /\ Taken' /\ TestedDone'
<1> SUFFICES Kept
    BY <1>0 DEF CoverageInv
<1>a. FindingsAssumption /\ Pending /\ Taken /\ TestedDone
    BY FindingsAssumption DEF CoverageInv
<1> USE <1>0, <1>a DEF FindingsAssumption, Pending, Taken, TestedDone, TypeOK
<1>1. CASE UNCHANGED <<pc, todo, scored, step, coverage>>
    BY <1>1
<1>2. ASSUME NEW p \in Pass, StartRun(p) PROVE Kept
    BY <1>2 DEF StartRun, GoTo, rowVars
<1>3. ASSUME NEW p \in Pass, ApproveStep(p) PROVE Kept
    BY <1>3 DEF ApproveStep, GoTo
<1>4. ASSUME NEW p \in Pass, PersistResult(p) PROVE Kept
    <2>1. PICK k \in todo[p] :
              \/ /\ todo' = todo \/ todo' = [todo EXCEPT ![p] = @ \ {k}]
                 /\ step' = [step EXCEPT ![Of[p]][k] = "errored"]
              \/ /\ todo' = [todo EXCEPT ![p] = @ \ {k}]
                 /\ step' = [step EXCEPT ![Of[p]][k] = "done"]
        BY <1>4 DEF PersistResult
    <2>2. pc' = pc /\ scored' = scored /\ coverage' = coverage /\ pc[p] = "executing"
        BY <1>4 DEF PersistResult
    <2>3. step[Of[p]][k] # "done" /\ k \in Work[p]
        OBVIOUS
    <2>4. \A q \in Pass : q # p /\ Of[q] = Of[p] => k \notin Work[q]
        BY <2>3
    <2>5. Taken' /\ TestedDone'
        <3>1. \A a \in Assessment, j \in Key :
                  step'[a][j] # step[a][j] => a = Of[p] /\ j = k
            BY <2>1
        <3>2. "tested" \notin coverage[Of[p]][k]
            BY <2>3
        <3>a. \A a \in Assessment, j \in Key : step[a][j] = "done" => step'[a][j] = "done"
            <4> HIDE <1>0, <1>a DEF FindingsAssumption, Pending, Taken, TestedDone, TypeOK
            <4> QED
                BY <2>3, <3>1
        <3>3. ASSUME NEW a \in Assessment, NEW j \in Key, "tested" \in coverage[a][j]
              PROVE  step'[a][j] = "done"
            <4>1. step[a][j] = "done"
                BY <3>3
            <4> QED
                BY <3>a, <3>2, <3>3, <4>1
        <3>4. ASSUME NEW q \in Pass, NEW j \in scored[q].tested
              PROVE  step'[Of[q]][j] = "done"
            <4>1. step[Of[q]][j] = "done" /\ j \in Key /\ Of[q] \in Assessment
                BY <3>4
            <4> HIDE <1>0, <1>a DEF FindingsAssumption, Pending, Taken, TestedDone, TypeOK
            <4> QED
                BY <3>a, <4>1
        <3> QED
            BY <2>2, <3>3, <3>4
    <2>6. CASE /\ todo' = todo \/ todo' = [todo EXCEPT ![p] = @ \ {k}]
               /\ step' = [step EXCEPT ![Of[p]][k] = "errored"]
        <3>1. \A a \in Assessment, j \in Key : step[a][j] # "done" => step'[a][j] # "done"
            BY <2>6
        <3>2. \A q \in Pass : todo'[q] \subseteq todo[q]
            <4>1. todo \in [Pass -> SUBSET Key]
                OBVIOUS
            <4> HIDE <1>0, <1>a DEF FindingsAssumption, Pending, Taken, TestedDone, TypeOK
            <4> QED
                BY <2>6, <4>1, OneLess
        <3> QED
            BY <2>2, <2>5, <3>1, <3>2
    <2>7. CASE /\ todo' = [todo EXCEPT ![p] = @ \ {k}]
               /\ step' = [step EXCEPT ![Of[p]][k] = "done"]
        <3>1. /\ step' = [step EXCEPT ![Of[p]][k] = "done"]
              /\ todo' = [todo EXCEPT ![p] = @ \ {k}]
            BY <2>7
        <3>2. \A q \in Pass : \A j \in Work[q] :
                  q # p /\ (j \in todo'[q] \/ pc'[q] = "idle") => step'[Of[q]][j] # "done"
            BY <2>2, <2>4, <3>1
        <3>3. \A j \in Work[p] : j \in todo'[p] => step'[Of[p]][j] # "done"
            BY <2>2, <3>1
        <3>4. \A q \in Pass : todo'[q] \subseteq Work[q]
            BY <3>1
        <3> QED
            BY <2>2, <2>5, <3>2, <3>3, <3>4
    <2> QED
        BY <2>1, <2>6, <2>7
<1>5. ASSUME NEW p \in Pass, DropResults(p) PROVE Kept
    BY <1>5 DEF DropResults, rowVars
<1>6. ASSUME NEW p \in Pass, \/ EndExecute(p) \/ LoadSuspected(p)
                             \/ _apply_known_false_positives(p)
      PROVE  Kept
    BY <1>6 DEF EndExecute, LoadSuspected, _apply_known_false_positives, GoTo, rowVars
<1>7. ASSUME NEW p \in Pass, LoadScore(p) \/ StoreScore(p) PROVE Kept
    <2>1. CASE LoadScore(p)
        BY <2>1 DEF LoadScore, Tested, GoTo, rowVars
    <2>2. CASE StoreScore(p)
        <3>1. /\ pc' = [pc EXCEPT ![p] = "done"] /\ todo' = todo /\ step' = step
              /\ scored' = [scored EXCEPT ![p] = NoScore]
            BY <2>2 DEF StoreScore, GoTo
        <3>2. Pending' /\ Taken'
            BY <3>1 DEF NoScore
        <3>3. ASSUME NEW a \in Assessment, NEW k \in Key, "tested" \in coverage'[a][k]
              PROVE  "tested" \in coverage[a][k] \/ (a = Of[p] /\ k \in scored[p].tested)
            BY <2>2, <3>3 DEF StoreScore, CoverageRow
        <3> QED
            BY <3>1, <3>2, <3>3
    <2> QED
        BY <1>7, <2>1, <2>2
<1>8. ASSUME NEW some \in SUBSET Pass, Lose(some) PROVE Kept
    BY <1>8 DEF Lose, NoScore, rowVars
<1> HIDE <1>0, <1>a DEF FindingsAssumption, Pending, Taken, TestedDone, TypeOK, Kept
<1>9. ASSUME NEW p \in Pass, Reprove(p) \/ WriteVerdict(p)
      PROVE  UNCHANGED <<pc, todo, scored, step, coverage>>
    BY <1>9 DEF Reprove, WriteVerdict, rowVars
<1>10. Passes => Kept
    BY <1>1, <1>2, <1>3, <1>4, <1>5, <1>6, <1>7, <1>9 DEF Passes
<1>11. Interrupt => Kept
    BY <1>8 DEF Interrupt, ActivePasses
<1>12. Operators => UNCHANGED <<pc, todo, scored, step, coverage>>
    BY DEF Operators, Cancel, generate_regression_tests, triage_finding, upsert_memory,
           delete_memory, SetMemory, Deploy, run_regression_tests, passVars, rowVars
<1>13. CASE UNCHANGED vars
    BY <1>1, <1>13 DEF vars, passVars, rowVars
<1> QED
    BY <1>1, <1>10, <1>11, <1>12, <1>13 DEF Next

(***************************************************************************)
(* Grades.  The last pass to write leaves the grade of what there is, since  *)
(* whoever changes anything after another has read comes to read and write  *)
(* itself; what may come after it without a score of its own is a run that  *)
(* was started again, has nothing to execute, and is cancelled.             *)
(***************************************************************************)

\* A run executes steps before anything has been scored, and the background
\* tasks wait for it.
RunsFirst ==
    /\ \A p \in Run : pc[p] = "idle" \/ todo[p] # {} => risk[Of[p]] = NoRisk
    /\ \A p \in Pass \ Run, r \in Run :
           Of[r] = Of[p] /\ pc[p] # "idle" => pc[r] # "idle" /\ todo[r] = {}

Stages ==
    \A p \in Pass :
        /\ todo[p] # {} => pc[p] = "executing"
        /\ verdict[p] # NoVerdict => pc[p] = "validating"

\* A pass that has a score to write; a run may still be cancelled while it
\* executes.
Due(p) == Active(p) /\ ~(p \in Run /\ pc[p] = "executing")

\* No pass of the assessment, or no other, has a score to write.
Settled(a) == \A p \in Pass : Of[p] = a => ~Due(p)

Alone(p) == \A q \in Pass \ {p} : Of[q] = Of[p] => ~Due(q)

Graded == \A a \in Assessment : risk[a] # NoRisk /\ ~stale[a] /\ Settled(a) => risk[a] = RiskNow(a)

\* What a pass has read is still so, or another has a score to write after it,
\* unless something is on record that came between.
Loaded ==
    \A p \in Pass :
        pc[p] = "saving" /\ ~stale[Of[p]] =>
            /\ Alone(p) => scored[p].risk = RiskNow(Of[p])
            /\ scored[p].seen = risk[Of[p]]
            /\ Saving(Of[p]) = {p}

GradeInv == TypeOK /\ RunsFirst /\ Stages /\ Loaded /\ Graded

\* The present score depends on findings, steps and tasks alone.
LEMMA RiskNowKept ==
    ASSUME NEW a, finding'[a] = finding[a], step'[a] = step[a], tasks' = tasks
    PROVE  RiskNow(a)' = RiskNow(a)
<1>1. StepsOf(a)' = StepsOf(a)
    BY DEF StepsOf
<1>2. Tested(a)' = Tested(a)
    BY <1>1 DEF Tested
<1>3. Open(a)' = Open(a)
    BY DEF Open
<1>4. \A k : ScoreOf(a, k)' = ScoreOf(a, k)
    BY DEF ScoreOf
<1> QED
    BY <1>1, <1>2, <1>3, <1>4 DEF RiskNow

\* Initially nothing has been scored.
LEMMA InitGrade == Init => GradeInv
<1> SUFFICES ASSUME Init PROVE GradeInv
    OBVIOUS
<1>1. TypeOK
    BY InitType
<1>2. \A a \in Assessment : risk[a] = NoRisk
    BY DEF Init
<1>3. \A p \in Pass : pc[p] = "idle" /\ todo[p] = {} /\ verdict[p] = NoVerdict
    BY DEF Init
<1> QED
    BY <1>1, <1>2, <1>3, FindingsAssumption
       DEF GradeInv, RunsFirst, Stages, Loaded, Graded, FindingsAssumption

\* The order of the passes and of the stages of a pass.
LEMMA NextStages == GradeInv /\ [Next]_vars => RunsFirst' /\ Stages'
<1> SUFFICES ASSUME GradeInv, [Next]_vars PROVE RunsFirst' /\ Stages'
    OBVIOUS
<1> DEFINE Kept == RunsFirst' /\ Stages'
<1>a. FindingsAssumption /\ TypeOK /\ RunsFirst /\ Stages
    BY FindingsAssumption DEF GradeInv
<1> USE <1>a DEF FindingsAssumption, RunsFirst, Stages, TypeOK
<1>1. CASE UNCHANGED <<pc, todo, verdict, risk>>
    BY <1>1
<1>2. ASSUME NEW p \in Pass, StartRun(p) PROVE Kept
    BY <1>2 DEF StartRun, GoTo, rowVars
<1>3. ASSUME NEW p \in Pass, ApproveStep(p) PROVE Kept
    <2>1. /\ p \notin Run
          /\ \A r \in Run : Of[r] = Of[p] => pc[r] \in {"done", "failed"}
          /\ pc' = [pc EXCEPT ![p] = "executing"]
          /\ todo' = [todo EXCEPT ![p] = Work[p]]
          /\ verdict' = verdict /\ risk' = risk
        BY <1>3 DEF ApproveStep, GoTo
    <2>2. pc[p] = "idle" /\ verdict[p] = NoVerdict
        BY <1>3 DEF ApproveStep
    <2>3. Stages'
        BY <2>1, <2>2
    <2>4. \A r \in Run : Of[r] = Of[p] => pc'[r] # "idle" /\ todo'[r] = {}
        BY <2>1
    <2>5. RunsFirst'
        BY <2>1, <2>4
    <2> QED
        BY <2>3, <2>5
<1>4. ASSUME NEW p \in Pass, PersistResult(p) PROVE Kept
    <2>1. PICK k \in todo[p] : todo' = [todo EXCEPT ![p] = @ \ {k}] \/ todo' = todo
        BY <1>4 DEF PersistResult
    <2>2. pc' = pc /\ verdict' = verdict /\ risk' = risk
        BY <1>4 DEF PersistResult
    <2>3. \A q \in Pass : todo'[q] \subseteq todo[q]
        <3>1. todo \in [Pass -> SUBSET Key]
            OBVIOUS
        <3> HIDE <1>a DEF FindingsAssumption, RunsFirst, Stages, TypeOK, Kept
        <3> QED
            BY <2>1, <3>1, OneLess
    <2> QED
        BY <2>2, <2>3
<1>5. ASSUME NEW p \in Pass, DropResults(p) PROVE Kept
    BY <1>5 DEF DropResults, rowVars
<1>6. ASSUME NEW p \in Pass, EndExecute(p) \/ LoadSuspected(p) PROVE Kept
    <2>1. /\ todo[p] = {} /\ pc[p] = "executing"
          /\ \E point \in {"done", "validating"} : pc' = [pc EXCEPT ![p] = point]
          /\ todo' = todo /\ verdict' = verdict /\ risk' = risk
        BY <1>6 DEF EndExecute, LoadSuspected, GoTo, rowVars
    <2>2. verdict[p] = NoVerdict
        BY <2>1
    <2>3. \A q \in Pass : q # p => pc'[q] = pc[q]
        BY <2>1
    <2>4. pc'[p] # "idle"
        BY <2>1
    <2> QED
        BY <2>1, <2>2, <2>3, <2>4
<1>7. ASSUME NEW p \in Pass, _apply_known_false_positives(p) PROVE Kept
    BY <1>7 DEF _apply_known_false_positives, GoTo
<1>8. ASSUME NEW p \in Pass, Reprove(p) \/ WriteVerdict(p) PROVE Kept
    BY <1>8 DEF Reprove, WriteVerdict, rowVars
<1>9. ASSUME NEW p \in Pass, LoadScore(p) \/ StoreScore(p) PROVE Kept
    <2>1. /\ pc[p] \in {"scoring", "saving"}
          /\ \E point \in {"saving", "done"} : pc' = [pc EXCEPT ![p] = point]
          /\ \A a \in Assessment : a # Of[p] => risk'[a] = risk[a]
          /\ UNCHANGED <<todo, verdict>>
        BY <1>9 DEF LoadScore, StoreScore, GoTo, rowVars
    <2>2. \A r \in Run : Of[r] = Of[p] => pc[r] # "idle" /\ todo[r] = {}
        <3>1. pc[p] # "idle" /\ todo[p] = {}
            BY <2>1
        <3>2. CASE p \in Run
            <4>1. \A r \in Run : Of[r] = Of[p] => r = p
                BY <3>2
            <4> QED
                BY <3>1, <4>1
        <3>3. CASE p \in Pass \ Run
            BY <3>1, <3>3
        <3> QED
            BY <3>2, <3>3
    <2>3. \A q \in Pass : pc'[q] = pc[q] \/ (q = p /\ pc'[q] # "idle")
        BY <2>1
    <2>4. Stages'
        BY <2>1, <2>3
    <2>5. RunsFirst'
        BY <2>1, <2>2, <2>3
    <2> QED
        BY <2>4, <2>5
<1>10. ASSUME NEW some \in SUBSET Pass, Lose(some), \A p \in some : Active(p) PROVE Kept
    BY <1>10 DEF Lose, Active, rowVars
<1> HIDE <1>a DEF FindingsAssumption, RunsFirst, Stages, TypeOK, Kept
<1>11. Passes => Kept
    BY <1>2, <1>3, <1>4, <1>5, <1>6, <1>7, <1>8, <1>9 DEF Passes
<1>12. Interrupt => Kept
    BY <1>10 DEF Interrupt, ActivePasses
<1>13. Operators => UNCHANGED <<pc, todo, verdict, risk>>
    BY DEF Operators, Cancel, generate_regression_tests, triage_finding, upsert_memory,
           delete_memory, SetMemory, Deploy, run_regression_tests, passVars, rowVars
<1>14. CASE UNCHANGED vars
    BY <1>1, <1>14 DEF vars, passVars, rowVars
<1> QED
    BY <1>1, <1>11, <1>12, <1>13, <1>14 DEF Next, Kept

\* A step that touches the findings, the steps or the stages of one assessment
\* leaves the grades of the others current.
LEMMA OthersGraded ==
    ASSUME Graded, NEW a \in Assessment,
           UNCHANGED tasks,
           \A b \in Assessment \ {a} :
               /\ finding'[b] = finding[b] /\ step'[b] = step[b] /\ risk'[b] = risk[b]
               /\ ~stale'[b] => ~stale[b]
               /\ Settled(b)' => Settled(b),
           risk'[a] # NoRisk /\ ~stale'[a] /\ Settled(a)' => risk'[a] = RiskNow(a)'
    PROVE  Graded'
<1> SUFFICES ASSUME NEW b \in Assessment, risk'[b] # NoRisk, ~stale'[b], Settled(b)'
             PROVE  risk'[b] = RiskNow(b)'
    BY DEF Graded
<1>1. CASE b = a
    BY <1>1
<1>2. CASE b # a
    BY <1>2, RiskNowKept DEF Graded
<1> QED
    BY <1>1, <1>2

\* Every step keeps the grade that was written last current, or records why not.
LEMMA NextGraded == GradeInv /\ [Next]_vars => Graded'
<1> SUFFICES ASSUME GradeInv, [Next]_vars PROVE Graded'
    OBVIOUS
<1>a. FindingsAssumption /\ TypeOK /\ RunsFirst /\ Stages /\ Loaded /\ Graded
    BY FindingsAssumption DEF GradeInv
<1>b. Of \in [Pass -> Assessment]
    BY <1>a DEF FindingsAssumption
<1>1. ASSUME UNCHANGED <<pc, tasks, step, finding, risk>>,
             \A a \in Assessment : ~stale'[a] => ~stale[a]
      PROVE  Graded'
    <2>1. \A a \in Assessment : Settled(a)' = Settled(a)
        BY <1>1 DEF Settled, Due, Active
    <2> QED
        BY <1>1, <1>a, <2>1, RiskNowKept DEF Graded
<1>2. ASSUME NEW p \in Pass, \/ StartRun(p) \/ EndExecute(p)
      PROVE  Graded'
    <2>1. /\ UNCHANGED <<tasks, step, finding, risk>>
          /\ \A a \in Assessment : ~stale'[a] => ~stale[a]
          /\ p \in Run
          /\ pc' = [pc EXCEPT ![p] = "executing"] \/ pc' = [pc EXCEPT ![p] = "done"]
          /\ pc[p] \in {"idle", "failed", "executing"}
        BY <1>2, <1>a DEF StartRun, EndExecute, GoTo, world, rowVars, history, TypeOK
    <2>2. pc \in [Pass -> PassPoint]
        BY <1>a DEF TypeOK
    <2>3. \A q \in Pass : q # p => pc'[q] = pc[q]
        BY <2>1, <2>2
    <2>4. \A a \in Assessment : Settled(a)' => Settled(a)
        BY <2>1, <2>3 DEF Settled, Due, Active
    <2> QED
        BY <1>a, <2>1, <2>4, RiskNowKept DEF Graded
<1>3. ASSUME NEW p \in Pass,
             \/ ApproveStep(p) \/ LoadSuspected(p) \/ WriteVerdict(p)
             \/ _apply_known_false_positives(p) \/ LoadScore(p)
             \/ PersistResult(p) /\ p \notin Run
      PROVE  Graded'
    <2>1. Of[p] \in Assessment
        BY <1>b
    <2>2. /\ UNCHANGED <<tasks, risk>>
          /\ pc' = pc \/ \E point \in PassPoint : pc' = [pc EXCEPT ![p] = point]
          /\ \A b \in Assessment \ {Of[p]} : stale'[b] = stale[b]
        BY <1>3, <1>a DEF ApproveStep, LoadSuspected, WriteVerdict, LoadScore,
                    _apply_known_false_positives, PersistResult, GoTo, PassPoint, world,
                    rowVars, history, TypeOK
    <2>3. Active(p)' /\ ~(p \in Run /\ pc'[p] = "executing")
        <3>1. pc \in [Pass -> PassPoint]
            BY <1>a DEF TypeOK
        <3>2. WriteVerdict(p) => pc[p] = "validating" /\ pc' = pc
            BY <1>a DEF WriteVerdict, Stages
        <3>3. PersistResult(p) => pc[p] = "executing" /\ pc' = pc
            BY DEF PersistResult
        <3> QED
            BY <1>3, <3>1, <3>2, <3>3
               DEF ApproveStep, LoadSuspected, _apply_known_false_positives, LoadScore, GoTo,
                   Active
    <2>4. ~Settled(Of[p])'
        BY <2>3 DEF Settled, Due
    <2>5. \A b \in Assessment \ {Of[p]} : finding'[b] = finding[b] /\ step'[b] = step[b]
        BY <1>3, <1>a, <2>1
           DEF ApproveStep, LoadSuspected, WriteVerdict, _apply_known_false_positives,
               LoadScore, PersistResult, _persist_finding, TypeOK, rowVars
    <2>6. \A b \in Assessment \ {Of[p]} : Settled(b)' => Settled(b)
        <3>1. \A q \in Pass : q # p => pc'[q] = pc[q]
            BY <1>a, <2>2 DEF TypeOK
        <3> QED
            BY <3>1 DEF Settled, Due, Active
    <2> QED
        BY <1>a, <2>1, <2>2, <2>4, <2>5, <2>6, OthersGraded
<1>4. ASSUME NEW p \in Run, PersistResult(p) PROVE Graded'
    <2>1. p \in Pass /\ Of[p] \in Assessment
        BY <1>a DEF FindingsAssumption
    <2>2. todo[p] # {} /\ UNCHANGED <<pc, tasks, risk, stale>>
        BY <1>4 DEF PersistResult, world
    <2>3. risk[Of[p]] = NoRisk
        BY <1>a, <2>2 DEF RunsFirst
    <2>4. \A b \in Assessment \ {Of[p]} : finding'[b] = finding[b] /\ step'[b] = step[b]
        BY <1>4, <1>a, <2>1 DEF PersistResult, _persist_finding, TypeOK
    <2>5. \A b \in Assessment : Settled(b)' = Settled(b)
        BY <2>2 DEF Settled, Due, Active
    <2> QED
        BY <1>a, <2>1, <2>2, <2>3, <2>4, <2>5, OthersGraded
<1>5. ASSUME NEW p \in Pass, StoreScore(p) PROVE Graded'
    <2>1. Of[p] \in Assessment /\ pc[p] = "saving" /\ pc' = [pc EXCEPT ![p] = "done"]
        BY <1>5, <1>b DEF StoreScore, GoTo
    <2>2. /\ risk' = IF scored[p].risk = scored[p].seen THEN risk
                     ELSE [risk EXCEPT ![Of[p]] = scored[p].risk]
          /\ UNCHANGED <<tasks, finding, step, stale>>
        BY <1>5 DEF StoreScore, world, history
    <2>3. RiskNow(Of[p])' = RiskNow(Of[p])
        BY <2>2, RiskNowKept
    <2>4. DOMAIN risk = Assessment /\ pc \in [Pass -> PassPoint]
        BY <1>a DEF TypeOK
    <2>5. ~stale'[Of[p]] /\ Settled(Of[p])' => risk'[Of[p]] = RiskNow(Of[p])'
        <3> SUFFICES ASSUME Settled(Of[p])' PROVE ~stale'[Of[p]] => risk'[Of[p]] = RiskNow(Of[p])'
            OBVIOUS
        <3>a. \A q \in Pass \ {p} : pc'[q] = pc[q]
            BY <2>1, <2>4
        <3>b. Alone(p)
            BY <3>a DEF Alone, Settled, Due, Active
        <3>1. ~stale[Of[p]] => scored[p].risk = RiskNow(Of[p]) /\ scored[p].seen = risk[Of[p]]
            BY <1>a, <2>1, <3>b DEF Loaded
        <3> QED
            BY <2>1, <2>2, <2>3, <2>4, <3>1
    <2>6. \A b \in Assessment \ {Of[p]} : risk'[b] = risk[b]
        BY <2>2, <2>4
    <2>7. \A b \in Assessment \ {Of[p]} : Settled(b)' => Settled(b)
        <3>1. \A q \in Pass : q # p => pc'[q] = pc[q]
            BY <2>1, <2>4
        <3> QED
            BY <3>1 DEF Settled, Due, Active
    <2> QED
        BY <1>a, <2>1, <2>2, <2>5, <2>6, <2>7, OthersGraded
<1>6. ASSUME NEW some \in SUBSET Pass, Lose(some) PROVE Graded'
    <2>1. UNCHANGED <<tasks, finding, step, risk>>
        BY <1>6 DEF Lose, world, rowVars
    <2>2. stale' = [a \in Assessment |-> stale[a] \/ \E p \in some : Of[p] = a]
        BY <1>6 DEF Lose
    <2>3. \A a \in Assessment : ~stale'[a] => ~stale[a] /\ \A p \in some : Of[p] # a
        BY <2>2
    <2>4. \A p \in Pass \ some : pc'[p] = pc[p]
        BY <1>6 DEF Lose
    <2>5. \A a \in Assessment : ~stale'[a] /\ Settled(a)' => Settled(a)
        BY <2>3, <2>4 DEF Settled, Due, Active
    <2> QED
        BY <1>a, <2>1, <2>3, <2>5, RiskNowKept DEF Graded
<1>7. ASSUME NEW a \in Assessment, NEW k \in Key, NEW s \in {"rejected", "confirmed", "suspected"},
             triage_finding(a, k, s)
      PROVE  Graded'
    <2>1. /\ UNCHANGED <<pc, tasks, step, risk>>
          /\ finding' = [finding EXCEPT ![a][k] = s]
          /\ stale' = [stale EXCEPT ![a] = TRUE]
        BY <1>7 DEF triage_finding, world, passVars
    <2>2. stale'[a] /\ \A b \in Assessment \ {a} : finding'[b] = finding[b] /\ stale'[b] = stale[b]
        BY <2>1, <1>a DEF TypeOK
    <2>3. \A b \in Assessment : Settled(b)' = Settled(b)
        BY <2>1 DEF Settled, Due, Active
    <2> QED
        BY <1>a, <2>1, <2>2, <2>3, OthersGraded
<1>8. ASSUME NEW p \in Pass, DropResults(p) \/ Reprove(p) PROVE Graded'
    BY <1>8, <1>1 DEF DropResults, Reprove, world, rowVars, history
<1>9. Passes => Graded'
    BY <1>2, <1>3, <1>4, <1>5, <1>8 DEF Passes
<1>10. Interrupt => Graded'
    BY <1>6 DEF Interrupt, ActivePasses
<1>11. ASSUME \/ \E a \in Assessment : Cancel(a) \/ generate_regression_tests(a)
              \/ \E k \in Key : upsert_memory(k) \/ delete_memory(k) \/ Deploy(k)
              \/ run_regression_tests
       PROVE  Graded'
    <2>1. UNCHANGED <<pc, tasks, step, finding, risk, stale>>
        BY <1>11 DEF Cancel, generate_regression_tests, upsert_memory, delete_memory, SetMemory,
                     Deploy, run_regression_tests, world, passVars, rowVars, history
    <2> QED
        BY <1>1, <2>1
<1>12. Operators => Graded'
    BY <1>7, <1>11 DEF Operators
<1>13. CASE UNCHANGED vars
    BY <1>1, <1>13 DEF vars, world, passVars, rowVars, history
<1> QED
    BY <1>9, <1>10, <1>12, <1>13 DEF Next

\* What a pass that is not about to read its score may do to the others.
LEMMA PassesApart ==
    ASSUME GradeInv, NEW q \in Pass,
           \/ StartRun(q) \/ ApproveStep(q) \/ PersistResult(q) \/ DropResults(q)
           \/ EndExecute(q) \/ LoadSuspected(q) \/ Reprove(q) \/ WriteVerdict(q)
           \/ _apply_known_false_positives(q) \/ StoreScore(q)
    PROVE  /\ tasks' = tasks /\ stale' = stale
           /\ \A p \in Pass \ {q} : pc'[p] = pc[p] /\ scored'[p] = scored[p]
           /\ \A b \in Assessment \ {Of[q]} :
                  finding'[b] = finding[b] /\ step'[b] = step[b] /\ risk'[b] = risk[b]
           /\ pc'[q] # "saving"
           /\ pc[q] = "saving" \/ risk' = risk
           /\ \/ pc[q] = "saving"
              \/ q \in Run /\ todo[q] # {}
              \/ Due(q)'
              \/ ~Due(q) /\ finding' = finding /\ step' = step
<1>a. TypeOK /\ Stages
    BY DEF GradeInv
<1>b. Of[q] \in Assessment
    BY FindingsAssumption DEF FindingsAssumption
<1> USE <1>a, <1>b DEF TypeOK, Due, Active
<1>1. CASE StartRun(q) \/ ApproveStep(q)
    BY <1>1 DEF StartRun, ApproveStep, GoTo, world, rowVars, history
<1>2. CASE PersistResult(q)
    <2>1. pc[q] = "executing" /\ todo[q] # {} /\ pc' = pc /\ scored' = scored /\ risk' = risk
        BY <1>2 DEF PersistResult
    <2>2. \A b \in Assessment \ {Of[q]} : finding'[b] = finding[b] /\ step'[b] = step[b]
        BY <1>2 DEF PersistResult, _persist_finding
    <2>3. tasks' = tasks /\ stale' = stale
        BY <1>2 DEF PersistResult, world
    <2> QED
        BY <2>1, <2>2, <2>3
<1>3. CASE DropResults(q) \/ EndExecute(q) \/ LoadSuspected(q)
    BY <1>3 DEF DropResults, EndExecute, LoadSuspected, GoTo, world, rowVars, history
<1>4. CASE Reprove(q) \/ WriteVerdict(q)
    BY <1>4 DEF Reprove, WriteVerdict, Stages, world, rowVars, history
<1>5. CASE _apply_known_false_positives(q)
    BY <1>5 DEF _apply_known_false_positives, GoTo, world
<1>6. CASE StoreScore(q)
    BY <1>6 DEF StoreScore, GoTo, world, history
<1> QED
    BY <1>1, <1>2, <1>3, <1>4, <1>5, <1>6

\* What has been read stays read.
LEMMA StillLoaded ==
    ASSUME Loaded, NEW p \in Pass, pc[p] = "saving", ~stale[Of[p]], scored'[p] = scored[p],
           tasks' = tasks, risk'[Of[p]] = risk[Of[p]], Saving(Of[p])' = Saving(Of[p]),
           Alone(p)' => /\ Alone(p)
                        /\ finding'[Of[p]] = finding[Of[p]] /\ step'[Of[p]] = step[Of[p]]
    PROVE  /\ Alone(p)' => scored'[p].risk = RiskNow(Of[p])'
           /\ scored'[p].seen = risk'[Of[p]]
           /\ Saving(Of[p])' = {p}
<1>1. /\ Alone(p) => scored[p].risk = RiskNow(Of[p])
      /\ scored[p].seen = risk[Of[p]]
      /\ Saving(Of[p]) = {p}
    BY DEF Loaded
<1>2. Alone(p)' => RiskNow(Of[p])' = RiskNow(Of[p])
    BY RiskNowKept
<1> QED
    BY <1>1, <1>2

\* Every step keeps what a pass has read current, or records why not.
LEMMA NextLoaded == GradeInv /\ [Next]_vars => Loaded'
<1> SUFFICES ASSUME GradeInv, [Next]_vars PROVE Loaded'
    OBVIOUS
<1>a. TypeOK /\ Loaded /\ RunsFirst
    BY DEF GradeInv
<1>b. Of \in [Pass -> Assessment] /\ \A p, q \in Run : Of[p] = Of[q] => p = q
    BY FindingsAssumption DEF FindingsAssumption
<1> DEFINE Good(p) == /\ Alone(p) => scored[p].risk = RiskNow(Of[p])
                      /\ scored[p].seen = risk[Of[p]]
                      /\ Saving(Of[p]) = {p}
<1>1. CASE UNCHANGED <<pc, scored, tasks, finding, step, risk, stale>>
    <2> SUFFICES ASSUME NEW p \in Pass, pc'[p] = "saving", ~stale'[Of[p]] PROVE Good(p)'
        BY DEF Loaded
    <2>1. (Alone(p)' => Alone(p)) /\ Saving(Of[p])' = Saving(Of[p])
        BY <1>1 DEF Alone, Due, Active, Saving
    <2> QED
        BY <1>1, <1>a, <2>1, StillLoaded
<1>2. ASSUME NEW q \in Pass,
             \/ StartRun(q) \/ ApproveStep(q) \/ PersistResult(q) \/ DropResults(q)
             \/ EndExecute(q) \/ LoadSuspected(q) \/ Reprove(q) \/ WriteVerdict(q)
             \/ _apply_known_false_positives(q) \/ StoreScore(q)
      PROVE  Loaded'
    <2>1. /\ tasks' = tasks /\ stale' = stale
          /\ \A p \in Pass \ {q} : pc'[p] = pc[p] /\ scored'[p] = scored[p]
          /\ \A b \in Assessment \ {Of[q]} :
                 finding'[b] = finding[b] /\ step'[b] = step[b] /\ risk'[b] = risk[b]
          /\ pc'[q] # "saving"
          /\ pc[q] = "saving" \/ risk' = risk
          /\ \/ pc[q] = "saving"
             \/ q \in Run /\ todo[q] # {}
             \/ Due(q)'
             \/ ~Due(q) /\ finding' = finding /\ step' = step
        BY <1>2, PassesApart
    <2> SUFFICES ASSUME NEW p \in Pass, pc'[p] = "saving", ~stale'[Of[p]] PROVE Good(p)'
        BY DEF Loaded
    <2>2. p # q /\ pc[p] = "saving" /\ ~stale[Of[p]] /\ Of[p] \in Assessment
        BY <2>1, <1>b
    <2>3. Saving(Of[p]) = {p}
        BY <1>a, <2>2 DEF Loaded
    <2>4. ~(Of[q] = Of[p] /\ pc[q] = "saving")
        BY <2>2, <2>3 DEF Saving
    <2>5. ~(Of[q] = Of[p] /\ q \in Run /\ todo[q] # {})
        BY <1>a, <1>b, <2>2 DEF RunsFirst
    <2>6. Saving(Of[p])' = Saving(Of[p])
        BY <2>1, <2>4 DEF Saving
    <2>7. risk'[Of[p]] = risk[Of[p]]
        BY <2>1, <2>2, <2>4
    <2>8. \A r \in Pass \ {q} : Due(r)' = Due(r)
        BY <2>1 DEF Due, Active
    <2>9. ASSUME Alone(p)'
          PROVE  Alone(p) /\ finding'[Of[p]] = finding[Of[p]] /\ step'[Of[p]] = step[Of[p]]
        <3>1. CASE Of[q] = Of[p]
            <4>1. ~Due(q)'
                BY <2>2, <2>9, <3>1 DEF Alone
            <4>2. ~Due(q) /\ finding' = finding /\ step' = step
                BY <2>1, <2>4, <2>5, <3>1, <4>1
            <4> QED
                BY <2>8, <2>9, <4>2 DEF Alone
        <3>2. CASE Of[q] # Of[p]
            BY <2>1, <2>2, <2>8, <2>9, <3>2 DEF Alone
        <3> QED
            BY <3>1, <3>2
    <2> QED
        BY <1>a, <2>1, <2>2, <2>6, <2>7, <2>9, StillLoaded
<1>3. ASSUME NEW q \in Pass, LoadScore(q) PROVE Loaded'
    <2>1. /\ UNCHANGED <<tasks, finding, step, risk>>
          /\ pc[q] = "scoring" /\ pc' = [pc EXCEPT ![q] = "saving"]
          /\ stale' = [stale EXCEPT ![Of[q]] = Saving(Of[q]) # {}]
          /\ \A p \in Pass \ {q} : scored'[p] = scored[p]
          /\ scored'[q].risk = RiskNow(Of[q]) /\ scored'[q].seen = risk[Of[q]]
        BY <1>3, <1>a DEF LoadScore, GoTo, world, rowVars, TypeOK
    <2>2. pc \in [Pass -> PassPoint] /\ stale \in [Assessment -> BOOLEAN]
        BY <1>a DEF TypeOK
    <2>3. \A p \in Pass : Due(p)' = Due(p)
        BY <2>1, <2>2 DEF Due, Active
    <2> SUFFICES ASSUME NEW p \in Pass, pc'[p] = "saving", ~stale'[Of[p]] PROVE Good(p)'
        BY DEF Loaded
    <2>5. CASE p = q
        <3>1. Saving(Of[q]) = {}
            BY <2>1, <2>2, <2>5, <1>b
        <3>2. RiskNow(Of[q])' = RiskNow(Of[q])
            BY <2>1, RiskNowKept
        <3>3. Saving(Of[q])' = {q}
            BY <2>1, <2>2, <3>1 DEF Saving
        <3> QED
            BY <2>1, <2>5, <3>2, <3>3
    <2>6. CASE p # q
        <3>1. pc[p] = "saving"
            BY <2>1, <2>2, <2>6
        <3>2. Of[p] # Of[q]
            BY <2>1, <2>2, <2>6, <3>1, <1>b DEF Saving
        <3>3. ~stale[Of[p]]
            BY <2>1, <2>2, <3>2, <1>b
        <3>4. Saving(Of[p])' = Saving(Of[p])
            BY <2>1, <2>2, <3>2 DEF Saving
        <3>5. Alone(p)' => Alone(p)
            BY <2>3 DEF Alone
        <3> QED
            BY <1>a, <2>1, <2>6, <3>1, <3>3, <3>4, <3>5, StillLoaded
    <2> QED
        BY <2>5, <2>6
<1>4. ASSUME NEW some \in SUBSET Pass, Lose(some) PROVE Loaded'
    <2>1. /\ UNCHANGED <<tasks, finding, step, risk>>
          /\ \A p \in Pass \ some : pc'[p] = pc[p] /\ scored'[p] = scored[p]
          /\ \A p \in some : pc'[p] \in {"failed", "lost"}
          /\ stale' = [a \in Assessment |-> stale[a] \/ \E p \in some : Of[p] = a]
        BY <1>4 DEF Lose, world, rowVars
    <2> SUFFICES ASSUME NEW p \in Pass, pc'[p] = "saving", ~stale'[Of[p]] PROVE Good(p)'
        BY DEF Loaded
    <2>2. p \notin some /\ pc[p] = "saving" /\ ~stale[Of[p]] /\ \A q \in some : Of[q] # Of[p]
        BY <2>1, <1>b
    <2>3. \A q \in Pass : Of[q] = Of[p] => pc'[q] = pc[q]
        BY <2>1, <2>2
    <2>4. (Alone(p)' => Alone(p)) /\ Saving(Of[p])' = Saving(Of[p])
        BY <2>3 DEF Alone, Due, Active, Saving
    <2> QED
        BY <1>a, <2>1, <2>2, <2>4, StillLoaded
<1>5. ASSUME NEW a \in Assessment, NEW k \in Key, NEW s \in {"rejected", "confirmed", "suspected"},
             triage_finding(a, k, s)
      PROVE  Loaded'
    <2>1. /\ UNCHANGED <<pc, scored, tasks, step, risk>>
          /\ finding' = [finding EXCEPT ![a][k] = s]
          /\ stale' = [stale EXCEPT ![a] = TRUE]
        BY <1>5 DEF triage_finding, world, passVars
    <2>2. stale'[a] /\ \A b \in Assessment \ {a} : finding'[b] = finding[b] /\ stale'[b] = stale[b]
        BY <2>1, <1>a DEF TypeOK
    <2> SUFFICES ASSUME NEW p \in Pass, pc'[p] = "saving", ~stale'[Of[p]] PROVE Good(p)'
        BY DEF Loaded
    <2>3. Of[p] # a /\ Of[p] \in Assessment
        BY <2>2, <1>b
    <2>4. (Alone(p)' => Alone(p)) /\ Saving(Of[p])' = Saving(Of[p])
        BY <2>1 DEF Alone, Due, Active, Saving
    <2> QED
        BY <1>a, <2>1, <2>2, <2>3, <2>4, StillLoaded
<1>6. Passes => Loaded'
    BY <1>2, <1>3 DEF Passes
<1>7. Interrupt => Loaded'
    BY <1>4 DEF Interrupt, ActivePasses
<1>8. ASSUME \/ \E a \in Assessment : Cancel(a) \/ generate_regression_tests(a)
             \/ \E k \in Key : upsert_memory(k) \/ delete_memory(k) \/ Deploy(k)
             \/ run_regression_tests
      PROVE  UNCHANGED <<pc, scored, tasks, finding, step, risk, stale>>
    BY <1>8 DEF Cancel, generate_regression_tests, upsert_memory, delete_memory, SetMemory,
                Deploy, run_regression_tests, world, passVars, rowVars, history
<1>9. Operators => Loaded'
    BY <1>1, <1>5, <1>8 DEF Operators
<1>10. CASE UNCHANGED vars
    BY <1>1, <1>10 DEF vars, world, passVars, rowVars, history
<1> QED
    BY <1>6, <1>7, <1>9, <1>10 DEF Next

\* When the passes of an assessment are over its grade is that of its findings,
\* for any number of passes in any order, if no two read before either wrote.
THEOREM GradeIsCurrent == Spec => []GradeMatchesFindings
<1>1. GradeInv /\ [Next]_vars => GradeInv'
    BY NextType, NextStages, NextLoaded, NextGraded DEF GradeInv
<1>2. GradeInv => GradeMatchesFindings
    BY DEF GradeInv, Graded, Settled, Due, GradeMatchesFindings
<1> QED
    BY <1>1, <1>2, InitGrade, PTL DEF Spec

(***************************************************************************)
(* Coverage, the other way round.  What the coverage calls untested may be   *)
(* done later by a late task alone: a run has executed all it ever will      *)
(* before anybody of its assessment reads what to score.                     *)
(***************************************************************************)
LateStep(a, k) == \E p \in tasks \ Run : Of[p] = a /\ k \in Work[p]

Started == \A p \in Pass : pc[p] # "idle" => p \in tasks

\* There is no coverage while a run has steps to report.
CoverageLast ==
    \A r \in Run : pc[r] = "idle" \/ todo[r] # {} => \A k \in Key : coverage[Of[r]][k] = {}

\* What a pass has not read as tested is done by a late task, if at all.
Unread ==
    \A p \in Pass, k \in Key :
        /\ pc[p] = "saving"
        /\ k \in StepsOf(Of[p]) \ scored[p].tested
        /\ step[Of[p]][k] = "done"
        => LateStep(Of[p], k)

Untested ==
    \A a \in Assessment, k \in Key :
        "untested" \in coverage[a][k] /\ step[a][k] = "done" => LateStep(a, k)

UntestedInv == Started /\ CoverageLast /\ Unread /\ Untested

\* Initially nothing is untested either.
LEMMA InitUntested == Init => UntestedInv
<1> SUFFICES ASSUME Init PROVE UntestedInv
    OBVIOUS
<1>1. /\ \A p \in Pass : pc[p] = "idle"
      /\ \A a \in Assessment, k \in Key : coverage[a][k] = {}
    BY DEF Init
<1> QED
    BY <1>1, FindingsAssumption
       DEF UntestedInv, Started, CoverageLast, Unread, Untested, FindingsAssumption

\* A step that executes, scores and covers nothing new.
LEMMA UntestedKept ==
    ASSUME UntestedInv, tasks' = tasks, coverage' = coverage,
           \A a \in Assessment, k \in Key : step'[a][k] = "done" => step[a][k] = "done",
           \A r \in Run : pc'[r] = "idle" \/ todo'[r] # {} => pc[r] = "idle" \/ todo[r] # {},
           \A p \in Pass : pc'[p] # "idle" => p \in tasks,
           \A p \in Pass : pc'[p] = "saving" => pc[p] = "saving" /\ scored'[p] = scored[p]
    PROVE  UntestedInv'
<1>a. Of \in [Pass -> Assessment]
    BY FindingsAssumption DEF FindingsAssumption
<1>1. \A a, k : LateStep(a, k)' = LateStep(a, k)
    BY DEF LateStep
<1>2. \A a : StepsOf(a)' = StepsOf(a)
    BY DEF StepsOf
<1>3. Started' /\ CoverageLast' /\ Untested'
    BY <1>1 DEF UntestedInv, Started, CoverageLast, Untested
<1>4. Unread'
    BY <1>a, <1>1, <1>2 DEF UntestedInv, Unread
<1> QED
    BY <1>3, <1>4 DEF UntestedInv

\* Every step of the system keeps the coverage of the runs final.
LEMMA NextUntested == GradeInv /\ CoverageInv /\ UntestedInv /\ [Next]_vars => UntestedInv'
<1> SUFFICES ASSUME GradeInv, CoverageInv, UntestedInv, [Next]_vars PROVE UntestedInv'
    OBVIOUS
<1>a. TypeOK /\ RunsFirst /\ Stages /\ Pending
    BY DEF GradeInv, CoverageInv
<1>b. /\ Run \subseteq Pass /\ Of \in [Pass -> Assessment] /\ Work \in [Pass -> SUBSET Key]
      /\ \A p, q \in Run : Of[p] = Of[q] => p = q
    BY FindingsAssumption DEF FindingsAssumption
<1>c. Started /\ CoverageLast /\ Unread /\ Untested
    BY DEF UntestedInv
<1>d. /\ pc \in [Pass -> PassPoint] /\ todo \in [Pass -> SUBSET Key]
      /\ step \in [Assessment -> [Key -> StepStatus]]
      /\ coverage \in [Assessment -> [Key -> SUBSET {"tested", "untested"}]]
    BY <1>a DEF TypeOK
<1>1. CASE UNCHANGED <<tasks, pc, todo, scored, step, coverage>>
    BY <1>1, <1>c, UntestedKept DEF Started
<1>2. ASSUME NEW p \in Pass, StartRun(p) PROVE UntestedInv'
    <2>1. /\ p \in tasks /\ pc[p] \in {"idle", "failed"}
          /\ pc' = [pc EXCEPT ![p] = "executing"]
          /\ todo' = [todo EXCEPT ![p] = IF pc[p] = "idle" THEN Work[p] ELSE {}]
          /\ UNCHANGED <<tasks, scored, step, coverage>>
        BY <1>2 DEF StartRun, GoTo, world, rowVars
    <2> QED
        BY <1>b, <1>c, <1>d, <2>1, UntestedKept DEF Started
<1>3. ASSUME NEW p \in Pass, ApproveStep(p) PROVE UntestedInv'
    <2>1. /\ p \in tasks \ Run
          /\ pc' = [pc EXCEPT ![p] = "executing"]
          /\ todo' = [todo EXCEPT ![p] = Work[p]]
          /\ UNCHANGED <<tasks, scored, coverage>>
        BY <1>3 DEF ApproveStep, GoTo, world
    <2>2. step' = [step EXCEPT ![Of[p]] = [k \in Key |-> IF k \in Work[p] THEN "approved" ELSE @[k]]]
        BY <1>3 DEF ApproveStep
    <2>3. \A a \in Assessment, k \in Key : step'[a][k] = "done" => step[a][k] = "done"
        BY <1>d, <2>2
    <2> QED
        BY <1>b, <1>c, <1>d, <2>1, <2>3, UntestedKept DEF Started
<1>4. ASSUME NEW p \in Pass, PersistResult(p) PROVE UntestedInv'
    <2>1. PICK k \in todo[p] :
              /\ todo' = todo \/ todo' = [todo EXCEPT ![p] = @ \ {k}]
              /\ \A a \in Assessment, j \in Key :
                     step'[a][j] = "done" => step[a][j] = "done" \/ (a = Of[p] /\ j = k)
        <3>1. PICK k \in todo[p], e \in {"errored", "done"} :
                  /\ todo' = todo \/ todo' = [todo EXCEPT ![p] = @ \ {k}]
                  /\ step' = [step EXCEPT ![Of[p]][k] = e]
            BY <1>4 DEF PersistResult
        <3> QED
            BY <1>d, <3>1
    <2>2. pc[p] = "executing" /\ UNCHANGED <<tasks, pc, scored, coverage>>
        BY <1>4 DEF PersistResult, world
    <2>3. k \in Key /\ k \in Work[p] /\ Of[p] \in Assessment /\ p \in tasks
        BY <1>a, <1>b, <1>c, <1>d, <2>2 DEF Pending, Started
    <2>4. \A a, j : LateStep(a, j)' = LateStep(a, j)
        BY <2>2 DEF LateStep
    <2>5. Started' /\ CoverageLast'
        BY <1>b, <1>c, <1>d, <2>1, <2>2 DEF Started, CoverageLast
    <2>6. \/ LateStep(Of[p], k)
          \/ /\ \A j \in Key : coverage[Of[p]][j] = {}
             /\ \A q \in Pass : Of[q] = Of[p] => pc[q] # "saving"
        <3>1. CASE p \in Run
            <4>1. \A j \in Key : coverage[Of[p]][j] = {}
                BY <1>c, <3>1 DEF CoverageLast
            <4>2. ASSUME NEW q \in Pass, Of[q] = Of[p], pc[q] = "saving" PROVE FALSE
                BY <1>a, <1>b, <2>2, <3>1, <4>2 DEF RunsFirst
            <4> QED
                BY <4>1, <4>2
        <3>2. CASE p \notin Run
            BY <2>3, <3>2 DEF LateStep
        <3> QED
            BY <3>1, <3>2
    <2>7. Untested'
        BY <1>c, <2>1, <2>2, <2>3, <2>4, <2>6 DEF Untested
    <2>8. \A a : StepsOf(a)' = StepsOf(a)
        BY <2>2 DEF StepsOf
    <2>9. Unread'
        BY <1>b, <1>c, <2>1, <2>2, <2>3, <2>4, <2>6, <2>8 DEF Unread
    <2> QED
        BY <2>5, <2>7, <2>9 DEF UntestedInv
<1>5. ASSUME NEW p \in Pass, \/ DropResults(p) \/ EndExecute(p) \/ LoadSuspected(p)
                             \/ _apply_known_false_positives(p)
      PROVE  UntestedInv'
    <2>1. /\ pc[p] # "idle"
          /\ pc' = pc \/ \E point \in {"done", "validating", "scoring"} : pc' = [pc EXCEPT ![p] = point]
          /\ todo' = todo \/ todo' = [todo EXCEPT ![p] = {}]
          /\ UNCHANGED <<tasks, scored, step, coverage>>
        BY <1>5 DEF DropResults, EndExecute, LoadSuspected, _apply_known_false_positives, GoTo,
                    world, rowVars
    <2>2. \A q \in Pass : pc'[q] = pc[q] \/ (q = p /\ pc'[q] \in {"done", "validating", "scoring"})
        BY <1>d, <2>1
    <2>3. \A q \in Pass : todo'[q] \subseteq todo[q]
        BY <1>d, <2>1
    <2> QED
        BY <1>b, <1>c, <2>1, <2>2, <2>3, UntestedKept DEF Started
<1>6. ASSUME NEW p \in Pass, LoadScore(p) PROVE UntestedInv'
    <2>1. /\ pc[p] = "scoring" /\ pc' = [pc EXCEPT ![p] = "saving"]
          /\ UNCHANGED <<tasks, todo, step, coverage>>
          /\ \A q \in Pass \ {p} : scored'[q] = scored[q]
          /\ scored'[p].tested = Tested(Of[p])
        BY <1>6, <1>a DEF LoadScore, GoTo, world, rowVars, TypeOK
    <2>2. \A a : StepsOf(a)' = StepsOf(a)
        BY <2>1 DEF StepsOf
    <2>3. \A a, j : LateStep(a, j)' = LateStep(a, j)
        BY <2>1 DEF LateStep
    <2>4. Started' /\ CoverageLast' /\ Untested'
        BY <1>b, <1>c, <1>d, <2>1, <2>3 DEF Started, CoverageLast, Untested
    <2>5. ASSUME NEW q \in Pass, NEW k \in Key, pc'[q] = "saving",
                 k \in StepsOf(Of[q]) \ scored'[q].tested, step[Of[q]][k] = "done"
          PROVE  LateStep(Of[q], k)
        <3>1. CASE q = p
            BY <2>1, <2>5, <3>1 DEF Tested
        <3>2. CASE q # p
            BY <1>c, <1>d, <2>1, <2>5, <3>2 DEF Unread
        <3> QED
            BY <3>1, <3>2
    <2>6. Unread'
        BY <2>1, <2>2, <2>3, <2>5 DEF Unread
    <2> QED
        BY <2>4, <2>6 DEF UntestedInv
<1>7. ASSUME NEW p \in Pass, StoreScore(p) PROVE UntestedInv'
    <2>1. /\ pc[p] = "saving" /\ pc' = [pc EXCEPT ![p] = "done"]
          /\ UNCHANGED <<tasks, todo, step>>
          /\ \A q \in Pass \ {p} : scored'[q] = scored[q]
        BY <1>7, <1>a DEF StoreScore, GoTo, world, TypeOK
    <2>2. \A a \in Assessment, k \in Key :
              /\ a # Of[p] => coverage'[a][k] = coverage[a][k]
              /\ "untested" \in coverage'[a][k] =>
                     \/ "untested" \in coverage[a][k]
                     \/ a = Of[p] /\ k \in StepsOf(a) \ scored[p].tested
        <3>1. \/ coverage' = coverage
              \/ coverage' = [coverage EXCEPT ![Of[p]] =
                     [k \in Key |-> @[k] \cup CoverageRow(Of[p], k, scored[p].tested)]]
            BY <1>7 DEF StoreScore
        <3> QED
            BY <1>d, <3>1 DEF CoverageRow
    <2>3. \A a : StepsOf(a)' = StepsOf(a)
        BY <2>1 DEF StepsOf
    <2>4. \A a, j : LateStep(a, j)' = LateStep(a, j)
        BY <2>1 DEF LateStep
    <2>5. \A q \in Pass : pc'[q] = pc[q] \/ (q = p /\ pc'[q] = "done")
        BY <1>d, <2>1
    <2>6. Started' /\ Unread'
        <3>1. Started'
            BY <1>c, <2>1, <2>5 DEF Started
        <3>2. ASSUME NEW q \in Pass, NEW k \in Key, pc'[q] = "saving",
                     k \in StepsOf(Of[q]) \ scored'[q].tested, step[Of[q]][k] = "done"
              PROVE  LateStep(Of[q], k)
            <4>1. q # p /\ pc[q] = "saving"
                BY <1>d, <2>1, <3>2
            <4> QED
                BY <1>c, <2>1, <3>2, <4>1 DEF Unread
        <3>3. Unread'
            BY <2>1, <2>3, <2>4, <3>2 DEF Unread
        <3> QED
            BY <3>1, <3>3
    <2>7. Untested'
        BY <1>b, <1>c, <2>1, <2>2, <2>4 DEF Untested, Unread
    <2>8. \A r \in Run : Of[r] = Of[p] => pc[r] # "idle" /\ todo[r] = {}
        <3>1. todo[p] = {}
            BY <1>a, <2>1 DEF Stages
        <3>2. CASE p \in Run
            BY <1>b, <2>1, <3>1, <3>2
        <3>3. CASE p \notin Run
            BY <1>a, <2>1, <3>3 DEF RunsFirst
        <3> QED
            BY <3>2, <3>3
    <2>9. CoverageLast'
        BY <1>b, <1>c, <2>1, <2>2, <2>5, <2>8 DEF CoverageLast
    <2> QED
        BY <2>6, <2>7, <2>9 DEF UntestedInv
<1>8. ASSUME NEW some \in SUBSET Pass, Lose(some), \A p \in some : Active(p) PROVE UntestedInv'
    <2>1. /\ \A p \in Pass : pc'[p] = pc[p] \/ (p \in some /\ pc'[p] \in {"failed", "lost"})
          /\ \A p \in Pass : todo'[p] \subseteq todo[p]
          /\ \A p \in Pass \ some : scored'[p] = scored[p]
          /\ \A p \in some : pc'[p] \in {"failed", "lost"}
          /\ UNCHANGED <<tasks, step, coverage>>
        BY <1>8, <1>d DEF Lose, world, rowVars
    <2>2. \A p \in some : pc[p] # "idle"
        BY <1>8 DEF Active
    <2> QED
        BY <1>b, <1>c, <2>1, <2>2, UntestedKept DEF Started
<1>9. ASSUME NEW p \in Pass, Reprove(p) \/ WriteVerdict(p)
      PROVE  UNCHANGED <<tasks, pc, todo, scored, step, coverage>>
    BY <1>9 DEF Reprove, WriteVerdict, rowVars, world
<1>10. Passes => UntestedInv'
    BY <1>1, <1>2, <1>3, <1>4, <1>5, <1>6, <1>7, <1>9 DEF Passes
<1>11. Interrupt => UntestedInv'
    BY <1>8 DEF Interrupt, ActivePasses
<1>12. Operators => UNCHANGED <<tasks, pc, todo, scored, step, coverage>>
    BY DEF Operators, Cancel, generate_regression_tests, triage_finding, upsert_memory,
           delete_memory, SetMemory, Deploy, run_regression_tests, passVars, rowVars, world
<1>13. CASE UNCHANGED vars
    BY <1>1, <1>13 DEF vars, world, passVars, rowVars
<1> QED
    BY <1>1, <1>10, <1>11, <1>12, <1>13 DEF Next

\* What the coverage calls tested has been done, and what it calls untested has
\* not unless a late task did it, for any number of passes beside and after the
\* one that wrote the coverage.
THEOREM CoverageIsHonest == Spec => []CoverageHonest
<1>1. GradeInv /\ [Next]_vars => GradeInv'
    BY NextType, NextStages, NextLoaded, NextGraded DEF GradeInv
<1>2. CoverageInv /\ UntestedInv => CoverageHonest
    BY DEF CoverageInv, TestedDone, UntestedInv, Untested, LateStep, CoverageHonest
<1> QED
    BY <1>1, <1>2, InitGrade, InitCoverage, NextCoverage, InitUntested, NextUntested, PTL DEF Spec

(***************************************************************************)
(* Refutations.  A finding whose target has not changed since is on a face  *)
(* that its check would report again.                                       *)
(***************************************************************************)
FacesSound ==
    \A k \in Key : \A f \in faces[k] :
        f.own /\ f.probe = "finding"
        => f.verdict # "rejected" /\ (f.regress = "fixed" => f.verdict = "suspected")

FoundHere ==
    \A a \in Assessment, k \in Key :
        finding[a][k] # "none" /\ k \notin changed[a] => face[k].probe = "finding"

\* What is validated and what is tested has been found.
HandledExists ==
    /\ \A p \in Pass, k \in Key :
           k \in loaded[p] \/ (\E v \in Verdict : verdict[p] = <<k, v>>)
           => finding[Of[p]][k] # "none"
    /\ \A k \in Key : tests[k] # {} => \E a \in Assessment : finding[a][k] # "none"

EvidenceInv == TypeOK /\ FacesSound /\ FoundHere /\ HandledExists

\* Initially there are no findings to refute.
LEMMA InitEvidence == Init => EvidenceInv
<1> SUFFICES ASSUME Init PROVE EvidenceInv
    OBVIOUS
<1>1. TypeOK
    BY InitType
<1>2. \A a \in Assessment, k \in Key : finding[a][k] = "none"
    BY DEF Init
<1>3. /\ \A p \in Pass : loaded[p] = {} /\ verdict[p] = NoVerdict
      /\ \A k \in Key : tests[k] = {}
    BY DEF Init
<1>4. \A k, v : <<k, v>> # NoVerdict
    BY DEF NoVerdict
<1>5. FacesSound
    <2>1. PICK s \in Scenarios :
              \E cast \in {c \in [Key -> UNION Range(s.casts)] : \A k \in Key : c[k] \in s.casts[k]} :
                  faces = [k \in Key |-> FacesOf(cast[k])]
        BY DEF Init
    <2>2. PICK cast \in {c \in [Key -> UNION Range(s.casts)] : \A k \in Key : c[k] \in s.casts[k]} :
              faces = [k \in Key |-> FacesOf(cast[k])]
        BY <2>1
    <2> SUFFICES ASSUME NEW k \in Key, NEW f \in faces[k], f.own, f.probe = "finding"
                 PROVE  f.verdict # "rejected" /\ (f.regress = "fixed" => f.verdict = "suspected")
        BY DEF FacesSound
    <2>3. cast[k].kind \in Kind
        BY <2>1, FindingsAssumption DEF FindingsAssumption
    <2>4. PICK t \in cast[k].targets : f = FaceOf(cast[k].kind, t)
        BY <2>2 DEF FacesOf
    <2> QED
        BY <2>3, <2>4, FoundIsNotRefuted DEF FaceOf
<1> QED
    BY <1>1, <1>2, <1>3, <1>4, <1>5 DEF EvidenceInv, FoundHere, HandledExists

\* A step that makes no finding and validates no more than before.
LEMMA EvidenceKept ==
    ASSUME FacesSound, FoundHere, HandledExists,
           UNCHANGED <<faces, face, changed>>,
           \A a \in Assessment, k \in Key : finding[a][k] # "none" <=> finding'[a][k] # "none",
           \A q \in Pass : loaded'[q] \subseteq loaded[q] /\ verdict'[q] \in {verdict[q], NoVerdict},
           \A k \in Key : tests'[k] # {}
                          => tests[k] # {} \/ \E a \in Assessment : finding[a][k] # "none"
    PROVE  FacesSound' /\ FoundHere' /\ HandledExists'
<1>1. \A j, w : <<j, w>> # NoVerdict
    BY DEF NoVerdict
<1>2. FacesSound' /\ FoundHere'
    BY DEF FacesSound, FoundHere
<1>3. ASSUME NEW q \in Pass, NEW k \in Key, \/ k \in loaded'[q]
                                            \/ \E v \in Verdict : verdict'[q] = <<k, v>>
      PROVE  finding'[Of[q]][k] # "none"
    <2>1. Of[q] \in Assessment
        BY FindingsAssumption DEF FindingsAssumption
    <2>2. k \in loaded[q] \/ \E v \in Verdict : verdict[q] = <<k, v>>
        BY <1>1, <1>3
    <2> QED
        BY <2>1, <2>2 DEF HandledExists
<1>4. ASSUME NEW k \in Key, tests'[k] # {} PROVE \E a \in Assessment : finding'[a][k] # "none"
    BY <1>4 DEF HandledExists
<1> QED
    BY <1>2, <1>3, <1>4 DEF HandledExists

\* Every step keeps the evidence of a finding, or records that the target changed.
LEMMA NextEvidence == EvidenceInv /\ [Next]_vars => EvidenceInv'
<1> SUFFICES ASSUME EvidenceInv, [Next]_vars PROVE EvidenceInv'
    OBVIOUS
<1>0. TypeOK /\ TypeOK'
    BY NextType DEF EvidenceInv
<1> DEFINE Kept == FacesSound' /\ FoundHere' /\ HandledExists'
<1> SUFFICES Kept
    BY <1>0 DEF EvidenceInv
<1>a. FindingsAssumption /\ FacesSound /\ FoundHere /\ HandledExists
    BY FindingsAssumption DEF EvidenceInv
<1> USE <1>0, <1>a DEF FindingsAssumption, FacesSound, FoundHere, HandledExists, TypeOK
<1>1. CASE UNCHANGED <<faces, face, loaded, verdict, finding, tests, changed>>
    BY <1>1
<1>2. ASSUME NEW p \in Pass, PersistResult(p) PROVE Kept
    <2>1. PICK k \in todo[p] : \E report \in Reports(face[k]) : _persist_finding(Of[p], k, report)
        BY <1>2 DEF PersistResult
    <2>2. PICK report \in Reports(face[k]) : _persist_finding(Of[p], k, report)
        BY <2>1
    <2>3. UNCHANGED <<faces, face, loaded, verdict, tests>>
        BY <1>2 DEF PersistResult, world, projectVars
    <2>4. report = "finding" => face[k].probe = "finding"
        BY DEF Reports
    <2>5. CASE report = "finding" /\ finding[Of[p]][k] = "none"
        <3>1. /\ finding' = [finding EXCEPT ![Of[p]][k] = "suspected"]
              /\ changed' = [changed EXCEPT ![Of[p]] = @ \ {k}]
            BY <2>2, <2>5 DEF _persist_finding
        <3>2. FoundHere'
            BY <2>3, <2>4, <2>5, <3>1
        <3>3. \A a \in Assessment, j \in Key : finding[a][j] # "none" => finding'[a][j] # "none"
            BY <3>1
        <3>4. FacesSound'
            BY <2>3
        <3>5. HandledExists'
            BY <2>3, <3>3
        <3> QED
            BY <3>2, <3>4, <3>5
    <2>6. CASE ~(report = "finding" /\ finding[Of[p]][k] = "none")
        BY <2>2, <2>3, <2>6, <1>1 DEF _persist_finding
    <2> QED
        BY <2>5, <2>6
<1> HIDE <1>0, <1>a DEF FindingsAssumption, FacesSound, FoundHere, HandledExists, TypeOK
<1>b. /\ Of \in [Pass -> Assessment]
      /\ face \in [Key -> Face]
      /\ loaded \in [Pass -> SUBSET Key]
      /\ verdict \in [Pass -> {NoVerdict} \cup (Key \X Verdict)]
      /\ finding \in [Assessment -> [Key -> FindingStatus]]
      /\ changed \in [Assessment -> SUBSET Key]
    BY <1>0, <1>a DEF TypeOK, FindingsAssumption
<1>c. FacesSound /\ FoundHere /\ HandledExists
    BY <1>a
<1>3. ASSUME NEW p \in Pass, LoadSuspected(p) PROVE Kept
    <2>1. /\ loaded' = [loaded EXCEPT ![p] = {k \in Key : finding[Of[p]][k] = "suspected"}]
          /\ UNCHANGED <<faces, face, verdict, finding, tests, changed>>
        BY <1>3 DEF LoadSuspected, world, rowVars, projectVars, history
    <2>2. \A q \in Pass, k \in Key :
              k \in loaded'[q] => k \in loaded[q] \/ finding[Of[q]][k] = "suspected"
        BY <1>b, <2>1
    <2>3. FacesSound' /\ FoundHere'
        BY <1>c, <2>1 DEF FacesSound, FoundHere
    <2>4. HandledExists'
        BY <1>c, <2>1, <2>2 DEF HandledExists
    <2> QED
        BY <2>3, <2>4
<1>4. ASSUME NEW p \in Pass, Reprove(p) PROVE Kept
    <2>1. PICK k \in loaded[p] : \E outcome \in {face[k].verdict, "inconclusive"} :
              /\ verdict' = [verdict EXCEPT ![p] = <<k, outcome>>]
              /\ loaded' = [loaded EXCEPT ![p] = @ \ {k}]
        BY <1>4 DEF Reprove
    <2>2. PICK outcome \in {face[k].verdict, "inconclusive"} :
              /\ verdict' = [verdict EXCEPT ![p] = <<k, outcome>>]
              /\ loaded' = [loaded EXCEPT ![p] = @ \ {k}]
        BY <2>1
    <2>3. UNCHANGED <<faces, face, finding, tests, changed>>
        BY <1>4 DEF Reprove, world, rowVars, projectVars, history
    <2>4. k \in Key /\ finding[Of[p]][k] # "none"
        BY <1>b, <1>c, <2>1 DEF HandledExists
    <2>5. /\ \A q \in Pass : loaded'[q] \subseteq loaded[q]
          /\ \A q \in Pass : q # p => verdict'[q] = verdict[q]
          /\ verdict'[p] = <<k, outcome>>
        BY <1>b, <2>2
    <2>6. ASSUME NEW q \in Pass, NEW j \in Key,
                 j \in loaded'[q] \/ \E v \in Verdict : verdict'[q] = <<j, v>>
          PROVE  finding'[Of[q]][j] # "none"
        BY <1>c, <2>3, <2>4, <2>5, <2>6 DEF HandledExists
    <2>7. FacesSound' /\ FoundHere'
        BY <1>c, <2>3 DEF FacesSound, FoundHere
    <2> QED
        BY <1>c, <2>3, <2>6, <2>7 DEF HandledExists
<1>5. ASSUME NEW p \in Pass, WriteVerdict(p) PROVE Kept
    <2>1. PICK k \in Key : \E v \in Verdict : verdict[p] = <<k, v>>
        BY <1>5, <1>b DEF WriteVerdict
    <2>2. PICK v \in Verdict : verdict[p] = <<k, v>>
        BY <2>1
    <2>3. /\ finding' = [finding EXCEPT ![Of[p]][k] = v]
          /\ verdict' = [verdict EXCEPT ![p] = NoVerdict]
          /\ UNCHANGED <<faces, face, loaded, tests, changed>>
        BY <1>5, <2>2 DEF WriteVerdict, world, projectVars
    <2>4. v # "none" /\ finding[Of[p]][k] # "none"
        BY <1>c, <2>2 DEF Verdict, HandledExists
    <2>5. \A a \in Assessment, j \in Key : finding[a][j] # "none" <=> finding'[a][j] # "none"
        BY <1>b, <2>3, <2>4
    <2>6. \A q \in Pass : verdict'[q] \in {verdict[q], NoVerdict}
        BY <1>b, <2>3
    <2> QED
        BY <1>c, <2>3, <2>5, <2>6, EvidenceKept
<1>6. ASSUME NEW p \in Pass, _apply_known_false_positives(p) PROVE Kept
    <2>1. UNCHANGED <<faces, face, verdict, tests, changed>>
        BY <1>6 DEF _apply_known_false_positives, world, projectVars
    <2>2. \A a \in Assessment, j \in Key : finding[a][j] # "none" <=> finding'[a][j] # "none"
        BY <1>6, <1>b DEF _apply_known_false_positives
    <2>3. \A q \in Pass : loaded'[q] \subseteq loaded[q]
        BY <1>6, <1>b DEF _apply_known_false_positives
    <2> QED
        BY <1>c, <2>1, <2>2, <2>3, EvidenceKept
<1>7. ASSUME NEW some \in SUBSET Pass, Lose(some) PROVE Kept
    <2>1. /\ UNCHANGED <<faces, face, finding, tests, changed>>
          /\ \A q \in Pass : loaded'[q] \subseteq loaded[q] /\ verdict'[q] \in {verdict[q], NoVerdict}
        BY <1>7 DEF Lose, world, rowVars, projectVars
    <2> QED
        BY <1>c, <2>1, EvidenceKept
<1>8. ASSUME NEW a \in Assessment, NEW k \in Key, NEW s \in {"rejected", "confirmed", "suspected"},
             triage_finding(a, k, s)
      PROVE  Kept
    <2>1. UNCHANGED <<faces, face, loaded, verdict, tests, changed>>
        BY <1>8 DEF triage_finding, world, passVars
    <2>2. \A b \in Assessment, j \in Key : finding[b][j] # "none" <=> finding'[b][j] # "none"
        BY <1>8, <1>b DEF triage_finding
    <2> QED
        BY <1>c, <2>1, <2>2, EvidenceKept
<1>9. ASSUME NEW k \in Key, Deploy(k) PROVE Kept
    <2>1. /\ UNCHANGED <<faces, loaded, verdict, finding, tests>>
          /\ \A j \in Key : j # k => face'[j] = face[j]
          /\ \A a \in Assessment : changed'[a] = changed[a] \cup {k}
        BY <1>9, <1>b DEF Deploy, passVars, rowVars, projectVars
    <2> QED
        BY <1>c, <2>1 DEF FacesSound, FoundHere, HandledExists
<1>10. ASSUME NEW a \in Assessment, generate_regression_tests(a) PROVE Kept
    <2>1. /\ UNCHANGED <<faces, face, loaded, verdict, finding, changed>>
          /\ \A k \in Key : tests'[k] # {} => tests[k] # {} \/ finding[a][k] = "confirmed"
        BY <1>10 DEF generate_regression_tests, world, passVars, rowVars, history
    <2> QED
        BY <1>c, <2>1, EvidenceKept
<1>11. ASSUME run_regression_tests PROVE Kept
    <2>1. /\ UNCHANGED <<faces, face, loaded, verdict, finding, changed>>
          /\ \A k \in Key : tests'[k] # {} => tests[k] # {}
        BY <1>11 DEF run_regression_tests, world, passVars, rowVars, history
    <2> QED
        BY <1>c, <2>1, EvidenceKept
<1> HIDE DEF Kept
<1>12. ASSUME NEW p \in Pass, \/ StartRun(p) \/ ApproveStep(p) \/ DropResults(p)
                              \/ EndExecute(p) \/ LoadScore(p) \/ StoreScore(p)
       PROVE  Kept
    <2>1. UNCHANGED <<faces, face, loaded, verdict, finding, tests, changed>>
        BY <1>12 DEF StartRun, ApproveStep, DropResults, EndExecute, LoadScore, StoreScore,
                     world, rowVars, projectVars, history
    <2> QED
        BY <1>1, <2>1
<1>13. ASSUME \/ \E a \in Assessment : Cancel(a)
              \/ \E k \in Key : upsert_memory(k) \/ delete_memory(k)
       PROVE  Kept
    <2>1. UNCHANGED <<faces, face, loaded, verdict, finding, tests, changed>>
        BY <1>13 DEF Cancel, upsert_memory, delete_memory, SetMemory,
                     world, passVars, rowVars, projectVars, history
    <2> QED
        BY <1>1, <2>1
<1>14. Passes => Kept
    BY <1>2, <1>3, <1>4, <1>5, <1>6, <1>12 DEF Passes
<1>15. Interrupt => Kept
    BY <1>7 DEF Interrupt, ActivePasses
<1>16. Operators => Kept
    BY <1>8, <1>9, <1>10, <1>11, <1>13 DEF Operators
<1>17. CASE UNCHANGED vars
    BY <1>1, <1>17 DEF vars, world, passVars, rowVars, projectVars, history
<1> QED
    BY <1>14, <1>15, <1>16, <1>17 DEF Next

\* The validator refutes what a check found only in a target that has changed.
THEOREM RefutationNeedsChange == Spec => RefutedOnlyIfChanged
<1>1. ASSUME EvidenceInv, [Next]_vars, NEW p \in Pass, NEW k \in Key, verdict[p] = NoVerdict,
             verdict'[p] = <<k, "rejected">>, face[k].own
      PROVE  k \in changed[Of[p]]
    <2>1. \A j, w : <<j, w>> # NoVerdict
        BY DEF NoVerdict
    <2>2. TypeOK
        BY <1>1 DEF EvidenceInv
    <2>3. Reprove(p)
        <3>1. ASSUME NEW q \in Pass, Reprove(q) PROVE q = p
            BY <1>1, <2>1, <2>2, <3>1 DEF Reprove, TypeOK
        <3>2. ASSUME NEW q \in Pass, WriteVerdict(q) PROVE FALSE
            BY <1>1, <2>1, <2>2, <3>2 DEF WriteVerdict, TypeOK
        <3>3. ASSUME NEW some \in SUBSET Pass, Lose(some) PROVE FALSE
            BY <1>1, <2>1, <3>3 DEF Lose
        <3>4. CASE UNCHANGED verdict
            BY <1>1, <2>1, <3>4
        <3>5. ASSUME NEW q \in Pass, \/ StartRun(q) \/ ApproveStep(q) \/ PersistResult(q)
                                     \/ DropResults(q) \/ EndExecute(q) \/ LoadSuspected(q)
                                     \/ _apply_known_false_positives(q) \/ LoadScore(q)
                                     \/ StoreScore(q)
              PROVE  UNCHANGED verdict
            BY <3>5 DEF StartRun, ApproveStep, PersistResult, DropResults, EndExecute,
                        LoadSuspected, _apply_known_false_positives, LoadScore, StoreScore
        <3>6. Operators => UNCHANGED verdict
            BY DEF Operators, Cancel, generate_regression_tests, triage_finding, upsert_memory,
                   delete_memory, SetMemory, Deploy, run_regression_tests, passVars
        <3>7. Passes => Reprove(p)
            BY <3>1, <3>2, <3>4, <3>5 DEF Passes
        <3>8. Interrupt => FALSE
            BY <3>3 DEF Interrupt, ActivePasses
        <3>9. CASE UNCHANGED vars
            BY <3>4, <3>9 DEF vars, passVars
        <3> QED
            BY <1>1, <3>4, <3>6, <3>7, <3>8, <3>9 DEF Next
    <2>4. k \in loaded[p] /\ face[k].verdict = "rejected"
        <3>1. PICK j \in loaded[p] : \E outcome \in {face[j].verdict, "inconclusive"} :
                  verdict' = [verdict EXCEPT ![p] = <<j, outcome>>]
            BY <2>3 DEF Reprove
        <3>2. PICK outcome \in {face[j].verdict, "inconclusive"} :
                  verdict' = [verdict EXCEPT ![p] = <<j, outcome>>]
            BY <3>1
        <3>3. <<j, outcome>> = <<k, "rejected">>
            BY <1>1, <2>2, <3>2 DEF TypeOK
        <3> QED
            BY <3>2, <3>3
    <2>5. finding[Of[p]][k] # "none" /\ face[k] \in faces[k] /\ Of[p] \in Assessment
        BY <1>1, <2>2, <2>4, FindingsAssumption
           DEF EvidenceInv, HandledExists, TypeOK, FindingsAssumption
    <2>6. face[k].probe # "finding"
        BY <1>1, <2>4, <2>5 DEF EvidenceInv, FacesSound
    <2> QED
        BY <1>1, <2>5, <2>6 DEF EvidenceInv, FoundHere
<1>2. EvidenceInv /\ [Next]_vars =>
          [\A p \in Pass, k \in Key :
               /\ verdict[p] = NoVerdict
               /\ verdict'[p] = <<k, "rejected">>
               /\ face[k].own
               => k \in changed[Of[p]]]_vars
    BY <1>1
<1> QED
    BY <1>2, InitEvidence, NextEvidence, PTL DEF Spec, RefutedOnlyIfChanged

\* A regression test calls a finding fixed only in a target that has changed,
\* or if the validator leaves it suspected, for any targets and any rulings.
THEOREM FixNeedsChange == Spec => FixedMeansChanged
<1>1. ASSUME EvidenceInv, [Next]_vars, NEW a \in Assessment, NEW k \in Key,
             "fixed" \in tests'[k] \ tests[k], face[k].own,
             finding[a][k] # "none", k \notin changed[a]
      PROVE  face[k].verdict = "suspected"
    <2>1. TypeOK
        BY <1>1 DEF EvidenceInv
    <2>2. run_regression_tests
        <3>1. tests' # tests
            BY <1>1
        <3>2. ASSUME NEW b \in Assessment, generate_regression_tests(b) PROVE FALSE
            BY <1>1, <3>2 DEF generate_regression_tests
        <3>3. Passes => UNCHANGED tests
            <4>1. ASSUME NEW p \in Pass,
                         StartRun(p) \/ ApproveStep(p) \/ DropResults(p) \/ EndExecute(p)
                  PROVE  UNCHANGED tests
                BY <4>1 DEF StartRun, ApproveStep, DropResults, EndExecute, projectVars
            <4>2. ASSUME NEW p \in Pass, PersistResult(p) PROVE UNCHANGED tests
                BY <4>2 DEF PersistResult, projectVars
            <4>3. ASSUME NEW p \in Pass, LoadSuspected(p) \/ Reprove(p) \/ WriteVerdict(p)
                  PROVE  UNCHANGED tests
                BY <4>3 DEF LoadSuspected, Reprove, WriteVerdict, projectVars
            <4>4. ASSUME NEW p \in Pass,
                         _apply_known_false_positives(p) \/ LoadScore(p) \/ StoreScore(p)
                  PROVE  UNCHANGED tests
                BY <4>4 DEF _apply_known_false_positives, LoadScore, StoreScore, projectVars
            <4> QED
                BY <4>1, <4>2, <4>3, <4>4 DEF Passes
        <3>4. Interrupt => UNCHANGED tests
            BY DEF Interrupt, Lose, projectVars
        <3>5. ASSUME \/ \E b \in Assessment : Cancel(b)
                     \/ \E b \in Assessment, j \in Key, s \in {"rejected", "confirmed", "suspected"} :
                            triage_finding(b, j, s)
                     \/ \E j \in Key : upsert_memory(j) \/ delete_memory(j) \/ Deploy(j)
              PROVE  UNCHANGED tests
            BY <3>5 DEF Cancel, triage_finding, upsert_memory, delete_memory, SetMemory, Deploy,
                        projectVars
        <3>6. Operators => run_regression_tests
            BY <3>1, <3>2, <3>5 DEF Operators
        <3>7. CASE UNCHANGED vars
            BY <3>1, <3>7 DEF vars, projectVars
        <3> QED
            BY <1>1, <3>1, <3>3, <3>4, <3>6, <3>7 DEF Next
    <2>3. face[k].regress = "fixed" /\ tests[k] # {}
        BY <1>1, <2>2 DEF run_regression_tests
    <2>4. face[k] \in faces[k]
        BY <2>1 DEF TypeOK
    <2>5. face[k].probe = "finding"
        BY <1>1 DEF EvidenceInv, FoundHere
    <2> QED
        BY <1>1, <2>3, <2>4, <2>5 DEF EvidenceInv, FacesSound
<1>2. EvidenceInv /\ [Next]_vars =>
          [\A a \in Assessment, k \in Key :
               /\ "fixed" \in tests'[k] \ tests[k]
               /\ face[k].own
               /\ finding[a][k] # "none"
               /\ k \notin changed[a]
               => face[k].verdict = "suspected"]_vars
    BY <1>1
<1> QED
    BY <1>2, InitEvidence, NextEvidence, PTL DEF Spec, FixedMeansChanged

=============================================================================
