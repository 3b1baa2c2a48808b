------------------------------ MODULE Findings ------------------------------
(***************************************************************************)
(* The findings of the assessments of one target, from the probe that       *)
(* reports them to the score, the retest and the regression test.           *)
(*                                                                          *)
(* A pass is a task that executes steps, validates what is suspected and    *)
(* scores: the supervised run of an assessment, or the background task for  *)
(* a step that was approved after it (engine.py, execute_approved_steps).   *)
(* Passes of an assessment run side by side, and with them operators who    *)
(* rule on findings, edit the project's memory, deploy another version of   *)
(* the target, retest it, and generate and run regression tests             *)
(* (api/routers/assessments.py, api/routers/memory.py).  Every action is    *)
(* one database transaction, or one attempt at a proof.                     *)
(*                                                                          *)
(* A key stands for a step and for the finding it can lead to, each on an   *)
(* endpoint of its own.  How the target answers what concerns a key is a    *)
(* face: what the check, the validator and the regression test make of it.  *)
(***************************************************************************)
EXTENDS Reproof, Scoring, Functions

CONSTANTS
    Assessment, \* the first and its retests, which have findings of their own
    Key,
    Pass,       \* the tasks
    Run,        \* those of them that are supervised runs
    Of,         \* the assessment of a task
    Work,       \* the steps a task executes
    Scenarios,  \* what is looked at together: the tasks that the operators
                \* come to start, and for each key the kinds that its finding
                \* can be of, with the targets that each is looked for in
    Severity,   \* of the findings
    MaxMemory,  \* bound on the rows of the memory with the same key
    MaxEvents   \* bound on what operators, deployments and failures do

Face == [probe : {"finding", "none", "error"}, verdict : Verdict, regress : TestResult,
         own : BOOLEAN]

FacesOf(cast) == {FaceOf(cast.kind, t) : t \in cast.targets}

ASSUME FindingsAssumption ==
    /\ Run \subseteq Pass
    /\ Of \in [Pass -> Assessment]
    /\ \A p, q \in Run : Of[p] = Of[q] => p = q
    /\ Work \in [Pass -> SUBSET Key]
    /\ \A p, q \in Pass : p # q /\ Of[p] = Of[q] => Work[p] \cap Work[q] = {}
    /\ \A s \in Scenarios :
           /\ s.tasks \subseteq Pass
           /\ \A k \in Key : \A cast \in s.casts[k] :
                  cast.kind \in Kind /\ \A t \in cast.targets : IsTarget(t)
    /\ Severity \in [Key -> DOMAIN SeverityBase]
    /\ MaxMemory \in Nat \ {0}
    /\ MaxEvents \in Nat

VARIABLES
    faces,     \* per key, the faces that its kind of finding can show
    face,      \* per key, the face the target shows now
    tasks,     \* the tasks that come to be started
    pc,        \* per pass, where it stands
    todo,      \* per pass, the steps it still has to report
    loaded,    \* per pass, the findings it has loaded to validate
    verdict,   \* per pass, the outcome it is about to write
    scored,    \* per pass, the score it is about to write
    cancelled, \* per assessment, cancel_requested
    step,      \* per assessment and key, plan_steps.status
    finding,   \* per assessment and key, findings.status
    coverage,  \* per assessment and key, what the coverage rows say
    risk,      \* per assessment, the counts and the grade of summary["risk"]
    memory,    \* per key, the known_fp rows by their kind
    tests,     \* per key, the last_status of its regression tests
    events,    \* how much operators, deployments and failures have done
    said,      \* history: per assessment and key, the ruling that stands
    unscored,  \* history: per pass, findings it wrote a verdict on since a
               \* pass of its assessment last looked into the memory
    changed,   \* history: per assessment, keys whose face may have changed
               \* since the finding was made
    stale      \* history: per assessment, whether an operator ruled or a pass
               \* was lost since a pass last read what it scores, or that pass
               \* read while another had read and not yet written

passVars    == <<pc, todo, loaded, verdict, scored>>
rowVars     == <<step, finding, coverage, risk>>
projectVars == <<memory, tests>>
history     == <<said, unscored, changed, stale>>
world       == <<faces, face, tasks>>
vars == <<world, passVars, cancelled, rowVars, projectVars, events, history>>

PassPoint == {"idle", "executing", "validating", "scoring", "saving", "done", "failed", "lost"}

Active(p) == pc[p] \notin {"idle", "done", "failed", "lost"}

StepsOf(a) == UNION {Work[p] : p \in {q \in Pass : Of[q] = a /\ q \in tasks}}

NoVerdict == <<>>

StepStatus == {"approved", "awaiting_approval", "done", "errored"}

FindingStatus == {"none"} \cup Verdict

TypeOK ==
    /\ \A k \in Key : faces[k] \subseteq Face
    /\ face \in [Key -> Face] /\ \A k \in Key : face[k] \in faces[k]
    /\ tasks \subseteq Pass
    /\ pc \in [Pass -> PassPoint]
    /\ todo \in [Pass -> SUBSET Key]
    /\ loaded \in [Pass -> SUBSET Key]
    /\ verdict \in [Pass -> {NoVerdict} \cup (Key \X Verdict)]
    /\ cancelled \in [Assessment -> BOOLEAN]
    /\ step \in [Assessment -> [Key -> StepStatus]]
    /\ finding \in [Assessment -> [Key -> FindingStatus]]
    /\ coverage \in [Assessment -> [Key -> SUBSET {"tested", "untested"}]]
    /\ DOMAIN scored = Pass
    /\ \A p \in Pass : scored[p].tested \subseteq Key
    /\ DOMAIN risk = Assessment
    /\ memory \in [Key -> [false_positive : 0..MaxMemory, note : 0..1]]
    /\ tests \in [Key -> SUBSET ({"unknown"} \cup TestResult)]
    /\ said \in [Assessment -> [Key -> {"nothing", "rejected", "confirmed", "suspected"}]]
    /\ unscored \in [Pass -> SUBSET Key]
    /\ changed \in [Assessment -> SUBSET Key]
    /\ events \in 0..MaxEvents
    /\ stale \in [Assessment -> BOOLEAN]

NoRisk == [grade |-> "none", tested |-> 0]

NoScore == [seen |-> NoRisk, risk |-> NoRisk, tested |-> {}, first |-> FALSE]

Init ==
    /\ \E s \in Scenarios :
           /\ tasks = s.tasks
           /\ \E cast \in {c \in [Key -> UNION Range(s.casts)] : \A k \in Key : c[k] \in s.casts[k]} :
                  faces = [k \in Key |-> FacesOf(cast[k])]
    /\ face \in {f \in [Key -> UNION Range(faces)] : \A k \in Key : f[k] \in faces[k]}
    /\ pc = [p \in Pass |-> "idle"]
    /\ todo = [p \in Pass |-> {}]
    /\ loaded = [p \in Pass |-> {}]
    /\ verdict = [p \in Pass |-> NoVerdict]
    /\ scored = [p \in Pass |-> NoScore]
    /\ cancelled = [a \in Assessment |-> FALSE]
    /\ step = [a \in Assessment |-> [k \in Key |->
                  IF \E r \in Run : Of[r] = a /\ k \in Work[r]
                  THEN "approved" ELSE "awaiting_approval"]]
    /\ finding = [a \in Assessment |-> [k \in Key |-> "none"]]
    /\ coverage = [a \in Assessment |-> [k \in Key |-> {}]]
    /\ risk = [a \in Assessment |-> NoRisk]
    /\ memory = [k \in Key |-> [false_positive |-> 0, note |-> 0]]
    /\ tests = [k \in Key |-> {}]
    /\ events = 0
    /\ said = [a \in Assessment |-> [k \in Key |-> "nothing"]]
    /\ unscored = [p \in Pass |-> {}]
    /\ changed = [a \in Assessment |-> {}]
    /\ stale = [a \in Assessment |-> FALSE]

\* One of the bounded events.
Happens == events < MaxEvents /\ events' = events + 1

GoTo(p, point) == pc' = [pc EXCEPT ![p] = point]

(***************************************************************************)
(* Starting.                                                                *)
(***************************************************************************)

\* A run that is started again after a failure finds its endpoints saved and
\* plans nothing for them.  Its cancellation is forgotten.
StartRun(p) ==
    /\ p \in Run \cap tasks
    /\ pc[p] \in {"idle", "failed"}
    /\ GoTo(p, "executing")
    /\ todo' = [todo EXCEPT ![p] = IF pc[p] = "idle" THEN Work[p] ELSE {}]
    /\ cancelled' = [cancelled EXCEPT ![Of[p]] = FALSE]
    /\ UNCHANGED <<world, loaded, verdict, scored, rowVars, projectVars, events, history>>

\* An operator approves a held step once the run is over.
ApproveStep(p) ==
    /\ p \in tasks \ Run
    /\ pc[p] = "idle"
    /\ \A k \in Work[p] : step[Of[p]][k] = "awaiting_approval"
    /\ \A r \in Run : Of[r] = Of[p] => pc[r] \in {"done", "failed"}
    /\ GoTo(p, "executing")
    /\ todo' = [todo EXCEPT ![p] = Work[p]]
    /\ step' = [step EXCEPT ![Of[p]] =
                    [k \in Key |-> IF k \in Work[p] THEN "approved" ELSE @[k]]]
    /\ UNCHANGED <<world, loaded, verdict, scored, cancelled, finding, coverage, risk,
                   projectVars, events, history>>

\* The operator cancels a running assessment.
Cancel(a) ==
    /\ \E p \in Run : Of[p] = a /\ Active(p)
    /\ Happens
    /\ cancelled' = [cancelled EXCEPT ![a] = TRUE]
    /\ UNCHANGED <<world, passVars, rowVars, projectVars, history>>

(***************************************************************************)
(* Executing.                                                               *)
(***************************************************************************)

\* What a step can report: what its check found; nothing, when the brain skips
\* the check or it does not apply; an error.
Reports(f) == {f.probe, "none", "error"}

\* A finding with the same key is not made twice.
_persist_finding(a, k, report) ==
    LET new == report = "finding" /\ finding[a][k] = "none"
    IN  /\ finding' = IF new THEN [finding EXCEPT ![a][k] = "suspected"] ELSE finding
        /\ changed' = IF new THEN [changed EXCEPT ![a] = @ \ {k}] ELSE changed

\* A run may try an errored step again.
PersistResult(p) ==
    \E k \in todo[p] : \E report \in Reports(face[k]) :
        LET a == Of[p]
            errored == report = "error"
        IN  /\ pc[p] = "executing"
            /\ ~cancelled[a]
            /\ \/ todo' = [todo EXCEPT ![p] = @ \ {k}]
               \/ errored /\ p \in Run /\ todo' = todo
            /\ step' = [step EXCEPT ![a][k] = IF errored THEN "errored" ELSE "done"]
            /\ _persist_finding(a, k, report)
            /\ UNCHANGED <<world, pc, loaded, verdict, scored, cancelled, coverage, risk,
                           projectVars, events, said, unscored, stale>>

\* A cancellation, the deadline or the health of the target ends the pass's
\* execution: the results that remain are not recorded.
DropResults(p) ==
    /\ pc[p] = "executing"
    /\ todo[p] # {}
    /\ todo' = [todo EXCEPT ![p] = {}]
    /\ UNCHANGED <<world, pc, loaded, verdict, scored, cancelled, rowVars, projectVars,
                   events, history>>

\* Only the run looks at the cancellation here.
EndExecute(p) ==
    /\ pc[p] = "executing"
    /\ todo[p] = {}
    /\ p \in Run /\ cancelled[Of[p]]
    /\ GoTo(p, "done")
    /\ UNCHANGED <<world, todo, loaded, verdict, scored, cancelled, rowVars, projectVars,
                   events, history>>

(***************************************************************************)
(* Validating.                                                              *)
(***************************************************************************)
LoadSuspected(p) ==
    /\ pc[p] = "executing"
    /\ todo[p] = {}
    /\ p \in Run => ~cancelled[Of[p]]
    /\ GoTo(p, "validating")
    /\ loaded' = [loaded EXCEPT ![p] = {k \in Key : finding[Of[p]][k] = "suspected"}]
    /\ UNCHANGED <<world, todo, verdict, scored, cancelled, rowVars, projectVars, events, history>>

\* The agent re-proves the finding, or defers it, or raises an error.
Reprove(p) ==
    /\ pc[p] = "validating"
    /\ verdict[p] = NoVerdict
    /\ ~cancelled[Of[p]]
    /\ \E k \in loaded[p] : \E outcome \in {face[k].verdict, "inconclusive"} :
           /\ verdict' = [verdict EXCEPT ![p] = <<k, outcome>>]
           /\ loaded' = [loaded EXCEPT ![p] = @ \ {k}]
    /\ UNCHANGED <<world, pc, todo, scored, cancelled, rowVars, projectVars, events, history>>

\* The status is written whatever it has become since the finding was loaded.
WriteVerdict(p) ==
    /\ verdict[p] # NoVerdict
    /\ LET k == verdict[p][1]
       IN  /\ finding' = [finding EXCEPT ![Of[p]][k] = verdict[p][2]]
           /\ unscored' = [unscored EXCEPT ![p] = @ \cup {k}]
    /\ verdict' = [verdict EXCEPT ![p] = NoVerdict]
    /\ UNCHANGED <<world, pc, todo, loaded, scored, cancelled, step, coverage, risk, projectVars,
                   events, said, changed, stale>>

(***************************************************************************)
(* Scoring.                                                                 *)
(***************************************************************************)
KnownFalsePositive(k) == memory[k].false_positive > 0

\* The look is at all findings of the assessment: it restores a rejection
\* whichever pass, at work or lost, has written over it.
Looked(a) == unscored' = [q \in Pass |-> IF Of[q] = a THEN {} ELSE unscored[q]]

\* Mistake: only what is still suspected is looked up in the memory.
SuppressSuspected(p) ==
    /\ pc[p] = "validating"
    /\ verdict[p] = NoVerdict
    /\ loaded[p] = {} \/ cancelled[Of[p]]
    /\ GoTo(p, "scoring")
    /\ loaded' = [loaded EXCEPT ![p] = {}]
    /\ finding' = [finding EXCEPT ![Of[p]] =
           [k \in Key |-> IF KnownFalsePositive(k) /\ @[k] = "suspected" THEN "rejected" ELSE @[k]]]
    /\ Looked(Of[p])
    /\ UNCHANGED <<world, todo, verdict, scored, cancelled, step, coverage, risk,
                   projectVars, events, said, changed, stale>>

\* The validation is over; a cancelled pass leaves what it has not come to
\* suspected, and goes on.
_apply_known_false_positives(p) ==
    /\ pc[p] = "validating"
    /\ verdict[p] = NoVerdict
    /\ loaded[p] = {} \/ cancelled[Of[p]]
    /\ GoTo(p, "scoring")
    /\ loaded' = [loaded EXCEPT ![p] = {}]
    /\ finding' = [finding EXCEPT ![Of[p]] =
           [k \in Key |-> IF KnownFalsePositive(k) /\ @[k] # "none" THEN "rejected" ELSE @[k]]]
    /\ Looked(Of[p])
    /\ UNCHANGED <<world, todo, verdict, scored, cancelled, step, coverage, risk,
                   projectVars, events, said, changed, stale>>

\* Mistake: what was approved counts as tested.
TestedIfApproved(a) == {k \in StepsOf(a) : step[a][k] \in {"approved", "done", "errored"}}

Tested(a) == {k \in StepsOf(a) : step[a][k] = "done"}

ScoreOf(a, k) == score_finding(Severity[k], "high", finding[a][k], FALSE, "staging")

Open(a) == {k \in Key : finding[a][k] \in OpenStatus}

RiskNow(a) ==
    [grade  |-> score_assessment(LET q == SetToSeq(Open(a))
                                 IN  [i \in DOMAIN q |-> ScoreOf(a, q[i])],
                                 Range(finding[a]),
                                 Cardinality(Tested(a)), Cardinality(StepsOf(a))),
     tested |-> Cardinality(Tested(a))]

\* The passes that have read what they score and not yet written the score.
Saving(a) == {q \in Pass : Of[q] = a /\ pc[q] = "saving"}

\* A pass reads findings, steps and coverage first ...
LoadScore(p) ==
    LET a == Of[p]
    IN  /\ pc[p] = "scoring"
        /\ GoTo(p, "saving")
        /\ scored' = [scored EXCEPT ![p] =
               [seen   |-> risk[a],
                risk   |-> RiskNow(a),
                tested |-> Tested(a),
                first  |-> \A k \in Key : coverage[a][k] = {}]]
        /\ stale' = [stale EXCEPT ![a] = Saving(a) # {}]
        /\ UNCHANGED <<world, todo, loaded, verdict, cancelled, rowVars, projectVars,
                       events, said, unscored, changed>>

CoverageRow(a, k, tested) ==
    IF k \notin StepsOf(a) THEN {} ELSE IF k \in tested THEN {"tested"} ELSE {"untested"}

\* Mistake: the risk is written once, too.
StoreOnce(p) ==
    LET a == Of[p]
    IN  /\ pc[p] = "saving"
        /\ GoTo(p, "done")
        /\ scored' = [scored EXCEPT ![p] = NoScore]
        /\ risk' = IF scored[p].first THEN [risk EXCEPT ![a] = scored[p].risk] ELSE risk
        /\ coverage' =
              IF ~scored[p].first THEN coverage
              ELSE [coverage EXCEPT ![a] =
                       [k \in Key |-> @[k] \cup CoverageRow(a, k, scored[p].tested)]]
        /\ UNCHANGED <<world, todo, loaded, verdict, cancelled, step, finding,
                       projectVars, events, history>>

\* ... and then writes the risk, unless it is the one it has read, over whatever
\* another pass has written meanwhile, and the coverage if it has seen none.
\* The report that follows in a run only adds to the summary.
StoreScore(p) ==
    LET a == Of[p]
    IN  /\ pc[p] = "saving"
        /\ GoTo(p, "done")
        /\ scored' = [scored EXCEPT ![p] = NoScore]
        /\ risk' = IF scored[p].risk = scored[p].seen THEN risk
                   ELSE [risk EXCEPT ![a] = scored[p].risk]
        /\ coverage' =
              IF ~scored[p].first THEN coverage
              ELSE [coverage EXCEPT ![a] =
                       [k \in Key |-> @[k] \cup CoverageRow(a, k, scored[p].tested)]]
        /\ UNCHANGED <<world, todo, loaded, verdict, cancelled, step, finding,
                       projectVars, events, history>>

\* An exception ends one pass, a crash ends all of them.  A run may be started
\* again; a background task is lost.
Lose(some) ==
    /\ Happens
    /\ pc' = [p \in Pass |-> IF p \notin some THEN pc[p]
                             ELSE IF p \in Run THEN "failed" ELSE "lost"]
    /\ todo' = [p \in Pass |-> IF p \in some THEN {} ELSE todo[p]]
    /\ loaded' = [p \in Pass |-> IF p \in some THEN {} ELSE loaded[p]]
    /\ verdict' = [p \in Pass |-> IF p \in some THEN NoVerdict ELSE verdict[p]]
    /\ scored' = [p \in Pass |-> IF p \in some THEN NoScore ELSE scored[p]]
    /\ stale' = [a \in Assessment |-> stale[a] \/ \E p \in some : Of[p] = a]
    /\ UNCHANGED <<world, cancelled, rowVars, projectVars,
                   said, unscored, changed>>

ActivePasses == {p \in Pass : Active(p)}

Interrupt ==
    \/ \E p \in ActivePasses : Lose({p})
    \/ Cardinality(ActivePasses) > 1 /\ Lose(ActivePasses)

(***************************************************************************)
(* The operators.                                                           *)
(***************************************************************************)
Rows(k) == memory[k].false_positive + memory[k].note

\* A rejection leaves a row in the memory, each time; nothing but the memory's
\* own operations takes it away again.
triage_finding(a, k, status) ==
    /\ finding[a][k] # "none"
    /\ status = "rejected" => Rows(k) < MaxMemory
    /\ Happens
    /\ finding' = [finding EXCEPT ![a][k] = status]
    /\ memory' = IF status = "rejected"
                 THEN [memory EXCEPT ![k].false_positive = @ + 1] ELSE memory
    /\ said' = [said EXCEPT ![a][k] = status]
    /\ stale' = [stale EXCEPT ![a] = TRUE]
    /\ UNCHANGED <<world, passVars, cancelled, step, coverage, risk, tests,
                   unscored, changed>>

\* A rejection stands as long as the memory holds it.
Forget(k, rows) ==
    said' = IF rows.false_positive > 0 THEN said
            ELSE [a \in Assessment |-> [said[a] EXCEPT ![k] =
                                            IF @ = "rejected" THEN "nothing" ELSE @]]

SetMemory(k, rows) ==
    /\ Happens
    /\ memory' = [memory EXCEPT ![k] = rows]
    /\ Forget(k, rows)
    /\ UNCHANGED <<world, passVars, cancelled, rowVars, tests,
                   unscored, changed, stale>>

\* Of two rows with the key it takes none: the request fails.
upsert_memory(k) ==
    /\ Rows(k) < 2
    /\ \/ SetMemory(k, [false_positive |-> 1, note |-> 0])
       \/ SetMemory(k, [false_positive |-> 0, note |-> 1])

\* Mistake: what is not there is deleted as well.
delete_nothing(k) == SetMemory(k, [memory[k] EXCEPT !.false_positive = @ - 1])

delete_memory(k) ==
    \/ /\ memory[k].false_positive > 0
       /\ SetMemory(k, [memory[k] EXCEPT !.false_positive = @ - 1])
    \/ /\ memory[k].note > 0
       /\ SetMemory(k, [memory[k] EXCEPT !.note = @ - 1])

\* Another version of the target.
Deploy(k) ==
    /\ Happens
    /\ \E f \in faces[k] \ {face[k]} : face' = [face EXCEPT ![k] = f]
    /\ changed' = [a \in Assessment |-> changed[a] \cup {k}]
    /\ UNCHANGED <<faces, tasks, passVars, cancelled, rowVars, projectVars,
                   said, unscored, stale>>

\* One test per confirmed finding, however many there are already.
generate_regression_tests(a) ==
    /\ tests' = [k \in Key |-> IF finding[a][k] = "confirmed"
                               THEN tests[k] \cup {"unknown"} ELSE tests[k]]
    /\ Happens
    /\ UNCHANGED <<world, passVars, cancelled, rowVars, memory, history>>

run_regression_tests ==
    /\ \E k \in Key : tests[k] # {}
    /\ tests' = [k \in Key |-> IF tests[k] = {} THEN {} ELSE {face[k].regress}]
    /\ Happens
    /\ UNCHANGED <<world, passVars, cancelled, rowVars, memory, history>>

Operators ==
    \/ \E a \in Assessment : Cancel(a) \/ generate_regression_tests(a)
    \/ \E a \in Assessment, k \in Key, s \in {"rejected", "confirmed", "suspected"} :
           triage_finding(a, k, s)
    \/ \E k \in Key : upsert_memory(k) \/ delete_memory(k) \/ Deploy(k)
    \/ run_regression_tests

Passes ==
    \E p \in Pass :
        \/ StartRun(p) \/ ApproveStep(p)
        \/ PersistResult(p) \/ DropResults(p) \/ EndExecute(p)
        \/ LoadSuspected(p) \/ Reprove(p) \/ WriteVerdict(p)
        \/ _apply_known_false_positives(p) \/ LoadScore(p) \/ StoreScore(p)

Next == Passes \/ Interrupt \/ Operators

Spec == Init /\ [][Next]_vars

(***************************************************************************)
(* What the readers of the findings rely on.                                *)
(***************************************************************************)

\* An operator's rejection survives the passes that run beside it.  A
\* validator writes its verdict over a ruling that came while it was proving;
\* such a verdict stands only until a pass of the assessment, this one or, if
\* it is lost before, any other, has looked into the memory.
RejectionSurvives ==
    \A a \in Assessment, k \in Key :
        /\ said[a][k] = "rejected"
        /\ finding[a][k] # "rejected"
        => \E p \in Pass : Of[p] = a /\ k \in unscored[p]

\* The validator refutes a finding of a built-in check, or of a declarative
\* skill with a class of its own, only if the target has changed since: what
\* the check calls a finding and what the validator calls a refutation exclude
\* each other, detector by detector.
RefutedOnlyIfChanged ==
    [][\A p \in Pass, k \in Key :
           /\ verdict[p] = NoVerdict
           /\ verdict'[p] = <<k, "rejected">>
           /\ face[k].own
           => k \in changed[Of[p]]]_vars

\* A regression test reports "fixed" of a finding, whatever its status, only if
\* the target has changed since the check, with one exception: a differential
\* that the check reports and the validator calls weaker than reported, which
\* the regression test calls gone in the same target.  An operator may confirm
\* such a finding and so have a test generated for it.
FixedMeansChanged ==
    [][\A a \in Assessment, k \in Key :
           /\ "fixed" \in tests'[k] \ tests[k]
           /\ face[k].own
           /\ finding[a][k] # "none"
           /\ k \notin changed[a]
           => face[k].verdict = "suspected"]_vars

\* When the passes of an assessment are over, its grade and its count are
\* those of its findings and steps as they are, however the passes were
\* interleaved: one that still changes what another has read reads it again
\* and writes last.  Only a ruling, a lost pass, or two passes that both read
\* before either wrote make them stale.
GradeMatchesFindings ==
    \A a \in Assessment :
        /\ risk[a] # NoRisk
        /\ ~stale[a]
        /\ \A p \in Pass : Of[p] = a => ~Active(p)
        => risk[a] = RiskNow(a)

\* What the coverage calls tested has been done, and stays so.  What it calls
\* untested has not, unless the step is one of a late task: that of a step of
\* the run is final, whichever pass wrote it.
CoverageHonest ==
    \A a \in Assessment, k \in Key :
        /\ "tested" \in coverage[a][k] => step[a][k] = "done"
        /\ "untested" \in coverage[a][k] /\ step[a][k] = "done"
           => \E p \in tasks \ Run : Of[p] = a /\ k \in Work[p]
=============================================================================
