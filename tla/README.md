# Sentrik: specification and verification

Sentrik runs authorised security assessments: an assessment discovers the
endpoints of a target, plans checks, asks a deterministic policy which of them
may run, executes them with a pool of agents through one guarded HTTP client,
validates what they find, scores it and reports.  Operators start and cancel
assessments and approve or deny single steps while all that happens.  The
process is one asyncio event loop; the database is the only thing that survives
a crash.  This directory specifies that behaviour in TLA+, checks it with TLC
on small instances, and proves the main safety properties with TLAPS.

Paths below are relative to `src/app/`.

## 1. Inventory

| Component | State | Operations | Talks to | What is hard, and what makes it correct |
|---|---|---|---|---|
| Assessment lifecycle (`orchestration/engine.py`, `api/routers/assessments.py`, `api/routers/chat.py`, `main.py`) | the assessment row (state, cancel flag, start time, completion reason), plan steps, jobs; the engine object's locals; `_running` | start, cancel, cancel-all, approve, deny, chat start; the phases; late execution of approved steps; start-up sweep | everything below | handlers act on rows loaded before an await; cancel is a flag that is polled; crash at any point. One driver per assessment, the driver owns the state, no check without policy and approval, every run ends, dropped work is reported |
| Scheduler (`engine.py` `_supervise`, `_sem`, `_org_sem`) | organisation and global semaphores, `_running` | acquire both, release both | lifecycle | nested acquisition, exceptions, loss of queued runs. Slots are bounded and never leaked |
| Graph workflow (`orchestration/graph.py`) | a LangGraph thread with a durable checkpoint | run, park on an interrupt, resume, continue after a crash | lifecycle, handlers, sweep | node re-execution, resume racing with the end of the parking task, sweep of parked threads |
| Request budget (`security/http_client.py`, `security/scope.py`) | `guard.requests_made` per client, `requests_made` in the row | check, count, redirect hop, persist every tenth, persist exactly | agents, engine | check and count are separated by awaits; several clients of one assessment. Bounded overshoot, honest row |
| Rate limiter (`security/http_client.py`) | tokens, time of last update, lock | acquire | every request | timers that overshoot. No window exceeds burst plus rate |
| Scope guard, network guard, sandbox (`security/`) | none | decisions | every request | order of the gates, a name that resolves anew at each look, redirects that are authorized as something else, two implementations of one rule. Deny by default, and nothing that is in scope refused by mistake |
| Agent pool and execution (`agents/pool.py`, `agents/base.py`) | tasks, semaphore, statistics | run, run_streaming, retry, stop | engine, client, ledger | tasks that outlive the loop, timeouts, retries outside of the pool. Bounded parallelism, nobody left behind |
| Planner (`services/planning.py`, `_phase_planning`, `_maybe_replan`) | plan steps | build plan, replan | engine | heuristics; a replanned step has a new row beside the old one and is not asked about approval, which no built-in check needs |
| LLM budget, brain (`agents/budget.py`, `agents/brain.py`) | token ledger of a run | check, charge | agents, coordinator | check and charge separated by a call. Bounded overshoot |
| Agent messages (`agents/a2a.py`) | bounded queues | subscribe, publish | coordinator, agents | drops when full; only an audit record reads them |
| Findings (`engine.py`, `services/validation.py`, `services/scoring.py`, `services/regression.py`) | findings, evidence, coverage, summary, project memory, regression tests | persist once, validate, triage, known false positives, score, retest, regress, compare | engine, operators | validator against triage, late steps against coverage and score, a proof that is written three times. A rejection stands, the grade is that of the findings, in an unchanged target no validator refutes what the check reports, and a regression test calls fixed at most what the validator calls weaker than reported |
| Ownership and authorization (`services/ownership.py`, `api/routers/targets.py`) | verification rows, authorization records | start, verify, authorize, bind an assessment | scope guard | a row verified anew and failing after a record was written on it. Only who proved ownership tests |
| Test-account sessions (`services/sessions.py`) | sessions with a lifetime | build, refresh | checks | expiry between look and use |
| Skill registry (`agents/registry.py`) | skills and versions | register, remove, snapshot | planner, engine | a run works on its own snapshot |
| A2A task server (`integrations/a2a_server.py`) | task states | send, wait, cancel | lifecycle | wait that ends early, cancel that reports too much |
| MCP server, identity, discovery parsers, checks, reports, exports, observability | none of their own, or I/O | | | formatting, parsing, library calls |

The hazards that follow from this list are in `PROJECT.json`, each at its line,
with the property that covers it or the reason why none does.

## 2. Modules

| Module | What it is |
|---|---|
| `Assessment.tla` | the abstract specification: the life of one assessment as its readers see it |
| `Lifecycle.tla` | the inline engine, the operators' handlers, late steps, crash and sweep |
| `MCLifecycle.tla`, `Lifecycle.cfg`, `LifecycleLive.cfg`, `CancelHonored.cfg`, `ApprovalNotStranded.cfg` | its instances for TLC |
| `LifecycleProofs.tla` | theorems about `Lifecycle`, with the refinement of `Assessment` |
| `RequestBudget.tla` | budget, redirects and persisted count of the guarded clients of one assessment |
| `MCRequestBudget.tla`, `RequestBudget.cfg`, `BudgetIsShared.cfg` | its instances for TLC |
| `RequestBudgetProofs.tla` | theorems about `RequestBudget` |
| `DurableAssessment.tla` | the abstract specification of an assessment that is continued where it stopped |
| `GraphRun.tla` | the graph workflow with its durable thread, the handlers and the sweep |
| `MCGraphRun.tla`, `GraphRun.cfg`, `DecisionResumes.cfg` | its instances for TLC |
| `GraphRunProofs.tla` | theorems about `GraphRun`, with the refinement of `DurableAssessment` |
| `Execution.tla` | agents in their pools, retries, replanning and the ledger of model calls |
| `MCExecution.tla`, `Execution.cfg` | its instance for TLC |
| `ExecutionProofs.tla` | theorems about `Execution` |
| `Probes.tla` | what each check concludes from the answers of a target |
| `Reproof.tla` | what the validator and a regression test make of the same finding (extends `Probes`) |
| `Scoring.tla` | risk scores, grade and tested share |
| `ScoringProofs.tla` | theorems about the scores of single findings |
| `Findings.tla` | findings, coverage, score, memory and regression tests of the assessments of a target (extends `Reproof` and `Scoring`) |
| `MCFindings.tla`, `Findings.cfg` | its instance for TLC |
| `FindingsProofs.tla` | theorems about `Findings` and `Reproof` |
| `Scope.tla` | the decisions of guard, classification, look for rebinding and sandbox |
| `Authorization.tla` | proofs of ownership, records, creation of an assessment (extends `Scope`) |
| `Egress.tla` | a request behind its gates, on the wire and over redirects: `RequestBudget` and `Authorization` composed |
| `MCEgress.tla`, `Egress.cfg`, `OwnRedirectsAreFollowed.cfg` | its instances for TLC |
| `EgressProofs.tla` | theorems about `Egress`, with the refinement of `RequestBudget` |

### 2.1 Lifecycle

One assessment.  The variables fall into the rows of the database (`state`,
`cancel_requested`, `started`, `completion_reason`, `surface`, `step`,
`permitted`, `jobs`), the engine's coroutine (`task`, `body`, `fresh`, `batch`,
`pending`, `exec_note`), and the rest of the process (`post`, `req`, `boot`).
A crash loses the last two groups and keeps the first.

*Granularity.*  An action is what a coroutine does between two awaits another
coroutine can observe: a transaction, or the load of a row on whose strength a
later transaction of the same handler acts.  Sessions are opened with
`expire_on_commit=False` (`core/db.py`), so a handler goes on with what it
loaded first: `LoadStart`, `LoadCancel`, `LoadHeldStep` store that in `req`,
and `CommitStart`, `CommitCancel`, `CommitApprove`, `CommitDeny` act on it,
writing only the columns that differ from it, as SQLAlchemy does.  The audit
record of a cancel is flushed before the registry is read, which locks the row
until the commit; the read of the registry and the commit are therefore one
action.

*The engine.*  `task` is the place in `_supervise` and `_run_inner`: queued,
authorized, one of the seven phases, the approval wait inside the policy phase
("awaiting"), the result loops inside the execute phase ("streaming",
"replanning"), "cancelling", and "ending" while the ledger is written and
before `_running` forgets the run.  `body` tells whether the phase's body has
returned and whether the look at `cancel_requested` behind it is over; the
look and the transition to the next phase are separate actions, so a cancel can
fall between them.  `Interruptible` lists the phases with a look behind them.

*Plan steps.*  A step is a pair of an endpoint and a check.  Which endpoints are
found, which steps the planner chooses and which the policy skips or denies is
left open; that only new endpoints are planned for, that permitted steps that
change state or are invasive are held, and that the others are approved is
kept.  `StreamResult`, `StopStreaming`, `RetryErrored`, `Replan` and
`StopReplan` are the execute phase; a result that arrives after a cancel, a
deadline or from an unhealthy target is dropped with all later ones.  A cancel is
looked at before a round of retries, not before each.  `Replan` writes the status of
a pair over that of its older row, which nobody reads any more.

*Failure.*  An exception may leave any place between the launch and the end,
before the first transaction and while a cancellation is written included
(`MarkFailed`); `_supervise` writes FAILED and forgets the run (`mark_failed`).

*Late steps.*  `post` has one entry per step for `start_approved_steps`.  Two
tasks for one step cannot be told apart and are merged; a step leaves
"awaiting_approval" once, but a racing deny may put it elsewhere, in which case
the task drops it (`DropStaleStep`).

*Crash.*  `Crash` loses the coroutines; the sweep (`SweepReset`, `SweepLaunch`,
`SweepNothing`) runs in the lifespan handler before the process serves
requests, hence `Load` and `ChatStart` wait for `boot = "serving"`.

*Left out*: the graph workflow (2.4), the semaphores in front of a run (a queued run
is simply not begun yet), findings and coverage (the last three phases have no
body here, see 2.6), the agents and the ledger of model calls (2.5), audit and
checkpoint rows.

### 2.2 Assessment

`state` and a `driver` that is none, launched, driving or done.  The driver alone
advances the state, in the documented order; it lets go only in a terminal
state, and may break off before its first step; without a driver the state changes
only by withdrawal and by the recovery of an interrupted run.  `Driver` in `Lifecycle` is
the refinement mapping.

### 2.3 RequestBudget

Clients of one assessment in one process, each with its guard.  The limit is the
smaller of the record's and the settings', which may be any integers: no schema keeps
them positive, and 0 stands for no limit.  A request is admitted by `check_budget`,
waits at the limiter, is counted by
`note_requests`, may go on to write the count, is sent, and may follow
redirects, each of which passes budget and limiter again but does not report its
count.  `OpenClient` takes the count from the row.  The inline engine opens one
client per run and one per task of late steps; the graph engine opens one per
node and writes the exact count behind it (`GraphClient`).  A closed client may
still have callers: a loop that was stopped leaves its agents running.  Scope,
record, rebinding and sandbox gates only refuse earlier and leave no trace in
this state; `Egress` (2.7) adds them.

### 2.4 GraphRun

The same assessment under `use_langgraph`.  Two stores survive a crash: the rows
(`state`, `cancel_requested`, `started`, `step`) and the thread of the
checkpointer (`next`, the node to run next, and `parked`, an interrupt without
an answer).  The library is modelled by how `graph.py` uses it: with
`durability="sync"` the result of a node is checkpointed before the next
one starts (`Checkpoint`, `LeaveNode`); a node that is interrupted runs again from
its beginning; `interrupt()` raises the first time and returns when the thread
was continued with `Command(resume=...)`, which `run_via_langgraph` sends to
every thread with an interrupt (`answered`).

`task` is the place of the driving task: launched, at the cancel guard of a
node, entering it (`_set_state`), working in it, at the interrupt ("deciding"),
in the result loops of the execute node, leaving, or on one of the ways to the
end.  The row is written when a node is entered and the thread when it is left, so
that a crash finds the two stores in every combination the code can produce.  A
body that raises writes the row before the thread (`MarkFailed`, `EndFailed`); what
raises outside a body, the checkpointer above all, leaves the thread as it is
(`CheckpointerFails`).  A refused authorization writes no row
(`RefuseAuthorization`).

The handlers are those of `Lifecycle`, now with what follows a decision:
`_resume_if_parked` looks at the registry, at the state its handler loaded and
at the rows still held after the decision was committed, hence it is an action of
its own.  `SweepContinue` is the branch of the sweep that asks the checkpointer.
The execute phase and the late steps are coarser than in `Lifecycle`: a retry
is part of the result, and a late step ends in one action.

`DurableAssessment` is what this promises where `Assessment` has a run start over:
the run may rest without a driver, waiting for a decision or refused, and a
launch, or the recovery of an interrupted process, goes on in the state it finds; a
run that failed or was cancelled may go on in its thread in any phase, since a
failing checkpointer leaves the thread behind; only a reset begins
again.  `Driver` maps the places of the task, `boot # "serving"` the interruption.

### 2.5 Execution

The execute phase of one run, or the task of steps approved later, which enters
the batch loop at once (`StartApprovedSteps`).  `loop` is the place of the engine:
streaming the results of the main pool, retrying, between passes of replanning,
asking the coordinator, planning gaps, streaming a batch, over, closed.  Each
agent has a `place` (queued for a slot, deciding, asking a model, acting,
returned, taken) and the `pool` of its pass; `InPool(i)` are those that hold a slot.

An agent's action is what it does between two awaits.  `Consult` is the look at the
ledger in `LLMBrain.decide` and `LocalLLMBrain.decide`, `Answer` the charge behind
the awaited call; an answer that cannot be read, or a call that fails, charges
nothing.  `Act` runs the check and may end in the one second look that
`_can_revise` grants.  `Start` is the acquisition of a slot with the look at
`should_stop`, `TimeOut` the timeout around an agent in its pool.  A loop that is
left (`TakeResult`, `TakeBatchResult`, `FailExecution`) leaves its agents where they are:
nothing cancels them.  `Retry` runs an agent directly, outside of any pool.  A
cancel and the deadline come at any time; health flips either way while a check
runs, since one answered request resets the count of errors.

Which steps a pass executes, how long a backoff is, and the ceiling of cost,
which is that of tokens at a fixed price, are left out.

### 2.6 Probes, Reproof, Scoring, Findings

`Probes` and `Reproof` are the checks of `checks/`, the validators of
`services/validation.py` and the tests of `services/regression.py` as functions of
a target: a record of its answers to the requests these can send.  An answer keeps
its status, content type, length and the marks somebody looks for.  A kind of
finding is a class and a detector; declarative skills choose their class freely,
so a recipe may be replayed by the validator of another detector.  `FaceOf` sums up
what check, validator and test make of one target; `own` says that the validator
of the class looks for what the detector reported.  `Scoring` is
`services/scoring.py` in hundredths of a point.

`Findings` runs these as tasks: a pass (`Pass`) is a supervised run or a task of
late steps, and executes its steps, loads what is suspected, attempts each proof,
writes each verdict, looks into the memory, reads what it scores and stores the
score.  Reading and writing are separate wherever an await is between them: the
load of suspected findings, the proof and its verdict; findings and steps read and
the summary written.  Small read-modify-writes of one transaction are one
action.  A refusal by the guard of any request that a detector sends is an error of
its step (`SentBy`).  Beside the passes, operators rule on findings, edit the memory, deploy
another version of the target (`Deploy`, external), generate and run regression
tests, cancel; and a pass may be lost with its process.  `said`, `unscored`,
`changed` and `stale` are history: what an operator has ruled, which verdicts a
pass has written and no pass has since looked up in the memory, which keys may answer
differently than when the finding was made, and which score a ruling, a loss or a
pass that had read before another wrote has outdated.  Comparing two assessments only
reads and is left out.

### 2.7 Scope, Authorization, Egress

`Scope` holds the decisions as operators of a record (`Grant`), a URL, a method
and an answer of the resolver.  A name resolves anew at each look, so every
decision has an answer of its own as parameter.  Wildcards and prefixes are
expanded: an entry of a list stands for the hosts and paths it matches.

`Authorization` is the way to an assessment: a row of ownership is started,
verified and verified again with each method's possible outcomes; a record is
written on the strength of verified rows; an assessment is bound to the record.
`proven` remembers every row that was verified at some time.  The endpoint that
verifies awaits an answer from the host or from DNS between the load of its row and
its write.  It is one action all the same: what it reads of the row, method, host and
token, never changes once the row is written, and it writes the status and its detail
alone, so that the step in which it commits is the whole of it, whoever has written
the status meanwhile.

`Egress` extends both with `RequestBudget`: each of its actions contains the action
of `RequestBudget` it belongs to.  `Authorize` is record, guard, look for rebinding
and sandbox in one action, since a resolution blocks the event loop and nothing of
the process moves between the gates; each of them sees an answer of its own.
`Proceed` waits, counts and sends; `FollowRedirect` joins the location to the URL of
the response, in which the host is the pinned address, authorizes the hop as a GET
and keeps the method for 307 and 308.  `window` and the record are looked at for
the first request only, as in the code.

## 3. What is checked

| Run | Instance | Properties | What it shows |
|---|---|---|---|
| `lifecycle` | two steps, one of which needs approval; two requests in flight; no crash | `TypeOK`, `EngineOwnsState`, `PolicyGate`, `ExclusiveExecution`, `DroppedResultsAreReported`, `ImplementsAssessment` | no handler moves the state under a live run; nothing reaches the agents without policy and, where needed, approval; a step has one executor; a run that dropped results of its plan does not report "executed"; the whole refines `Assessment` |
| `lifecycle_live` | the same with one request and one crash, under fairness | `ActiveHasDriver`, `ImplementsAssessment`, `RunEnds`, `EarlyCancelStops`, `AwaitedApprovalIsTaken` | no run is left in an active state without a driver, whenever the process crashes; every launched run ends though nobody answers; a cancel before the last look stops it; an approval during the wait is taken |
| `cancel_honored` | as above | `CancelHonored` (violated) | a cancel committed in VALIDATING has two phase boundaries before it, none of which looks: the run completes |
| `approval_not_stranded` | as above | `ApprovalNotStranded` (violated) | an approval after the approval wait and before the end of the run is executed by nobody |
| `request_budget` | two clients, one of them a graph node's; two callers each; limits 4 and 3, written every 2, one redirect | `TypeOK`, `OvershootIsBounded`, `JointOvershootIsBounded`, `RowClaimsNoMore` | a guard exceeds its limit by less than its callers, and all guards together by no more than that for each client opened; the row never claims what was not counted |
| `budget_is_shared` | two clients with one caller each | `BudgetIsShared` (violated) | a late client starts from an old count; together they exceed the limit |
| `graph_run` | one row that needs approval and one that does not; one request; one crash; under fairness | `TypeOK`, `OnlyApprovedRun`, `ThreadAndRowAgree`, `RestingRunIsKnown`, `ImplementsDurableAssessment`, `TaskEnds`, `CancelStops` | only approved rows reach the agents, also when the sweep resumes a thread with held rows; the thread and the row agree between any two of their writes; a run at rest is parked or was refused; the row shows one life of an assessment that goes on where it stopped; the task never waits for an operator; a cancel ahead of a look stops the run |
| `decision_resumes` | the same | `DecisionResumes` (violated) | a decision before the parking task has left the registry does not resume the run |
| `execution` | three agents, one slot per pool, one retry, two passes of replanning, a ceiling of one token, under fairness | `TypeOK`, `AgentsAreBounded`, `RetriesRunAlone`, `LedgerOvershootIsBounded`, `ExecutionEnds`, `NobodyIsLeftBehind` | agents left behind work beside a later pass of replanning, but the main pass leaves none, and a pool keeps its slots; a retry, which has no slot and no timeout, runs alone; the ledger's overshoot is less than what the slots of all passes and the coordinator may cost; the execution ends and nobody stays behind |
| `findings` | every kind of finding in a run alone; a run beside a late task, and beside a retest, with one kind; three events | `TypeOK`, `RejectionSurvives`, `GradeMatchesFindings`, `CoverageHonest`, `RefutedOnlyIfChanged`, `FixedMeansChanged` | an operator's rejection outlives validations beside it; the grade is that of the findings and steps, however passes interleave, unless two of them read before either wrote; what coverage calls tested was done, and what it calls untested was not, but for steps of a late task; no validator refutes what the check has seen in a target that did not change, and a regression test calls of it fixed only what the validator calls weaker than reported |
| `egress` | one client of a run, two callers, a record of four shapes, two names and three addresses | `EgressTypeOK`, `OnlyOwnersTest`, `HopsStayInScope`, `ConnectsAreVetted`, `StableHostsPass`, `KeepsToTheBudget` | a request under way goes back to an ownership that was verified; each hop is in scope although it is authorized as a GET; each connection goes to an address of the hop's own host that the environment permits, however the name resolves; guard, look for rebinding and sandbox agree; the composition refines `RequestBudget` |
| `own_redirects_are_followed` | the same with the client of a graph node | `OwnRedirectsAreFollowed` (violated) | a relative redirect is joined to the URL with the pinned address and refused |

The five violated properties are claims of docstrings and comments that the code
does not keep; `findings` in `PROJECT.json` quotes them.  Everything
else holds.

Deadlock is not checked in any run: an assessment that has ended, and a client
that has been closed, may rest for good; so may an execution, the findings
between two runs, and a request that has been refused.

*Bounds.*  Two steps are enough to have one that is held and one that is not,
one whose result arrives and one whose is dropped; the properties about steps
speak of one or two of them.  Two requests race with each other and with the
engine; a third would only repeat a decision.  A crash loses all requests, so the
runs with a crash have one of them; the theorems of section 4 hold for any
number of both.  One crash may fall anywhere,
also between a launch and its first transaction or inside the second run of a
failed assessment; a second would repeat the sweep.  `MaxCrashes` is the only
counter.  In `RequestBudget` the limit is larger than the writing interval, so
that the row lags behind, is caught up and is overtaken; counts are bounded by
the limit itself.  `Requests` and `Callers` are symmetric, and symmetry is
used for safety only.

In `Execution` two passes of replanning with one slot each are the least in which
agents of one pass work beside those of another; the third agent is the one that
waits for a slot.  A ceiling of one token at one token a call lets every asker
of such a moment exceed it.  In `Findings` each kind is met with all answers that
tell its detectors apart (`MCFindings.TargetsOf`), kinds with the same faces once;
what passes do to each other does not depend on the kind, so one is enough there.
Three events (`MaxEvents`) allow a ruling, a deployment and a loss; two rows of
memory (`MaxMemory`) a duplicate.  The four records of `Egress` are a production
target with a window, an environment that is none with a second host, a
private network with a port, methods and paths, and a laboratory by literals;
one of the names resolves to a public and to a private address, one is a
metadata service.

*Fairness* (`FairSpec`).  The event loop runs every ready coroutine, so the
engine, each task of a late step, each handler that has loaded its rows and the
sweep are weakly fair.  `Engine` contains the end of the approval wait, which
`plan_approval_wait_seconds` bounds, and the results of agents, which
`per_agent_timeout` bounds (`GraphRun` has no wait for operators: its policy
node parks); it does not contain another round of polling, a
retry, another replanning pass or a failure, none of which has to happen.
Nobody has to send a request, and nothing has to crash.
In `Execution` the engine and each agent are weakly fair: they are coroutines, and
requests and calls of models have timeouts of their own.  No agent has to run
out of its time and nothing has to fail, so neither helps an execution to end.

## 4. What is proved

`LifecycleProofs` proves for every set of steps and requests and every number of
crashes:

* `TypeCorrect`: `Spec => []TypeOK`.
* `StateIsEngineOwned`, `ActiveIsDriven`: neither is inductive.  A handler that
  holds a loaded row may commit at any time, so the invariant `ControlInv`
  also says where the row may be for each place of the engine, that an idle
  registry means a state outside the active ones unless the sweep is about to
  come, and that the sweep finds every started run.
* `ChecksPassTheGate`: `GateInv` follows a step from the policy to the agents.
  What the engine has batched or polls is permitted; a batch holds of the steps
  that need approval only approved ones; a loaded decision concerns a step that
  was held, and a step with status "approved" that needs approval was approved by an
  operator, also when a late approval overwrites a denial.
* `OneExecutorPerStep`: `ExclusiveInv` adds that whatever a run plans was
  new to it, so that a step with a background task, which has a row since
  an earlier run, is in none of the engine's sets.
* `LifecycleImplementsAssessment`: initial states map to initial states and
  every step to a step of `Assessment` or a stutter, using `ControlInv`.
* `NothingIsDroppedSilently`: results are dropped in one place and reported in
  another, several phases later.  `ReportInv` bridges them: while the main pass
  streams, every step of its batch has a job row or is still pending; from its end
  until the run completes, all of them have job rows or the note says that the run
  was partial or stopped by the coordinator.
* `EarlyCancelIsNotPassed`, `AwaitedApprovalIsSeen`: the safety halves of
  `EarlyCancelStops` and `AwaitedApprovalIsTaken`.  With the flag up, `CancelAhead` is
  inductive, so neither this run nor a later one completes; and from a state in which
  the run polls for an approved step, every action leads to such a state, to a
  batch with the step, or to a denial, a failure or a crash.
* `LaunchedRunCountsDown`: the ranking argument behind `RunEnds`, for finitely many
  steps.  The place in the order of the phases, the place in the phase's body, the
  steps whose results or decisions are missing and those left to retry form a tuple
  of natural numbers, compared from the left.  Every step of the engine lowers it, but
  for another round of polling, which the wait's budget bounds; decisions, cancels,
  late steps and crashes never raise it.  That a late step cannot put a retry back needs
  `ExclusiveInv`, and that the sweep meets no run needs `ControlInv`.

`RequestBudgetProofs` proves for any limits of record and settings, every interval and
number of redirects, and any clients and callers:

* `TypeCorrect`, with the bound on redirects.
* `GuardOvershootsByCallers`: `BudgetInv` counts the callers that were admitted
  but not yet counted together with the requests that were; the sum never
  exceeds `Limit + |Caller| - 1`, because who is admitted sees a count below the
  limit and at most all callers wait.  The same bound holds for every count
  on its way to the row, since a new guard starts from there.  A negative limit lets
  nothing through, and a limit of 0 is none, whatever the settings say
  (`ZeroIsNoLimit`).
* `ClientsOvershootTogether`: every request is given a number of its own, the pair of
  its client and the count its guard had with it.  `JointInv` says that what has been
  noted never exceeds the numbers in use, and they fit into the clients opened so far
  times the bound of a single guard.
* `OnlyTheCrowdOvershoots`: both invariants have the number of callers that may wait
  together as a parameter.  If it never exceeds `w`, the bounds hold with `w` in place of
  all callers; for the engine's clients `WorkersStayBounded` (below) gives such a `w`,
  however many agents a run starts one after the other.
* `SequentialNodesShareTheBudget`: what `_persist_exact_count` of the graph nodes
  (`engine.py:1996`) is for.  While no node opens its client before the last one has
  written its count, and none leaves a caller behind (`Sequential`), all the clients of
  the assessment spend one budget: `noted <= Limit + w - 1`, without the factor of
  `ClientsOvershootTogether`, and `noted <= Limit` with one caller at a time.  The
  invariant `SharedInv` follows the count as it is handed on: the guard at work has
  counted every request, and between two nodes the row has.  The hypothesis describes a
  graph run that no crash interrupts and beside which no late approval is executed; the
  run `BudgetIsShared` shows what happens otherwise.
* `RowIsHonest`: no guard is ahead of the requests all guards counted, and the
  row holds some guard's count.

`GraphRunProofs` proves for every set of rows and requests and every number of
crashes:

* `TypeCorrect`.  The program counter takes part: the edges are a function on
  the nodes, so the invariant says that a node is pending wherever the task is
  inside one.
* `OnlyApprovedReachTheAgents`: `GateInv` ties a row's "approved" to an operator's
  decision before the execute node loads it; `HostQuiet` says that the sweep,
  which forgets the decisions with the rows, runs alone.
* `StoresAgree`, `NoRunIsLost`: `AgreeInv` says where the row stands for each place
  of the task, that a task which ends or was launched found the run at rest,
  and that every run behind its first node has its start time, by which the
  sweep finds it.
* `GraphRunImplementsDurableAssessment`: the steps of task, operators, crash and sweep
  map to steps of `DurableAssessment` or stutters.  `AgreeInv` says where an entered
  node finds the row; that a completed run is not taken up in its thread, which a
  crash behind the last node leaves unfinished, needs `OverInv`: no request in flight
  could launch it, since each of them was loaded after the crash.
  `PhasesComeOnce` is what follows for the row alone.
* `EarlyCancelIsNotPassed`: the safety half of `CancelStops`.
* `LaunchedTaskCountsDown`: the ranking argument behind `TaskEnds`, for finitely many
  rows: the way out of the graph, the nodes ahead, the places ahead in the node, and the
  results that are missing.  Every step of the task lowers them, and nobody else moves
  it while it is registered; there is no poll to except.

`ExecutionProofs` proves for any agents, slots, retries, passes and prices:

* `TypeCorrect`.  That a pass has a number within its bound needs `PassInv`: gaps are
  planned only behind the look at that number.
* `PoolsAreBounded`, `RetriesAreAlone`: `PlaceInv` says what the engine has behind it
  at each place.  A main pass that leaves agents behind is stopped, and a stopped
  execution neither retries nor replans; hence everything of pool 0 is taken when a
  retry or another pass begins.  `SlotInv` is the bound of each pool.
* `LedgerIsBounded`: `LedgerInv` counts calls that are not charged yet at their full
  price.  Nobody asks at or above the ceiling, and `WorkersFitTheSlots` bounds who may
  ask together; instead of an induction over the passes, it maps their slots onto
  everybody at work.  `WorkersStayBounded` states that bound by itself; it is the
  number of callers that a client of the engine can have in `RequestBudget`.
* `ExecutionCountsDown`: the ranking argument behind `ExecutionEnds`.  Stage, passes left,
  place in the pass, attempts left, agents to retry and results to take form a tuple of
  natural numbers, compared from the left.  Every step of the engine lowers it;
  every step of an agent leaves it and lowers the number of that agent alone; only
  signals use nothing up.  That the engine or an agent can always go on is what the
  liveness properties add.

`FindingsProofs` proves for any assessments, passes, keys, kinds and targets:

* `TypeCorrect`.
* `CoverageIsHonest`: what passes have read of steps and not yet written is done
  (`CoverageInv`).  That an untested step of the run stays undone needs that the run
  has nothing left to execute once anybody scores (`UntestedInv`).
* `RejectionStands`: a rejection with its row in the memory is only overwritten by a
  verdict since which no pass has looked into the memory; that is what `unscored`
  records.
* `GradeIsCurrent`: `GradeInv` says which stages exclude each other (`RunsFirst`), that
  whatever differs between the present score and what a pass alone at saving has read,
  or was written last, is owed to a pass that is still to read (`Loaded`).
* `FoundIsNotRefuted`, a theorem about the functions alone: for every kind whose
  validator looks for what its detector reports (`Own`: not object ids in a query
  string, nor a declarative skill in the class of a built-in check), and every target in
  which the check reports a finding, the validator does not reject it, and the
  regression test calls it fixed only if it is a boolean differential whose true page
  is not close to the baseline; the validator leaves that one suspected.
  `WeakDifferential` says in which targets this happens.  `RefutationNeedsChange` and
  `FixNeedsChange` carry both through `EvidenceInv` to any interleaving and any
  rulings of operators.

`ScoringProofs` proves for every combination of factors that the exposure stays within the
bounds the code sets for it, which `Scoring` therefore leaves out
(`ExposureIsNeverClamped`); that scores follow their factors through rounding and the
upper bound (`ScoreFollowsTheFactors`); and that an open finding scores, and a
rejected or fixed one does not (`OnlyOpenFindingsScore`).

`EgressProofs` proves for any hosts, addresses, answers, records and callers:

* `BudgetIsKept`: every step is one of `RequestBudget` or leaves it alone; with it the
  theorems of `RequestBudgetProofs` hold here (`BudgetHoldsBehindTheGates`).
* `EgressTypeCorrect`, `NobodyElsesTargetIsTested`, `EveryHopIsInScope`,
  `EveryConnectIsVetted`: `ChainInv` leads from the ownership to the wire, row, record,
  assessment, client, request, and says of each request under way that the guard
  allows it as it is under the record as it is.
* `GuardsAgree`, by cases over the kinds of hosts and environments.

The proofs assume only the named assumptions of the modules: that the constants
have their types, that a client has finitely many callers and at least one, that agents
are finitely many, that one assessment has one supervised run and each step one
task, that literals are no names, and that a sandbox is there or not.

*Only model-checked*: the liveness properties (fairness and ENABLED are beyond
the prover; the safety halves and the ranking arguments above are what can be proved of
them: what is missing is that somebody can always go on), and the mean behind the grade, a fold over a sorted sequence, which
the proofs treat as a function of findings and steps.  Every invariant and action
property of a passing run, and every refinement, has a theorem.

## 5. Divergences

Besides the five findings, the models contain further behaviour that a comment or
docstring describes otherwise, or that a reader would not expect.  None of it breaks
a property of section 3; it is listed so that nobody takes the models for more
careful than the code.

* A pass that reads findings before, and writes its score after, another pass leaves
  the older grade (`_phase_score`, engine.py:1661-1784).  `GradeMatchesFindings`
  excludes it through `stale`, and nothing else that two passes do to each other.
* Coverage is written by the first pass to score: a step that a late task executes
  stays untested in it (engine.py:1736).  `CoverageHonest` names the exception.
* A regression test may call fixed what the target still shows.  A boolean
  differential is reported when the statuses of its two payloads differ
  (checks/sqli.py:194), whatever the true page looks like; the validator calls it
  weaker than reported if that page is not close to the baseline
  (validation.py:132) and leaves it suspected.  An operator may confirm it, so that a
  test is generated, and the test answers "fixed" in the same target
  (regression.py:99-103): it asks for the differential and the closeness together,
  while its docstring says "'fixed' means the vuln no longer reproduces"
  (regression.py:55).  `FixedMeansChanged` and `FoundIsNotRefuted` name this as their
  only exception; the same happens if the baseline is an empty page.
* A declarative skill may choose the class of a built-in check.  Its recipe then
  reaches a validator and a test that look for something else; of the class sqli, the
  test finds no payloads in the recipe, compares two like requests and answers
  "fixed".  `Own` excludes these.
* Reopening a rejected finding leaves its row in the memory, and the next pass rejects
  it again without a proof (assessments.py:246).
* Two callers pass the budget check on its last unit (http_client.py:122); the
  proved bound is the limit plus the number of callers less one.
* A record with `max_requests` 0, which the schema accepts, makes the minimum 0 and so
  switches off the "global ceiling" of config.py:31 as well (scope.py:105).
* The sweep answers the interrupt of a parked thread, and the policy node proceeds
  with rows still held (graph.py:147); they are not executed.  An authorization
  refused by the graph leaves its row AUTHORIZED (graph.py:138).
* The window and the record are looked at for the first hop only, while
  scope.py:4-5 speaks of every outbound request; the sandbox is not asked about hops.
* Re-verifying a manual attestation fails it (targets.py:249-256); one verified row
  frees the list of allowed hosts (targets.py:316).
* With two or more passes of replanning, a pass that was left because the target was
  unhealthy works beside the next, in a pool of its own: "bounded true
  parallelism" (engine.py:960) is bounded by slots times passes.
* A model's answer that cannot be parsed is paid for and not charged; each task of
  late steps has a new ledger, which is not persisted.
* Of the validators, the one for headers confirms any answer, and an open redirect
  counts as confirmed when the guard refuses the target; the recipe of an object id in
  a query string lacks the id (validation.py:198).
* A coverage count treats a skipped step as tested; a single critical finding is
  diluted by the mean of the five worst (scoring.py).

## 6. Not modelled

Parsers, the crawler and its heuristics, reports, exports, PDF and
SIEM output, storage, observability, password hashing and OIDC, the models behind
the brain and the MCP adapter: they are pure computation on data of the target,
formatting, or calls of libraries and services, and keep no state whose
interleavings the properties above could depend on.

Sessions of test accounts are built once from stored secrets and handed over as a
snapshot; a session that expires shows as a check without a session, which `Probes`
has.  The skill registry is a table of which a run keeps its own snapshot.  Queues
between agents feed an audit record only.  Which classes a record permits
(`check_class_allowed`) is part of the policy's answer, which `Lifecycle` leaves
open.

Three parts keep state of their own and are left out all the same.  The semaphores
of the scheduler (`engine.py`, `_sem`, `_org_sem`) stand in front of a run: `Lifecycle`
lets a queued run begin at any time, and nothing it promises depends on how many
runs there are; that tasks of late steps take the global slot only (engine.py:145)
is listed as a hazard.  The rate limiter's token bucket counts in real time;
`RequestBudget` has the wait, during which callers overtake each other, but not its
length.  The A2A task server computes its answers from the assessment's row, and its
start and cancel are those of `Lifecycle`.
