------------------------------ MODULE Lifecycle ------------------------------
(***************************************************************************)
(* One assessment under the inline engine: the supervised run of            *)
(* orchestration/engine.py, the operator requests of                        *)
(* api/routers/assessments.py and api/routers/chat.py that race with it,    *)
(* the background execution of steps approved after the run, and the        *)
(* start-up sweep that restarts an interrupted run.                         *)
(*                                                                          *)
(* Every action is what one coroutine does between two awaits that another  *)
(* coroutine can observe: one database transaction, or the read of a row    *)
(* that a later transaction of the same handler acts upon.  The sessions    *)
(* are opened with expire_on_commit=False, so a handler keeps acting upon   *)
(* the row it loaded first; that snapshot is the record in `req`.           *)
(***************************************************************************)
EXTENDS Naturals, FiniteSets

CONSTANTS
    Step,           \* the (endpoint, check) pairs the planner can schedule
    NeedsApproval,  \* those whose check changes state or is invasive
    Request,        \* operator requests that can be in flight together
    MaxCrashes,     \* bound on process crashes
    MayStop         \* whether deadlines, target health or an exception may
                    \* interrupt an execution

ASSUME LifecycleAssumption ==
    /\ NeedsApproval \subseteq Step
    /\ MaxCrashes \in Nat
    /\ MayStop \in BOOLEAN

VARIABLES
    \* the database rows of the assessment
    state,              \* assessments.state
    cancel_requested,   \* assessments.cancel_requested
    started,            \* assessments.started_at is not null
    completion_reason,  \* assessments.completion_reason
    surface,            \* the pairs whose endpoint row exists
    step,               \* plan_steps.status, "none" while there is no row
    permitted,          \* rows whose policy_decision says allowed
    jobs,               \* steps with a row in jobs
    \* the engine coroutine of the assessment, lost in a crash
    task,               \* where _supervise stands; "idle" when not in _running
    body,               \* the body of the current phase: "running",
                        \* "returned", or "cleared" by the look at
                        \* cancel_requested that follows it
    fresh,              \* the pairs this run's discovery saved, then those its
                        \* planner chose, until the policy has decided
    batch,              \* steps of the plan handed to the execute phase
    pending,            \* the `pending` set of the loop the engine is in
    exec_note,          \* AssessmentEngine._exec_note
    \* the rest of the process
    post,               \* tasks of start_approved_steps, one key per step
    req,                \* operator requests in flight, with what they loaded
    boot,               \* the process: serving, or in the start-up sweep
    crashes,            \* crashes so far
    approvals           \* history: planned steps some operator approved

lifeVars   == <<state, cancel_requested, started, completion_reason>>
planVars   == <<surface, step, permitted, jobs>>
dbVars     == <<lifeVars, planVars>>
loopVars   == <<fresh, batch, pending, exec_note>>
engineVars == <<task, body, loopVars>>
hostVars   == <<boot, crashes>>
outside    == <<post, req, hostVars, approvals>>
vars == <<dbVars, engineVars, outside>>

(***************************************************************************)
(* The values of the columns and of the program counters.                   *)
(***************************************************************************)
TerminalStates == {"completed", "failed", "cancelled"}

\* The phases of _run_inner, the states the engine moves the row through.
Phases == {"discovering", "planning", "policy_check", "executing",
           "validating", "scoring", "reporting"}

ActiveStates == {"authorized"} \cup Phases

AssessmentState == {"created"} \cup ActiveStates \cup TerminalStates

StepStatus == {"none", "planned", "skipped", "denied", "awaiting_approval",
               "approved", "done", "errored"}

\* "partial" stands for partial:<cancelled|deadline_exceeded|target_unhealthy>,
\* the other notes for no_execution:<note>.
ExecNote == {"", "no_approved_steps", "coordinator_stop", "partial"}

CompletionReason == ExecNote \cup {"no_jobs", "executed"}

\* "awaiting" is the approval wait inside the policy phase; "streaming" and
\* "replanning" are the result loops inside the execute phase.
InTry == Phases \cup {"awaiting", "streaming", "replanning"}

TaskPoint == {"idle", "queued", "authorized", "cancelling", "ending"} \cup InTry

\* What a handler has loaded and its commit will look at.
FlagRequest == [op: {"start", "cancel", "cancel_all"}, cancel: BOOLEAN]

Decision == [op: {"approve", "deny"}, step: Step, state: AssessmentState]

NoRequest == [op |-> "none"]

TypeOK ==
    /\ state \in AssessmentState
    /\ cancel_requested \in BOOLEAN
    /\ started \in BOOLEAN
    /\ completion_reason \in CompletionReason
    /\ surface \subseteq Step
    /\ step \in [Step -> StepStatus]
    /\ permitted \subseteq Step
    /\ jobs \subseteq Step
    /\ task \in TaskPoint
    /\ body \in {"running", "returned", "cleared"}
    /\ fresh \subseteq Step
    /\ batch \subseteq Step
    /\ pending \subseteq Step
    /\ exec_note \in ExecNote
    /\ post \in [Step -> {"none", "queued", "running"}]
    /\ req \in [Request -> FlagRequest \cup Decision \cup {NoRequest}]
    /\ boot \in {"serving", "sweeping", "relaunching"}
    /\ crashes \in 0..MaxCrashes
    /\ approvals \subseteq Step

Init ==
    /\ state = "created"
    /\ cancel_requested = FALSE
    /\ started = FALSE
    /\ completion_reason = ""
    /\ surface = {}
    /\ step = [s \in Step |-> "none"]
    /\ permitted = {}
    /\ jobs = {}
    /\ task = "idle"
    /\ body = "running"
    /\ fresh = {}
    /\ batch = {}
    /\ pending = {}
    /\ exec_note = ""
    /\ post = [s \in Step |-> "none"]
    /\ req = [r \in Request |-> NoRequest]
    /\ boot = "serving"
    /\ crashes = 0
    /\ approvals = {}

Awaiting == {s \in Step : step[s] = "awaiting_approval"}

(***************************************************************************)
(* The run registry.  A launch is ignored while the assessment is in        *)
(* _running; otherwise a new engine object starts with empty locals.        *)
(***************************************************************************)
is_running == task # "idle"

\* Mistake: no note is None, not the empty string.
ClearEngineNoNote ==
    /\ body' = "running"
    /\ fresh' = {}
    /\ batch' = {}
    /\ pending' = {}
    /\ exec_note' = "None"

ClearEngine ==
    /\ body' = "running"
    /\ fresh' = {}
    /\ batch' = {}
    /\ pending' = {}
    /\ exec_note' = ""

\* Mistake: a launch does not look into the registry.
start_assessment_again == task' = "queued" /\ ClearEngine

start_assessment ==
    IF is_running
    THEN UNCHANGED engineVars
    ELSE task' = "queued" /\ ClearEngine

(***************************************************************************)
(* The engine.  BeginRun is _set_state(AUTHORIZED); it looks at no state.   *)
(***************************************************************************)
BeginRun ==
    /\ task = "queued"
    /\ state' = "authorized"
    /\ started' = TRUE
    /\ task' = "authorized"
    /\ UNCHANGED <<cancel_requested, completion_reason, planVars, body,
                   loopVars, outside>>

\* The row goes to the next phase p, and the engine enters its body.  The
\* bodies of the last three phases only touch findings, coverage and audit.
Enter(p) ==
    /\ state' = p
    /\ task' = p
    /\ body' = IF p \in {"validating", "scoring", "reporting"} THEN "returned"
                                                              ELSE "running"
    /\ pending' = {}

\* Mistake: no look at cancel_requested after the execute phase.
InterruptibleBeforeExecution == {"discovering", "planning", "policy_check"}

\* The phases after which _run_inner looks at cancel_requested.
Interruptible == {"discovering", "planning", "policy_check", "executing"}

NextPhase ==
    [discovering  |-> "planning",
     planning     |-> "policy_check",
     policy_check |-> "executing",
     executing    |-> "validating",
     validating   |-> "scoring",
     scoring      |-> "reporting"]

\* The phase the engine is in; an inner loop belongs to its phase.
PhaseOf(t) ==
    CASE t = "awaiting"                     -> "policy_check"
      [] t \in {"streaming", "replanning"}  -> "executing"
      [] OTHER                              -> t

\* A look at cancel_requested: after the start and at a phase boundary.  The
\* next phase is entered in a later transaction, so a cancel may fall between.
AtLook ==
    \/ task = "authorized" /\ body = "running"
    \/ task \in InTry /\ body = "returned" /\ PhaseOf(task) \in Interruptible

SeeNoCancel ==
    /\ AtLook
    /\ ~cancel_requested
    /\ body' = "cleared"
    /\ UNCHANGED <<dbVars, task, loopVars, outside>>

EnterFirstPhase ==
    /\ task = "authorized"
    /\ body = "cleared"
    /\ Enter("discovering")
    /\ UNCHANGED <<cancel_requested, started, completion_reason, planVars,
                   fresh, batch, exec_note, outside>>

\* After the look, or at once where there is none.
EnterNextPhase ==
    /\ task \in InTry
    /\ \/ body = "cleared"
       \/ body = "returned" /\ PhaseOf(task) \notin Interruptible
    /\ PhaseOf(task) # "reporting"
    /\ Enter(NextPhase[PhaseOf(task)])
    /\ UNCHANGED <<cancel_requested, started, completion_reason, planVars,
                   fresh, batch, exec_note, outside>>

SeeCancel ==
    /\ AtLook
    /\ cancel_requested
    /\ task' = "cancelling"
    /\ UNCHANGED <<dbVars, body, loopVars, outside>>

\* The end of every run is a write of a terminal state.
Finish(s) ==
    /\ state' = s
    /\ task' = "ending"
    /\ ClearEngine
    /\ UNCHANGED <<cancel_requested, started, planVars, outside>>

FinishCancelled ==
    /\ task = "cancelling"
    /\ Finish("cancelled")
    /\ UNCHANGED completion_reason

\* mark_failed: the authorization is not usable, a ScopeViolation or any other
\* exception in a phase, or whatever _supervise catches, which may come from
\* the first transaction of the run, a look or the write of a cancellation.
MarkFailed ==
    /\ task \notin {"idle", "ending"}
    /\ Finish("failed")
    /\ UNCHANGED completion_reason

\* Mistake: any job row makes the run count as executed.
CompletionReasonAnyJob ==
    IF jobs = {}
    THEN IF exec_note = "" THEN "no_jobs" ELSE exec_note
    ELSE "executed"

CompletionReasonNow ==
    IF jobs = {}
    THEN IF exec_note = "" THEN "no_jobs" ELSE exec_note
    ELSE IF exec_note = "partial" THEN "partial" ELSE "executed"

Complete ==
    /\ task = "reporting"
    /\ completion_reason' = CompletionReasonNow
    /\ Finish("completed")

\* The ledger is persisted, and only then does _supervise leave _running.
LeaveRegistry ==
    /\ task = "ending"
    /\ task' = "idle"
    /\ UNCHANGED <<dbVars, body, loopVars, outside>>

(***************************************************************************)
(* Phase bodies.                                                            *)
(***************************************************************************)
\* Mistake: endpoints that already have a row are returned as well.
Rediscovered(found) == found

\* Only endpoints that had no row yet are saved, and returned to the run.
NewlySaved(found) == found \ surface

Discover ==
    /\ task = "discovering"
    /\ body = "running"
    /\ \E found \in SUBSET Step :
          /\ fresh' = NewlySaved(found)
          /\ surface' = surface \cup found
    /\ body' = "returned"
    /\ UNCHANGED <<lifeVars, step, permitted, jobs, task, batch, pending,
                   exec_note, outside>>

\* Which checks apply to an endpoint is left open.
Plan ==
    /\ task = "planning"
    /\ body = "running"
    /\ \E planned \in SUBSET fresh :
          /\ fresh' = planned
          /\ step' = [s \in Step |-> IF s \in planned THEN "planned" ELSE step[s]]
    /\ body' = "returned"
    /\ UNCHANGED <<lifeVars, surface, permitted, jobs, task, batch, pending,
                   exec_note, outside>>

\* Steps without a check are skipped, those the record forbids denied; of the
\* permitted ones those that need approval are held and the others approved.
EvaluatePolicy ==
    /\ task = "policy_check"
    /\ body = "running"
    /\ \E skipped \in SUBSET fresh : \E denied \in SUBSET (fresh \ skipped) :
          LET allowed == fresh \ (skipped \cup denied)
              held    == allowed \cap NeedsApproval
          IN /\ step' = [s \in Step |->
                            IF s \in skipped THEN "skipped"
                            ELSE IF s \in denied THEN "denied"
                            ELSE IF s \in held THEN "awaiting_approval"
                            ELSE IF s \in allowed THEN "approved"
                            ELSE step[s]]
             /\ permitted' = permitted \cup allowed
             /\ batch' = allowed \ held
             /\ pending' = held
             /\ body' = IF held = {} THEN "returned" ELSE "running"
             /\ task' = IF held = {} THEN "policy_check" ELSE "awaiting"
    /\ fresh' = {}
    /\ UNCHANGED <<lifeVars, surface, jobs, exec_note, outside>>

\* Mistake: whatever nobody denied counts as approved.
PollUndenied ==
    /\ batch' = batch \cup {s \in pending : step[s] # "denied"}
    /\ pending' = {}

\* Mistake: the rows are not read again, and no decision is ever seen.
PollStaleRows == UNCHANGED <<batch, pending>>

\* One round of _await_step_approvals: what was decided leaves `pending`.
PollHeldSteps ==
    /\ batch' = batch \cup {s \in pending : step[s] = "approved"}
    /\ pending' = {s \in pending :
                     step[s] \notin {"approved", "denied", "skipped"}}

PollApprovals ==
    /\ task = "awaiting"
    /\ body = "running"
    /\ PollHeldSteps
    /\ pending' # {}
    /\ ~cancel_requested
    /\ UNCHANGED <<dbVars, task, body, fresh, exec_note, outside>>

\* Mistake: the wait has no budget of its own.
WaitForAll ==
    /\ task = "awaiting"
    /\ body = "running"
    /\ PollHeldSteps
    /\ pending' = {}
    /\ body' = "returned"
    /\ UNCHANGED <<dbVars, task, fresh, exec_note, outside>>

\* The last round: nothing is pending, the wait budget is spent, or the run
\* is being cancelled.  The budget is finite, so this round always comes.
LeaveApprovalWait ==
    /\ task = "awaiting"
    /\ body = "running"
    /\ PollHeldSteps
    /\ body' = "returned"
    /\ UNCHANGED <<dbVars, task, fresh, exec_note, outside>>

\* _phase_execute up to the agent pool: there is nothing to run, or the
\* coordinator elects to stop, or one agent per step is started.
SkipExecution ==
    /\ task = "executing"
    /\ body = "running"
    /\ exec_note' = IF batch = {} THEN "no_approved_steps"
                                 ELSE "coordinator_stop"
    /\ body' = "returned"
    /\ UNCHANGED <<dbVars, task, fresh, batch, pending, outside>>

StartAgents ==
    /\ task = "executing"
    /\ body = "running"
    /\ batch # {}
    /\ task' = "streaming"
    /\ pending' = batch
    /\ UNCHANGED <<dbVars, body, fresh, batch, exec_note, outside>>

\* _persist_agent_result: a job row, and the step done or errored.  The look
\* at cancel_requested before it and this write count as one action: a cancel
\* in between is one that came after the write.
PersistResult(s) ==
    /\ jobs' = jobs \cup {s}
    /\ \E outcome \in {"done", "errored"} : step' = [step EXCEPT ![s] = outcome]

StreamResult(s) ==
    /\ task \in {"streaming", "replanning"}
    /\ body = "running"
    /\ s \in pending
    /\ ~cancel_requested
    /\ PersistResult(s)
    /\ pending' = pending \ {s}
    /\ UNCHANGED <<lifeVars, surface, permitted, task, body, fresh, batch,
                   exec_note, outside>>

\* A result arrives after a cancel, past the deadline or from an unhealthy
\* target: it and all later ones are dropped, and their steps stay as they are.
StopStreaming ==
    /\ task = "streaming"
    /\ body = "running"
    /\ pending # {}
    /\ cancel_requested \/ MayStop
    /\ exec_note' = "partial"
    /\ pending' = {}
    /\ body' = "returned"
    /\ UNCHANGED <<dbVars, task, fresh, batch, outside>>

\* The bounded retries: every round may turn an errored step into a done one.
\* The first round looks at cancel_requested as soon as the last result is in,
\* which was taken without a cancel; one that comes later finds a round begun.
RetryErrored(s) ==
    /\ task = "streaming"
    /\ body = "running"
    /\ pending = {}
    /\ s \in batch
    /\ step[s] = "errored"
    /\ step' = [step EXCEPT ![s] = "done"]
    /\ UNCHANGED <<lifeVars, surface, permitted, jobs, engineVars, outside>>

\* Pairs of a known endpoint and a built-in check without a finished step.  No
\* built-in check needs approval, which _maybe_replan does not ask about.  What
\* the policy denied or found no check for, it would deny or miss again.
CoverageGaps ==
    {s \in surface \ NeedsApproval : step[s] \notin {"done", "denied", "skipped"}}

\* One replanning pass, the configured default, over a batch of the gaps.  The
\* status of a pair is that of its newest plan_steps row: a pair that errored
\* keeps its old row beside the new one, and nobody executes that one again.
Replan ==
    /\ task = "streaming"
    /\ body = "running"
    /\ pending = {}
    /\ ~cancel_requested
    /\ \E gap \in (SUBSET CoverageGaps) \ {{}} :
          /\ step' = [s \in Step |-> IF s \in gap THEN "approved" ELSE step[s]]
          /\ permitted' = permitted \cup gap
          /\ pending' = gap
    /\ task' = "replanning"
    /\ UNCHANGED <<lifeVars, surface, jobs, body, fresh, batch, exec_note,
                   outside>>

\* A replanning pass that is stopped drops its results without a note.
StopReplan ==
    /\ task = "replanning"
    /\ body = "running"
    /\ pending # {}
    /\ cancel_requested \/ MayStop
    /\ pending' = {}
    /\ body' = "returned"
    /\ UNCHANGED <<dbVars, task, fresh, batch, exec_note, outside>>

FinishExecute ==
    /\ task \in {"streaming", "replanning"}
    /\ body = "running"
    /\ pending = {}
    /\ body' = "returned"
    /\ UNCHANGED <<dbVars, task, loopVars, outside>>

Engine ==
    \/ BeginRun
    \/ SeeNoCancel
    \/ SeeCancel
    \/ EnterFirstPhase
    \/ EnterNextPhase
    \/ FinishCancelled
    \/ Complete
    \/ LeaveRegistry
    \/ Discover
    \/ Plan
    \/ EvaluatePolicy
    \/ LeaveApprovalWait
    \/ SkipExecution
    \/ StartAgents
    \/ \E s \in Step : StreamResult(s)
    \/ StopStreaming
    \/ StopReplan
    \/ FinishExecute

(***************************************************************************)
(* Steps approved after the run finished: start_approved_steps and          *)
(* execute_approved_steps, one task per step.                               *)
(***************************************************************************)
start_approved_steps(s) ==
    post' = IF post[s] = "none" THEN [post EXCEPT ![s] = "queued"] ELSE post

EndApprovedStep(s) == post' = [post EXCEPT ![s] = "none"]

\* The step is no longer approved.
DropStaleStep(s) ==
    /\ post[s] = "queued"
    /\ step[s] # "approved"
    /\ EndApprovedStep(s)
    /\ UNCHANGED <<dbVars, engineVars, req, hostVars, approvals>>

\* The authorization record is no longer usable.
SkipApprovedStep(s) ==
    /\ post[s] = "queued"
    /\ step[s] = "approved"
    /\ step' = [step EXCEPT ![s] = "skipped"]
    /\ EndApprovedStep(s)
    /\ UNCHANGED <<lifeVars, surface, permitted, jobs, engineVars, req,
                   hostVars, approvals>>

RunApprovedStep(s) ==
    /\ post[s] = "queued"
    /\ step[s] = "approved"
    /\ post' = [post EXCEPT ![s] = "running"]
    /\ UNCHANGED <<dbVars, engineVars, req, hostVars, approvals>>

\* The result is recorded; validation and scoring follow before the task ends.
RecordApprovedStep(s) ==
    /\ post[s] = "running"
    /\ ~cancel_requested
    /\ PersistResult(s)
    /\ EndApprovedStep(s)
    /\ UNCHANGED <<lifeVars, surface, permitted, engineVars, req, hostVars,
                   approvals>>

\* _execute_step_batch breaks out of its loop and the result is dropped.
AbandonApprovedStep(s) ==
    /\ post[s] = "running"
    /\ cancel_requested \/ MayStop
    /\ EndApprovedStep(s)
    /\ UNCHANGED <<dbVars, engineVars, req, hostVars, approvals>>

ApprovedStep(s) ==
    \/ DropStaleStep(s)
    \/ SkipApprovedStep(s)
    \/ RunApprovedStep(s)
    \/ RecordApprovedStep(s)
    \/ AbandonApprovedStep(s)

(***************************************************************************)
(* Operator requests.  Each loads its rows, checks them, and later commits  *)
(* on the strength of what it loaded.  SQLAlchemy writes only the columns   *)
(* whose value differs from the loaded one.                                 *)
(***************************************************************************)
Load(r, loaded) ==
    /\ boot = "serving"
    /\ req[r] = NoRequest
    /\ req' = [req EXCEPT ![r] = loaded]
    /\ UNCHANGED <<dbVars, engineVars, post, hostVars, approvals>>

LoadStart(r) ==
    /\ state \in {"created", "failed"}
    /\ Load(r, [op |-> "start", cancel |-> cancel_requested])

LoadCancel(r) ==
    /\ state \notin TerminalStates
    /\ \E op \in {"cancel", "cancel_all"} :
          Load(r, [op |-> op, cancel |-> cancel_requested])

LoadHeldStep(r) ==
    \E s \in Awaiting : \E op \in {"approve", "deny"} :
        Load(r, [op |-> op, step |-> s, state |-> state])

Respond(r) == req' = [req EXCEPT ![r] = NoRequest]

CommitStart(r) ==
    /\ req[r].op = "start"
    /\ cancel_requested' = IF req[r].cancel THEN FALSE ELSE cancel_requested
    /\ start_assessment
    /\ Respond(r)
    /\ UNCHANGED <<state, started, completion_reason, planVars, post, hostVars,
                   approvals>>

\* The chat command checks the state and launches with no await in between;
\* it leaves cancel_requested as it is.
ChatStart ==
    /\ boot = "serving"
    /\ state \in {"created", "failed"}
    /\ start_assessment
    /\ UNCHANGED <<dbVars, outside>>

RequestCancel(r) ==
    cancel_requested' = IF req[r].cancel THEN cancel_requested ELSE TRUE

CommitCancelAll(r) ==
    /\ req[r].op = "cancel_all"
    /\ RequestCancel(r)
    /\ Respond(r)
    /\ UNCHANGED <<state, started, completion_reason, planVars, engineVars,
                   post, hostVars, approvals>>

\* Mistake: a cancel finalizes the run whether or not it has a live task.
CancelledAlways == "cancelled"

\* With no live task nothing would honour the flag, so the run is finalized.
CancelledState == IF is_running THEN state ELSE "cancelled"

CommitCancel(r) ==
    /\ req[r].op = "cancel"
    /\ RequestCancel(r)
    /\ state' = CancelledState
    /\ Respond(r)
    /\ UNCHANGED <<started, completion_reason, planVars, engineVars, post,
                   hostVars, approvals>>

\* The loaded state decides, and nothing else may be held: what the handlers do
\* after their commit, up to the launch, counts as part of it.
resume_if_parked(r) ==
    IF /\ req[r].state = "policy_check"
       /\ Awaiting \ {req[r].step} = {}
    THEN start_assessment
    ELSE UNCHANGED engineVars

CommitApprove(r) ==
    /\ req[r].op = "approve"
    /\ step' = [step EXCEPT ![req[r].step] = "approved"]
    /\ approvals' = approvals \cup {req[r].step}
    /\ IF req[r].state \in TerminalStates
       THEN start_approved_steps(req[r].step) /\ UNCHANGED engineVars
       ELSE resume_if_parked(r) /\ UNCHANGED post
    /\ Respond(r)
    /\ UNCHANGED <<lifeVars, surface, permitted, jobs, hostVars>>

CommitDeny(r) ==
    /\ req[r].op = "deny"
    /\ step' = [step EXCEPT ![req[r].step] = "denied"]
    /\ resume_if_parked(r)
    /\ Respond(r)
    /\ UNCHANGED <<lifeVars, surface, permitted, jobs, post, hostVars,
                   approvals>>

Operator ==
    \/ ChatStart
    \/ \E r \in Request :
          \/ LoadStart(r)
          \/ LoadCancel(r)
          \/ LoadHeldStep(r)

Commit(r) ==
    \/ CommitStart(r)
    \/ CommitCancelAll(r)
    \/ CommitCancel(r)
    \/ CommitApprove(r)
    \/ CommitDeny(r)

(***************************************************************************)
(* A crash loses every coroutine.  The start-up sweep then runs before the  *)
(* process serves requests: a started run that is not terminal loses its    *)
(* rows and is launched again.                                              *)
(***************************************************************************)
Crash ==
    /\ crashes < MaxCrashes
    /\ crashes' = crashes + 1
    /\ boot' = "sweeping"
    /\ task' = "idle"
    /\ ClearEngine
    /\ post' = [s \in Step |-> "none"]
    /\ req' = [r \in Request |-> NoRequest]
    /\ UNCHANGED <<dbVars, approvals>>

\* Mistake: the sweep overlooks a run that was between start and discovery.
InterruptedInPhase == state \in Phases /\ started

Interrupted == state \notin TerminalStates /\ started

SweepReset ==
    /\ boot = "sweeping"
    /\ Interrupted
    /\ boot' = "relaunching"
    /\ state' = "created"
    /\ cancel_requested' = FALSE
    /\ surface' = {}
    /\ step' = [s \in Step |-> "none"]
    /\ permitted' = {}
    /\ jobs' = {}
    /\ approvals' = {}
    /\ UNCHANGED <<started, completion_reason, engineVars, post, req, crashes>>

SweepLaunch ==
    /\ boot = "relaunching"
    /\ boot' = "serving"
    /\ start_assessment
    /\ UNCHANGED <<dbVars, post, req, crashes, approvals>>

SweepNothing ==
    /\ boot = "sweeping"
    /\ ~Interrupted
    /\ boot' = "serving"
    /\ UNCHANGED <<dbVars, engineVars, post, req, crashes, approvals>>

Host == SweepReset \/ SweepLaunch \/ SweepNothing

Next ==
    \/ Engine
    \/ MarkFailed
    \/ PollApprovals
    \/ Replan
    \/ \E s \in Step : RetryErrored(s) \/ ApprovedStep(s)
    \/ Operator
    \/ \E r \in Request : Commit(r)
    \/ Crash
    \/ Host

Spec == Init /\ [][Next]_vars

(***************************************************************************)
(* The event loop runs every ready coroutine: the engine, the tasks of      *)
(* approved steps, a handler that has loaded its rows and the sweep all go  *)
(* on.  Agents, waits and retries are bounded by timeouts and counts, so    *)
(* the loops of Engine end; nobody has to send a request, fail or crash.    *)
(***************************************************************************)
Fairness ==
    /\ WF_vars(Engine)
    /\ \A s \in Step : WF_vars(ApprovedStep(s))
    /\ \A r \in Request : WF_vars(Commit(r))
    /\ WF_vars(Host)

FairSpec == Spec /\ Fairness

(***************************************************************************)
(* Properties.                                                              *)
(***************************************************************************)
\* While the engine is in a phase the row says so: the phases decide what the
\* other handlers may do, so no handler may move the state under a live run.
EngineOwnsState ==
    /\ task = "authorized" => state = "authorized"
    /\ task \in InTry => state = PhaseOf(task)
    /\ task = "cancelling" => state \in {"authorized"} \cup Interruptible
    /\ task = "ending" => state \in TerminalStates

\* An assessment in an active state has a coroutine that will finish it, or
\* the process is in the sweep that will launch one: no run is left behind.
ActiveHasDriver ==
    boot # "sweeping" /\ state \in ActiveStates => is_running

\* The steps handed to the agents, by the plan, by a replanning pass or after
\* the run, and those that were.
HandedToAgents ==
    batch \cup jobs \cup {s \in Step : post[s] # "none"}
        \cup (IF task = "replanning" THEN pending ELSE {})

\* The gate in front of every check that runs or has run: the policy
\* permitted it, and if it changes state or is invasive an operator approved
\* it.  Racing decisions, the approval wait, late approvals and replanning all
\* pass it.
PolicyGate ==
    \A s \in HandedToAgents :
        /\ s \in permitted
        /\ s \in NeedsApproval => s \in approvals

\* The run and a background task never execute the same step: a late approval
\* acts on a stale view of the state, and the run may have been launched again.
ExclusiveExecution ==
    \A s \in Step : post[s] # "none" => s \notin fresh \cup batch \cup pending

\* A run that dropped the result of a step of its plan does not complete as
\* "executed", whatever made it stop and whatever else was recorded.  (Those of
\* a replanning pass may be dropped without a word.)
DroppedResultsAreReported ==
    [][(/\ state # "completed" /\ state' = "completed"
        /\ completion_reason' = "executed" /\ exec_note # "coordinator_stop")
       => batch \subseteq jobs]_vars

\* The driver of Assessment, as the run registry and the engine show it.
Driver ==
    CASE task = "idle"   -> "none"
      [] task = "queued" -> "launched"
      [] task = "ending" -> "done"
      [] OTHER           -> "driving"

A == INSTANCE Assessment WITH driver <- Driver

\* With its operators, crashes and late approvals, the engine still shows the
\* life of one assessment that Assessment describes.
ImplementsAssessment == A!Spec

\* Every launched run leaves the registry: no phase waits for an operator.
RunEnds == is_running ~> ~is_running

\* The run has still to look at cancel_requested after its execute phase.
LookAhead ==
    \/ task = "authorized"
    \/ /\ task \in InTry
       /\ PhaseOf(task) \in {"discovering", "planning", "policy_check", "executing"}
       /\ PhaseOf(task) = "executing" => body # "cleared"

\* A cancel requested before the last look stops the run before it completes,
\* unless a start or a restart takes the request back.
EarlyCancelStops ==
    (cancel_requested /\ LookAhead)
        ~> (state \in {"cancelled", "failed"} \/ ~cancel_requested)

\* An approval that arrives while the run still polls for it reaches the execute
\* phase, unless a racing denial, a cancel, a failure or a restart overtakes it.
AwaitedApprovalIsTaken ==
    \A s \in Step :
        (task = "awaiting" /\ body = "running" /\ s \in pending /\ step[s] = "approved")
            ~> (s \in batch \/ step[s] # "approved" \/ state \in {"cancelled", "failed"})

\* The claim of orchestration/engine.py:10 that cancellation is honored between
\* phases: a cancel requested while two phase boundaries are still ahead, so
\* that it cannot fall behind the last look, stops the run before it completes.
CancelHonored ==
    (cancel_requested /\ state \in Phases \ {"scoring", "reporting"})
        ~> (state \in {"cancelled", "failed"} \/ ~cancel_requested)

Quiescent ==
    /\ boot = "serving"
    /\ ~is_running
    /\ \A s \in Step : post[s] = "none"
    /\ \A r \in Request : req[r] = NoRequest

\* The claim of the approve handler that an approval is picked up by the run or
\* executed in the background: none is left over once everything is at rest.
ApprovalNotStranded ==
    Quiescent /\ state = "completed" => \A s \in approvals : step[s] # "approved"
=============================================================================
