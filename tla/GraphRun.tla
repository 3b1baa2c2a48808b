------------------------------- MODULE GraphRun -------------------------------
(***************************************************************************)
(* One assessment under the graph workflow of orchestration/graph.py, which *)
(* replaces the inline engine when use_langgraph is set: the nodes of the   *)
(* workflow, its durable thread, the task that drives it, the operator      *)
(* requests that race with it, and the start-up sweep that continues it.    *)
(*                                                                          *)
(* Two stores survive a crash, the rows of the assessment and the thread of *)
(* the checkpointer, and they are written one after the other.  The thread  *)
(* is LangGraph's: it names the node to run next, which is checkpointed     *)
(* before that node starts, and whether an interrupt() is unanswered.       *)
(*                                                                          *)
(* The bodies of discovery, validation, scoring and reporting touch nothing *)
(* that is modelled here.                                                   *)
(***************************************************************************)
EXTENDS Naturals, FiniteSets

CONSTANTS
    Step,           \* rows of the plan, used or not yet
    NeedsApproval,  \* those whose check changes state or is invasive
    Request,        \* operator requests that can be in flight together
    MaxCrashes      \* bound on process crashes

ASSUME GraphAssumption ==
    /\ NeedsApproval \subseteq Step
    /\ MaxCrashes \in Nat

VARIABLES
    \* the rows
    state,             \* assessments.state
    cancel_requested,  \* assessments.cancel_requested
    started,           \* assessments.started_at is not null
    step,              \* plan_steps.status, "none" while there is no row
    \* the thread
    next,              \* the node to run next, "none" for no or an ended thread
    parked,            \* the interrupt of the policy node is unanswered
    \* the process
    task,              \* where run_via_langgraph stands; "idle" when not running
    answered,          \* the task was resumed with an answer to the interrupt
    batch,             \* rows that node_execute has handed to the agents
    late,              \* rows handed to start_approved_steps
    req,               \* operator requests in flight, with what they loaded
    boot,              \* the process: serving, or in the start-up sweep
    crashes,           \* crashes so far
    approvals          \* history: rows some operator approved

rows   == <<state, cancel_requested, started, step>>
thread == <<next, parked>>
driver == <<task, answered, batch>>
rest   == <<late, req, boot, crashes, approvals>>
vars == <<rows, thread, driver, rest>>

TerminalStates == {"completed", "failed", "cancelled"}

StateOf ==
    [authorize |-> "authorized",
     discover  |-> "discovering",
     plan      |-> "planning",
     policy    |-> "policy_check",
     execute   |-> "executing",
     validate  |-> "validating",
     score     |-> "scoring",
     report    |-> "reporting"]

Node == DOMAIN StateOf

\* The edges of the graph; a node that failed or saw a cancel goes to END.
After ==
    [authorize |-> "discover",
     discover  |-> "plan",
     plan      |-> "policy",
     policy    |-> "execute",
     execute   |-> "validate",
     validate  |-> "score",
     score     |-> "report",
     report    |-> "none"]

ActiveStates == {StateOf[n] : n \in Node}

AssessmentState == {"created"} \cup ActiveStates \cup TerminalStates

StepStatus == {"none", "planned", "skipped", "denied", "awaiting_approval",
               "approved", "done", "errored"}

FlagRequest == [op: {"start", "cancel", "cancel_all"}, cancel: BOOLEAN]

Decision == [op: {"approve", "deny", "resume"}, step: Step, state: AssessmentState]

NoRequest == [op |-> "none"]

TypeOK ==
    /\ state \in AssessmentState
    /\ cancel_requested \in BOOLEAN
    /\ started \in BOOLEAN
    /\ step \in [Step -> StepStatus]
    /\ next \in Node \cup {"none"}
    /\ parked \in BOOLEAN
    /\ task \in {"idle", "launched", "guarding", "entering", "working", "deciding",
                 "executing", "replanning", "leaving", "failing", "cancelling",
                 "ending"}
    /\ answered \in BOOLEAN
    /\ batch \subseteq Step
    /\ late \subseteq Step
    /\ req \in [Request -> FlagRequest \cup Decision \cup {NoRequest}]
    /\ boot \in {"serving", "sweeping", "relaunching"}
    /\ crashes \in 0..MaxCrashes
    /\ approvals \subseteq Step

Init ==
    /\ state = "created"
    /\ cancel_requested = FALSE
    /\ started = FALSE
    /\ step = [s \in Step |-> "none"]
    /\ next = "none"
    /\ parked = FALSE
    /\ task = "idle"
    /\ answered = FALSE
    /\ batch = {}
    /\ late = {}
    /\ req = [r \in Request |-> NoRequest]
    /\ boot = "serving"
    /\ crashes = 0
    /\ approvals = {}

With(status) == {s \in Step : step[s] = status}

held_step_ids == With("awaiting_approval")

is_running == task # "idle"

start_assessment == task' = IF is_running THEN task ELSE "launched"

(***************************************************************************)
(* The task.  An unfinished thread is continued from its pending node, with *)
(* an answer if it waits for one; otherwise a fresh one is begun.           *)
(***************************************************************************)
\* Mistake: the thread is not inspected, and every launch begins a fresh one.
RunAfresh ==
    /\ task = "launched"
    /\ task' = "guarding"
    /\ next' = "authorize"
    /\ answered' = FALSE
    /\ parked' = FALSE
    /\ UNCHANGED <<rows, batch, rest>>

run_via_langgraph ==
    /\ task = "launched"
    /\ task' = "guarding"
    /\ next' = IF next = "none" THEN "authorize" ELSE next
    /\ answered' = parked
    /\ UNCHANGED <<rows, parked, batch, rest>>

\* Where the thread stands once a node has returned.
Checkpoint(node) ==
    /\ next' = node
    /\ parked' = FALSE
    /\ answered' = FALSE

\* Mistake: the flag is looked at when the run begins, and not again.
GuardOnce ==
    /\ task = "guarding"
    /\ IF cancel_requested /\ next = "authorize"
       THEN task' = "cancelling" /\ Checkpoint("none")
       ELSE task' = "entering" /\ UNCHANGED <<thread, answered>>
    /\ UNCHANGED <<rows, batch, rest>>

_guard_cancel ==
    /\ task = "guarding"
    /\ IF cancel_requested
       THEN task' = "cancelling" /\ Checkpoint("none")
       ELSE task' = "entering" /\ UNCHANGED <<thread, answered>>
    /\ UNCHANGED <<rows, batch, rest>>

\* Mistake: the row gets the name of the node.
EnterByName ==
    /\ task = "entering"
    /\ state' = next
    /\ started' = (started \/ next = "authorize")
    /\ task' = "working"
    /\ UNCHANGED <<cancel_requested, step, thread, answered, batch, rest>>

\* Every node begins with _set_state.
EnterNode ==
    /\ task = "entering"
    /\ state' = StateOf[next]
    /\ started' = (started \/ next = "authorize")
    /\ task' = "working"
    /\ UNCHANGED <<cancel_requested, step, thread, answered, batch, rest>>

\* The record is not usable: the thread ends, and no row is written.
RefuseAuthorization ==
    /\ task = "working"
    /\ next = "authorize"
    /\ Checkpoint("none")
    /\ task' = "ending"
    /\ UNCHANGED <<rows, batch, rest>>

PassThrough ==
    /\ task = "working"
    /\ next \in {"authorize", "discover", "validate", "score"}
    /\ task' = "leaving"
    /\ UNCHANGED <<rows, thread, answered, batch, rest>>

\* All the saved endpoints are planned for, each time the node runs.
node_plan ==
    /\ task = "working"
    /\ next = "plan"
    /\ \E planned \in SUBSET With("none") :
          step' = [s \in Step |-> IF s \in planned THEN "planned" ELSE step[s]]
    /\ task' = "leaving"
    /\ UNCHANGED <<state, cancel_requested, started, thread, answered, batch, rest>>

node_policy ==
    /\ task = "working"
    /\ next = "policy"
    /\ \E skipped \in SUBSET With("planned") :
       \E denied \in SUBSET (With("planned") \ skipped) :
          step' = [s \in Step |->
                      IF step[s] # "planned" THEN step[s]
                      ELSE IF s \in skipped THEN "skipped"
                      ELSE IF s \in denied THEN "denied"
                      ELSE IF s \in NeedsApproval THEN "awaiting_approval"
                      ELSE "approved"]
    /\ task' = "deciding"
    /\ UNCHANGED <<state, cancel_requested, started, thread, answered, batch, rest>>

\* Mistake: the node polls for the decisions, as the inline engine does, and
\* without its timeout.
PollHeld ==
    /\ task = "deciding"
    /\ held_step_ids # {}
    /\ ~answered
    /\ UNCHANGED vars

\* interrupt() raises and parks the thread, unless the task brought an answer:
\* then it returns.
Park ==
    /\ task = "deciding"
    /\ held_step_ids # {}
    /\ ~answered
    /\ parked' = TRUE
    /\ task' = "ending"
    /\ UNCHANGED <<rows, next, answered, batch, rest>>

Proceed ==
    /\ task = "deciding"
    /\ held_step_ids = {} \/ answered
    /\ task' = "leaving"
    /\ UNCHANGED <<rows, thread, answered, batch, rest>>

\* Mistake: whatever nobody denied is executed.
LoadUndenied ==
    /\ task = "working"
    /\ next = "execute"
    /\ batch' = With("approved") \cup With("awaiting_approval")
    /\ task' = "executing"
    /\ UNCHANGED <<rows, thread, answered, rest>>

\* node_execute takes the approved rows, also those that an earlier attempt at
\* the node has left; without any it is done.
LoadApproved ==
    /\ task = "working"
    /\ next = "execute"
    /\ batch' = With("approved")
    /\ task' = IF batch' = {} THEN "leaving" ELSE "executing"
    /\ UNCHANGED <<rows, thread, answered, rest>>

\* The result of an agent, retries included.
StreamResult(s) ==
    /\ task \in {"executing", "replanning"}
    /\ s \in batch
    /\ ~cancel_requested
    /\ \E outcome \in {"done", "errored"} : step' = [step EXCEPT ![s] = outcome]
    /\ batch' = batch \ {s}
    /\ UNCHANGED <<state, cancel_requested, started, thread, task, answered, rest>>

\* One replanning pass, over pairs of an endpoint and a built-in check without
\* a finished row; no built-in check needs approval.
Replan ==
    /\ task = "executing"
    /\ batch = {}
    /\ ~cancel_requested
    /\ \E gap \in SUBSET (Step \ NeedsApproval) :
          /\ gap # {}
          /\ \A s \in gap : step[s] \notin {"done", "denied", "skipped"}
          /\ step' = [s \in Step |-> IF s \in gap THEN "approved" ELSE step[s]]
          /\ batch' = gap
    /\ task' = "replanning"
    /\ UNCHANGED <<state, cancel_requested, started, thread, answered, rest>>

\* All results are in, or a cancel, the deadline, the target's health or the
\* coordinator made the engine drop the rest.
FinishExecute ==
    /\ task \in {"executing", "replanning"}
    /\ batch' = {}
    /\ task' = "leaving"
    /\ UNCHANGED <<rows, thread, answered, rest>>

node_report ==
    /\ task = "working"
    /\ next = "report"
    /\ state' = "completed"
    /\ task' = "leaving"
    /\ UNCHANGED <<cancel_requested, started, step, thread, answered, batch, rest>>

\* The result of the node is checkpointed, and the next one begins.
LeaveNode ==
    /\ task = "leaving"
    /\ Checkpoint(After[next])
    /\ task' = IF After[next] = "none" THEN "ending" ELSE "guarding"
    /\ UNCHANGED <<rows, batch, rest>>

\* A node that raises: the row first, then the thread.
MarkFailed ==
    /\ task \in {"entering", "working", "deciding", "executing", "replanning"}
    /\ state' = "failed"
    /\ task' = "failing"
    /\ batch' = {}
    /\ UNCHANGED <<cancel_requested, started, step, thread, answered, rest>>

EndFailed ==
    /\ task = "failing"
    /\ Checkpoint("none")
    /\ task' = "ending"
    /\ UNCHANGED <<rows, batch, rest>>

\* What raises outside the body of a node, the checkpointer above all:
\* _supervise marks the run, and the thread stays as it is.
CheckpointerFails ==
    /\ task \in {"launched", "guarding", "leaving", "failing", "cancelling"}
    /\ state' = "failed"
    /\ task' = "ending"
    /\ answered' = FALSE
    /\ UNCHANGED <<cancel_requested, started, step, thread, batch, rest>>

\* Mistake: the end of the thread is taken for the end of the run.
ReturnCancelled ==
    /\ task = "cancelling"
    /\ task' = "ending"
    /\ UNCHANGED <<rows, thread, answered, batch, rest>>

_finish_cancelled ==
    /\ task = "cancelling"
    /\ state' = "cancelled"
    /\ task' = "ending"
    /\ UNCHANGED <<cancel_requested, started, step, thread, answered, batch, rest>>

LeaveRegistry ==
    /\ task = "ending"
    /\ task' = "idle"
    /\ UNCHANGED <<rows, thread, answered, batch, rest>>

Engine ==
    \/ run_via_langgraph
    \/ _guard_cancel
    \/ EnterNode
    \/ PassThrough
    \/ node_plan
    \/ node_policy
    \/ Park
    \/ Proceed
    \/ LoadApproved
    \/ \E s \in Step : StreamResult(s)
    \/ FinishExecute
    \/ node_report
    \/ LeaveNode
    \/ EndFailed
    \/ _finish_cancelled
    \/ LeaveRegistry

Mishap ==
    \/ RefuseAuthorization
    \/ MarkFailed
    \/ CheckpointerFails

(***************************************************************************)
(* Rows approved when the loaded state was terminal: one background task    *)
(* each, with a client of its own.                                          *)
(***************************************************************************)
EndApprovedStep(s) ==
    /\ s \in late
    /\ late' = late \ {s}
    /\ \/ UNCHANGED step
       \/ /\ step[s] = "approved"
          /\ \E outcome \in {"done", "errored", "skipped"} :
                step' = [step EXCEPT ![s] = outcome]
    /\ UNCHANGED <<state, cancel_requested, started, thread, driver, req, boot,
                   crashes, approvals>>

(***************************************************************************)
(* Operator requests, which act on what they loaded.                        *)
(***************************************************************************)
Load(r, loaded) ==
    /\ boot = "serving"
    /\ req[r] = NoRequest
    /\ req' = [req EXCEPT ![r] = loaded]
    /\ UNCHANGED <<rows, thread, driver, late, boot, crashes, approvals>>

LoadStart(r) ==
    /\ state \in {"created", "failed"}
    /\ Load(r, [op |-> "start", cancel |-> cancel_requested])

LoadCancel(r) ==
    /\ state \notin TerminalStates
    /\ \E op \in {"cancel", "cancel_all"} :
          Load(r, [op |-> op, cancel |-> cancel_requested])

LoadHeldStep(r) ==
    \E s \in held_step_ids : \E op \in {"approve", "deny"} :
        Load(r, [op |-> op, step |-> s, state |-> state])

Respond(r) == req' = [req EXCEPT ![r] = NoRequest]

CommitStart(r) ==
    /\ req[r].op = "start"
    /\ cancel_requested' = (cancel_requested /\ ~req[r].cancel)
    /\ start_assessment
    /\ Respond(r)
    /\ UNCHANGED <<state, started, step, thread, answered, batch, late, boot,
                   crashes, approvals>>

ChatStart ==
    /\ boot = "serving"
    /\ state \in {"created", "failed"}
    /\ ~is_running
    /\ start_assessment
    /\ UNCHANGED <<rows, thread, answered, batch, rest>>

\* Without a live task the run is finalized; cancel_all only sets the flag.
CommitCancel(r) ==
    /\ req[r].op \in {"cancel", "cancel_all"}
    /\ cancel_requested' = (cancel_requested \/ ~req[r].cancel)
    /\ state' = IF req[r].op = "cancel" /\ ~is_running THEN "cancelled" ELSE state
    /\ Respond(r)
    /\ UNCHANGED <<started, step, thread, driver, late, boot, crashes, approvals>>

\* What is left of a decision after its commit: resuming a parked run.
LeaveResume(r) == req' = [req EXCEPT ![r].op = "resume"]

CommitApprove(r) ==
    /\ req[r].op = "approve"
    /\ step' = [step EXCEPT ![req[r].step] = "approved"]
    /\ approvals' = approvals \cup {req[r].step}
    /\ IF req[r].state \in TerminalStates
       THEN late' = late \cup {req[r].step} /\ Respond(r)
       ELSE LeaveResume(r) /\ UNCHANGED late
    /\ UNCHANGED <<state, cancel_requested, started, thread, driver, boot, crashes>>

CommitDeny(r) ==
    /\ req[r].op = "deny"
    /\ step' = [step EXCEPT ![req[r].step] = "denied"]
    /\ LeaveResume(r)
    /\ UNCHANGED <<state, cancel_requested, started, thread, driver, late, boot,
                   crashes, approvals>>

\* The registry, the loaded state and the rows still held, looked at after the
\* decision has been committed.
_resume_if_parked(r) ==
    /\ req[r].op = "resume"
    /\ IF req[r].state = "policy_check" /\ held_step_ids = {}
       THEN start_assessment
       ELSE UNCHANGED task
    /\ Respond(r)
    /\ UNCHANGED <<rows, thread, answered, batch, late, boot, crashes, approvals>>

Operator ==
    \/ ChatStart
    \/ \E r \in Request : LoadStart(r) \/ LoadCancel(r) \/ LoadHeldStep(r)

Commit(r) ==
    \/ CommitStart(r)
    \/ CommitCancel(r)
    \/ CommitApprove(r)
    \/ CommitDeny(r)
    \/ _resume_if_parked(r)

(***************************************************************************)
(* A crash loses the task and the requests.  The sweep continues a thread   *)
(* that has a pending node; without one the rows are reset.                 *)
(***************************************************************************)
Crash ==
    /\ crashes < MaxCrashes
    /\ crashes' = crashes + 1
    /\ boot' = "sweeping"
    /\ task' = "idle"
    /\ answered' = FALSE
    /\ batch' = {}
    /\ late' = {}
    /\ req' = [r \in Request |-> NoRequest]
    /\ UNCHANGED <<rows, thread, approvals>>

Interrupted == state \notin TerminalStates /\ started

\* Mistake: the sweep does not ask the checkpointer.
NoPendingNodes == FALSE

pending_nodes == next # "none"

SweepContinue ==
    /\ boot = "sweeping"
    /\ Interrupted
    /\ pending_nodes
    /\ boot' = "serving"
    /\ start_assessment
    /\ UNCHANGED <<rows, thread, answered, batch, late, req, crashes, approvals>>

SweepReset ==
    /\ boot = "sweeping"
    /\ Interrupted
    /\ ~pending_nodes
    /\ boot' = "relaunching"
    /\ state' = "created"
    /\ cancel_requested' = FALSE
    /\ step' = [s \in Step |-> "none"]
    /\ approvals' = {}
    /\ UNCHANGED <<started, thread, driver, late, req, crashes>>

SweepLaunch ==
    /\ boot = "relaunching"
    /\ boot' = "serving"
    /\ start_assessment
    /\ UNCHANGED <<rows, thread, answered, batch, late, req, crashes, approvals>>

SweepNothing ==
    /\ boot = "sweeping"
    /\ ~Interrupted
    /\ boot' = "serving"
    /\ UNCHANGED <<rows, thread, driver, late, req, crashes, approvals>>

Host == SweepContinue \/ SweepReset \/ SweepLaunch \/ SweepNothing

Next ==
    \/ Engine
    \/ Mishap
    \/ Replan
    \/ \E s \in Step : EndApprovedStep(s)
    \/ Operator
    \/ \E r \in Request : Commit(r)
    \/ Crash
    \/ Host

Spec == Init /\ [][Next]_vars

\* The event loop runs every ready coroutine; nobody has to send a request,
\* nothing has to fail, and no further replanning pass has to happen.
FairSpec ==
    /\ Spec
    /\ WF_vars(Engine)
    /\ \A s \in Step : WF_vars(EndApprovedStep(s))
    /\ \A r \in Request : WF_vars(Commit(r))
    /\ WF_vars(Host)

(***************************************************************************)
(* Properties.                                                              *)
(***************************************************************************)
\* What the agents run or have run was approved where that is needed, also when
\* the sweep resumes a run whose rows are still held.
OnlyApprovedRun ==
    \A s \in batch \cup late \cup With("done") \cup With("errored") :
        s \in NeedsApproval => s \in approvals

\* The state that a row may show while its thread has a node to run: that of the
\* node once it has been entered, that of the node before it until then.
Expected(n) ==
    {StateOf[n]} \cup {StateOf[m] : m \in {k \in Node : After[k] = n}}

\* The two stores agree whenever a crash may strike between their writes: a
\* pending node belongs to the state that the row shows.
ThreadAndRowAgree ==
    /\ next # "none" /\ state \in ActiveStates => state \in Expected(next)
    /\ next # "none" /\ state = "created" => next = "authorize"

\* An assessment at rest in an active state is parked at the policy node, where
\* a decision can resume it, or its authorization was refused.
RestingRunIsKnown ==
    boot = "serving" /\ ~is_running /\ state \in ActiveStates
        => \/ state = "policy_check" /\ next = "policy" /\ parked
           \/ state = "authorized" /\ next = "none"

\* The driver of DurableAssessment, as the run registry and the task show it.
Driver ==
    CASE task = "idle"   -> "none"
      [] task = "ending" -> "done"
      [] OTHER           -> "driving"

D == INSTANCE DurableAssessment WITH driver <- Driver, interrupted <- (boot # "serving")

\* Through parks, crashes, resumptions and refusals, with two stores that are
\* written one after the other, the row shows one life of an assessment: the phases
\* in their order, each once, until it fails or is reset.
ImplementsDurableAssessment == D!Spec

\* The task never waits for an operator: it parks, and leaves the registry.
TaskEnds == is_running ~> ~is_running

\* A node with a look at cancel_requested ahead of it is still to begin.
LookAhead ==
    \/ task \in {"launched", "guarding"}
    \/ /\ task \in {"entering", "working", "executing", "replanning", "leaving"}
       /\ next \notin {"policy", "report"}

\* A cancel before the last look stops the run, unless it is taken back, or the
\* run had already ended or never begun: the one refused, the other lost in a crash.
CancelStops ==
    (cancel_requested /\ LookAhead)
        ~> \/ state \in {"cancelled", "failed"}
           \/ ~cancel_requested
           \/ next = "none" /\ state = "authorized"
           \/ ~is_running /\ state = "created"

\* The claim of orchestration/graph.py:21 that a parked run resumes once an
\* operator decides: with nothing held and no request left it does not rest.
DecisionResumes ==
    (boot = "serving" /\ parked /\ held_step_ids = {} /\ state = "policy_check")
        ~> (is_running \/ held_step_ids # {} \/ state # "policy_check")
=============================================================================
