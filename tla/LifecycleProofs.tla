--------------------------- MODULE LifecycleProofs ---------------------------
(* Theorems about Lifecycle for every set of steps and requests and every     *)
(* number of crashes.  First the type invariant, then the invariant that      *)
(* carries the safety properties, then the refinement of Assessment.          *)
EXTENDS Lifecycle, FiniteSetTheorems, TLAPS

\* What has been loaded for a decision names a step and the state it was seen in.
LEMMA LoadedDecision ==
    ASSUME TypeOK, NEW r \in Request, req[r].op \in {"approve", "deny"}
    PROVE  /\ req[r] \in Decision
           /\ req[r].step \in Step
           /\ req[r].state \in AssessmentState
<1>1. req[r] \in FlagRequest \cup Decision \cup {NoRequest}
    BY DEF TypeOK
<1>2. req[r] \notin FlagRequest
    BY DEF FlagRequest
<1>3. req[r] # NoRequest
    BY DEF NoRequest
<1> QED
    BY <1>1, <1>2, <1>3 DEF Decision

\* The number of crashes is bounded by a number.
LEMMA CrashBound == MaxCrashes \in Nat
    BY LifecycleAssumption DEF LifecycleAssumption

\* The initial state is well typed.
LEMMA TypeInit == Init => TypeOK
<1> SUFFICES ASSUME Init PROVE TypeOK
    OBVIOUS
<1>1. crashes \in 0..MaxCrashes
    <2>1. crashes = 0
        BY DEF Init
    <2> QED
        BY <2>1, CrashBound
<1> QED
    BY <1>1 DEF Init, TypeOK, AssessmentState, ActiveStates, Phases,
       TerminalStates, CompletionReason, ExecNote, StepStatus, TaskPoint, InTry

\* Any handler may end, and any launch may be asked for, without leaving the types.
LEMMA TypeStart ==
    ASSUME TypeOK, start_assessment
    PROVE  /\ task' \in TaskPoint /\ body' \in {"running", "returned", "cleared"}
           /\ fresh' \subseteq Step /\ batch' \subseteq Step
           /\ pending' \subseteq Step /\ exec_note' \in ExecNote
    BY DEF TypeOK, start_assessment, is_running, ClearEngine, engineVars,
       loopVars, TaskPoint, InTry, Phases, ExecNote

\* The engine keeps the types.
LEMMA TypeEngine == TypeOK /\ Engine => TypeOK'
<1> SUFFICES ASSUME TypeOK, Engine PROVE TypeOK'
    OBVIOUS
<1> USE DEF TypeOK, dbVars, lifeVars, planVars, loopVars, engineVars, outside,
            hostVars
<1>1. CASE BeginRun
    BY <1>1 DEF BeginRun, AssessmentState, ActiveStates, TaskPoint
<1>2. CASE EnterFirstPhase
    BY <1>2 DEF EnterFirstPhase, Enter, AssessmentState, ActiveStates, Phases,
       TaskPoint, InTry
<1>3. CASE EnterNextPhase
    <2>1. PhaseOf(task) \in Phases \ {"reporting"}
        BY <1>3 DEF EnterNextPhase, InTry, PhaseOf, Phases
    <2>2. NextPhase[PhaseOf(task)] \in Phases
        BY <2>1 DEF NextPhase, Phases
    <2> QED
        BY <1>3, <2>2 DEF EnterNextPhase, Enter, AssessmentState, ActiveStates,
           TaskPoint, InTry
<1>4. CASE SeeCancel
    BY <1>4 DEF SeeCancel, TaskPoint
<1>5. CASE FinishCancelled
    BY <1>5 DEF FinishCancelled, Finish, ClearEngine, AssessmentState,
       TerminalStates, TaskPoint, ExecNote
<1>6. CASE Complete
    <2>1. completion_reason' \in CompletionReason
        BY <1>6 DEF Complete, CompletionReasonNow, CompletionReason, ExecNote
    <2> QED
        BY <1>6, <2>1 DEF Complete, Finish, ClearEngine, AssessmentState,
           TerminalStates, TaskPoint, ExecNote
<1>7. CASE LeaveRegistry
    BY <1>7 DEF LeaveRegistry, TaskPoint
<1>8. CASE Discover
    BY <1>8 DEF Discover, NewlySaved
<1>9. CASE Plan
    BY <1>9 DEF Plan, StepStatus
<1>10. CASE EvaluatePolicy
    BY <1>10 DEF EvaluatePolicy, StepStatus, TaskPoint, InTry, Phases
<1>11. CASE LeaveApprovalWait
    BY <1>11 DEF LeaveApprovalWait, PollHeldSteps
<1>12. CASE SkipExecution
    BY <1>12 DEF SkipExecution, ExecNote
<1>13. CASE StartAgents
    BY <1>13 DEF StartAgents, TaskPoint, InTry
<1>14. CASE \E s \in Step : StreamResult(s)
    BY <1>14 DEF StreamResult, PersistResult, StepStatus
<1>15. CASE StopStreaming
    BY <1>15 DEF StopStreaming, ExecNote
<1>16. CASE FinishExecute
    BY <1>16 DEF FinishExecute
<1>17. CASE SeeNoCancel
    BY <1>17 DEF SeeNoCancel
<1>18. CASE StopReplan
    BY <1>18 DEF StopReplan
<1> QED
    BY <1>1, <1>2, <1>3, <1>4, <1>5, <1>6, <1>7, <1>8, <1>9, <1>10, <1>11,
       <1>12, <1>13, <1>14, <1>15, <1>16, <1>17, <1>18 DEF Engine

\* Handlers keep the types.
LEMMA TypeOperator == TypeOK /\ Operator => TypeOK'
<1> SUFFICES ASSUME TypeOK, Operator PROVE TypeOK'
    OBVIOUS
<1> USE DEF dbVars, lifeVars, planVars, loopVars, engineVars, outside, hostVars
<1>1. CASE ChatStart
    BY <1>1, TypeStart DEF ChatStart, TypeOK
<1>2. ASSUME NEW r \in Request, LoadStart(r) PROVE TypeOK'
    BY <1>2 DEF LoadStart, Load, FlagRequest, TypeOK
<1>3. ASSUME NEW r \in Request, LoadCancel(r) PROVE TypeOK'
    BY <1>3 DEF LoadCancel, Load, FlagRequest, TypeOK
<1>4. ASSUME NEW r \in Request, LoadHeldStep(r) PROVE TypeOK'
    BY <1>4 DEF LoadHeldStep, Load, Decision, Awaiting, TypeOK
<1> QED
    BY <1>1, <1>2, <1>3, <1>4 DEF Operator

\* A commit of a handler keeps the types.
LEMMA TypeCommit == ASSUME NEW r \in Request PROVE TypeOK /\ Commit(r) => TypeOK'
<1> SUFFICES ASSUME TypeOK, Commit(r) PROVE TypeOK'
    OBVIOUS
<1> USE DEF dbVars, lifeVars, planVars, loopVars, engineVars, outside, hostVars
<1>1. CASE CommitStart(r)
    BY <1>1, TypeStart DEF CommitStart, Respond, TypeOK
<1>2. CASE CommitCancelAll(r)
    BY <1>2 DEF CommitCancelAll, RequestCancel, Respond, TypeOK
<1>3. CASE CommitCancel(r)
    BY <1>3 DEF CommitCancel, RequestCancel, CancelledState, Respond, TypeOK,
       AssessmentState, TerminalStates
<1>4. ASSUME resume_if_parked(r)
      PROVE  /\ task' \in TaskPoint /\ body' \in {"running", "returned", "cleared"}
             /\ fresh' \subseteq Step /\ batch' \subseteq Step
             /\ pending' \subseteq Step /\ exec_note' \in ExecNote
    BY <1>4, TypeStart DEF resume_if_parked, TypeOK
<1>5. CASE CommitApprove(r)
    <2>1. req[r].step \in Step
        BY <1>5, LoadedDecision DEF CommitApprove
    <2> QED
        BY <1>4, <1>5, <2>1 DEF CommitApprove, start_approved_steps, Respond,
           StepStatus, TypeOK
<1>6. CASE CommitDeny(r)
    BY <1>4, <1>6 DEF CommitDeny, Respond, StepStatus, TypeOK
<1> QED
    BY <1>1, <1>2, <1>3, <1>5, <1>6 DEF Commit

\* Tasks of late steps keep the types.
LEMMA TypeApprovedStep ==
    ASSUME NEW s \in Step PROVE TypeOK /\ ApprovedStep(s) => TypeOK'
    BY DEF ApprovedStep, DropStaleStep, SkipApprovedStep, RunApprovedStep,
       RecordApprovedStep, AbandonApprovedStep, EndApprovedStep, PersistResult,
       TypeOK, StepStatus, dbVars, lifeVars, planVars, loopVars, engineVars,
       outside, hostVars

\* A crash and the sweep keep the types.
LEMMA TypeHost == TypeOK /\ (Crash \/ Host) => TypeOK'
<1> SUFFICES ASSUME TypeOK, Crash \/ Host PROVE TypeOK'
    OBVIOUS
<1> USE DEF dbVars, lifeVars, planVars, loopVars, engineVars, outside, hostVars
<1>1. CASE Crash
    <2>1. crashes' \in 0..MaxCrashes
        <3>1. crashes \in 0..MaxCrashes /\ crashes < MaxCrashes
              /\ crashes' = crashes + 1
            BY <1>1 DEF Crash, TypeOK
        <3> QED
            BY <3>1, CrashBound
    <2> QED
        BY <1>1, <2>1 DEF Crash, ClearEngine, TypeOK, TaskPoint, ExecNote
<1>2. CASE SweepReset
    BY <1>2 DEF SweepReset, TypeOK, AssessmentState, StepStatus
<1>3. CASE SweepLaunch
    BY <1>3, TypeStart DEF SweepLaunch, TypeOK
<1>4. CASE SweepNothing
    BY <1>4 DEF SweepNothing, TypeOK
<1> QED
    BY <1>1, <1>2, <1>3, <1>4 DEF Host

\* Every step keeps the types.
LEMMA TypeNext == TypeOK /\ [Next]_vars => TypeOK'
<1> SUFFICES ASSUME TypeOK, [Next]_vars PROVE TypeOK'
    OBVIOUS
<1> USE DEF dbVars, lifeVars, planVars, loopVars, engineVars, outside, hostVars
<1>1. CASE MarkFailed
    BY <1>1 DEF MarkFailed, Finish, ClearEngine, TypeOK, AssessmentState,
       TerminalStates, TaskPoint, ExecNote
<1>2. CASE PollApprovals
    BY <1>2 DEF PollApprovals, PollHeldSteps, TypeOK
<1>3. ASSUME NEW s \in Step, RetryErrored(s) PROVE TypeOK'
    BY <1>3 DEF RetryErrored, TypeOK, StepStatus
<1>4. CASE Replan
    BY <1>4 DEF Replan, CoverageGaps, TypeOK, StepStatus, TaskPoint, InTry
<1>5. CASE UNCHANGED vars
    BY <1>5 DEF vars, TypeOK
<1> QED
    BY <1>1, <1>2, <1>3, <1>4, <1>5, TypeEngine, TypeOperator, TypeCommit,
       TypeApprovedStep, TypeHost DEF Next

\* Every variable keeps its type whatever the engine, the operators and the
\* process do.
THEOREM TypeCorrect == Spec => []TypeOK
    BY TypeInit, TypeNext, PTL DEF Spec

(***************************************************************************)
(* Who may move the state.  EngineOwnsState and ActiveHasDriver are not     *)
(* inductive: the sweep moves the state with no look at the registry, and   *)
(* it finds a run only by started_at.                                       *)
(***************************************************************************)
\* Until the process serves, it has no coroutine but the sweep.
SweepIsAlone ==
    boot # "serving" =>
        /\ task = "idle"
        /\ fresh = {} /\ batch = {} /\ pending = {}
        /\ \A s \in Step : post[s] = "none"
        /\ \A r \in Request : req[r] = NoRequest

\* What the sweep looks for is there, and it launches what it has reset.
SweepFinds ==
    /\ state \in ActiveStates => started
    /\ boot = "relaunching" => state = "created"

ControlInv == EngineOwnsState /\ ActiveHasDriver /\ SweepIsAlone /\ SweepFinds

\* Initially the registry is idle and nothing is active.
LEMMA ControlInit == Init => ControlInv
    BY DEF Init, ControlInv, EngineOwnsState, ActiveHasDriver, SweepIsAlone,
       SweepFinds, ActiveStates, Phases, InTry

\* The engine moves the row and itself together.
LEMMA ControlEngine == TypeOK /\ ControlInv /\ Engine => ControlInv'
<1> SUFFICES ASSUME TypeOK, ControlInv, Engine PROVE ControlInv'
    OBVIOUS
<1> USE DEF ControlInv, EngineOwnsState, ActiveHasDriver, SweepIsAlone,
            SweepFinds, is_running, dbVars, lifeVars, planVars, loopVars,
            engineVars, outside, hostVars
<1>1. CASE BeginRun
    BY <1>1 DEF BeginRun, InTry, Phases
<1>2. CASE EnterFirstPhase
    BY <1>2 DEF EnterFirstPhase, Enter, InTry, Phases, ActiveStates, PhaseOf
<1>3. CASE EnterNextPhase
    <2>1. PhaseOf(task) \in Phases \ {"reporting"}
        BY <1>3 DEF EnterNextPhase, InTry, PhaseOf, Phases
    <2>2. NextPhase[PhaseOf(task)] \in Phases
        BY <2>1 DEF NextPhase, Phases
    <2>3. state' \in Phases /\ task' = state' /\ PhaseOf(task') = task'
        BY <1>3, <2>2 DEF EnterNextPhase, Enter, PhaseOf, Phases
    <2> QED
        BY <1>3, <2>1, <2>3 DEF EnterNextPhase, Enter, InTry, Phases,
           ActiveStates
<1>4. CASE SeeCancel
    BY <1>4 DEF SeeCancel, AtLook, InTry, Phases, ActiveStates, PhaseOf, Interruptible
<1>5. CASE FinishCancelled
    BY <1>5 DEF FinishCancelled, Finish, ClearEngine, InTry, Phases,
       ActiveStates, TerminalStates
<1>6. CASE Complete
    BY <1>6 DEF Complete, Finish, ClearEngine, InTry, Phases, ActiveStates,
       TerminalStates
<1>7. CASE LeaveRegistry
    BY <1>7 DEF LeaveRegistry, InTry, Phases, ActiveStates, TerminalStates
<1>8. CASE Discover
    BY <1>8 DEF Discover
<1>9. CASE Plan
    BY <1>9 DEF Plan
<1>10. CASE EvaluatePolicy
    <2>1. /\ task = "policy_check" /\ task' \in {"policy_check", "awaiting"}
          /\ UNCHANGED <<lifeVars, outside>>
        BY <1>10 DEF EvaluatePolicy
    <2> QED
        BY <2>1 DEF InTry, Phases, PhaseOf
<1>11. CASE LeaveApprovalWait
    BY <1>11 DEF LeaveApprovalWait
<1>12. CASE SkipExecution
    BY <1>12 DEF SkipExecution
<1>13. CASE StartAgents
    BY <1>13 DEF StartAgents, InTry, Phases, PhaseOf
<1>14. CASE \E s \in Step : StreamResult(s)
    BY <1>14 DEF StreamResult
<1>15. CASE StopStreaming
    BY <1>15 DEF StopStreaming
<1>16. CASE FinishExecute
    BY <1>16 DEF FinishExecute
<1>17. CASE SeeNoCancel
    BY <1>17 DEF SeeNoCancel
<1>18. CASE StopReplan
    BY <1>18 DEF StopReplan
<1> QED
    BY <1>1, <1>2, <1>3, <1>4, <1>5, <1>6, <1>7, <1>8, <1>9, <1>10, <1>11,
       <1>12, <1>13, <1>14, <1>15, <1>16, <1>17, <1>18 DEF Engine

\* A launch by a handler only ever adds a driver.
LEMMA ControlStart ==
    ASSUME ControlInv, boot = "serving", boot' = boot, start_assessment,
           UNCHANGED lifeVars
    PROVE  ControlInv'
    BY DEF start_assessment, is_running, ClearEngine, ControlInv,
       EngineOwnsState, ActiveHasDriver, SweepIsAlone, SweepFinds, lifeVars,
       engineVars, loopVars, InTry, Phases, TaskPoint

\* A handler that commits late finds the row where its load left it, or leaves it alone.
LEMMA ControlCommit ==
    ASSUME NEW r \in Request PROVE TypeOK /\ ControlInv /\ Commit(r) => ControlInv'
<1> SUFFICES ASSUME TypeOK, ControlInv, Commit(r) PROVE ControlInv'
    OBVIOUS
<1> USE DEF dbVars, lifeVars, planVars, loopVars, engineVars, outside, hostVars
<1>1. boot = "serving" /\ boot' = boot
    <2>1. req[r].op # "none"
        BY DEF Commit, CommitStart, CommitCancelAll, CommitCancel,
           CommitApprove, CommitDeny
    <2>2. NoRequest.op = "none"
        BY DEF NoRequest
    <2>3. req[r] # NoRequest
        BY <2>1, <2>2
    <2> QED
        BY <2>3 DEF ControlInv, SweepIsAlone, Commit, CommitStart,
           CommitCancelAll, CommitCancel, CommitApprove, CommitDeny
<1>2. ASSUME UNCHANGED <<state, started, engineVars>> PROVE ControlInv'
    BY <1>1, <1>2 DEF ControlInv, EngineOwnsState, ActiveHasDriver,
       SweepIsAlone, SweepFinds, is_running
<1>3. ASSUME start_assessment, UNCHANGED <<state, started>> PROVE ControlInv'
    BY <1>1, <1>3 DEF start_assessment, is_running, ClearEngine, ControlInv,
       EngineOwnsState, ActiveHasDriver, SweepIsAlone, SweepFinds, InTry, Phases
<1>4. CASE CommitStart(r)
    BY <1>3, <1>4 DEF CommitStart
<1>5. CASE CommitCancelAll(r)
    BY <1>2, <1>5 DEF CommitCancelAll
<1>6. CASE CommitCancel(r)
    BY <1>1, <1>6 DEF CommitCancel, CancelledState, ControlInv, EngineOwnsState,
       ActiveHasDriver, SweepIsAlone, SweepFinds, is_running, InTry, Phases,
       ActiveStates
<1>7. CASE CommitApprove(r)
    BY <1>2, <1>3, <1>7 DEF CommitApprove, resume_if_parked
<1>8. CASE CommitDeny(r)
    BY <1>2, <1>3, <1>8 DEF CommitDeny, resume_if_parked
<1> QED
    BY <1>4, <1>5, <1>6, <1>7, <1>8 DEF Commit

\* A crash leaves what the sweep finds, and the sweep launches it.
LEMMA ControlHost == TypeOK /\ ControlInv /\ (Crash \/ Host) => ControlInv'
<1> SUFFICES ASSUME TypeOK, ControlInv, Crash \/ Host PROVE ControlInv'
    OBVIOUS
<1> USE DEF ControlInv, EngineOwnsState, ActiveHasDriver, SweepIsAlone,
            SweepFinds, is_running, dbVars, lifeVars, planVars, loopVars,
            engineVars, outside, hostVars
<1>1. CASE Crash
    BY <1>1 DEF Crash, ClearEngine, InTry, Phases
<1>2. CASE SweepReset
    BY <1>2 DEF SweepReset, InTry, Phases, ActiveStates
<1>3. CASE SweepLaunch
    BY <1>3 DEF SweepLaunch, start_assessment, ClearEngine, InTry, Phases,
       ActiveStates
<1>4. CASE SweepNothing
    BY <1>4 DEF SweepNothing, Interrupted, InTry, Phases, ActiveStates,
       TerminalStates
<1> QED
    BY <1>1, <1>2, <1>3, <1>4 DEF Host

\* Every step keeps the control invariant.
LEMMA ControlNext == TypeOK /\ ControlInv /\ [Next]_vars => ControlInv'
<1> SUFFICES ASSUME TypeOK, ControlInv, [Next]_vars PROVE ControlInv'
    OBVIOUS
<1> USE DEF dbVars, lifeVars, planVars, loopVars, engineVars, outside, hostVars
<1>1. CASE MarkFailed
    BY <1>1 DEF MarkFailed, Finish, ClearEngine, ControlInv, EngineOwnsState,
       ActiveHasDriver, SweepIsAlone, SweepFinds, is_running, InTry, Phases,
       ActiveStates, TerminalStates
<1>2. CASE PollApprovals
    BY <1>2 DEF PollApprovals, ControlInv, EngineOwnsState, ActiveHasDriver,
       SweepIsAlone, SweepFinds, is_running
<1>3. ASSUME NEW s \in Step, RetryErrored(s) PROVE ControlInv'
    BY <1>3 DEF RetryErrored, ControlInv, EngineOwnsState, ActiveHasDriver,
       SweepIsAlone, SweepFinds, is_running
<1>4. ASSUME NEW s \in Step, ApprovedStep(s) PROVE ControlInv'
    <2>1. post[s] # "none" /\ UNCHANGED <<lifeVars, engineVars, req, boot>>
        BY <1>4 DEF ApprovedStep, DropStaleStep, SkipApprovedStep,
           RunApprovedStep, RecordApprovedStep, AbandonApprovedStep
    <2>2. boot = "serving"
        BY <2>1 DEF ControlInv, SweepIsAlone
    <2> QED
        BY <2>1, <2>2 DEF ControlInv, EngineOwnsState, ActiveHasDriver,
           SweepIsAlone, SweepFinds, is_running
<1>5. CASE Operator
    <2>1. CASE ChatStart
        BY <2>1, ControlStart DEF ChatStart
    <2>2. ASSUME NEW r \in Request, NEW loaded, Load(r, loaded) PROVE ControlInv'
        BY <2>2 DEF Load, ControlInv, EngineOwnsState, ActiveHasDriver,
           SweepIsAlone, SweepFinds, is_running
    <2> QED
        BY <1>5, <2>1, <2>2 DEF Operator, LoadStart, LoadCancel, LoadHeldStep
<1>6. CASE Replan
    BY <1>6 DEF Replan, ControlInv, EngineOwnsState, ActiveHasDriver,
       SweepIsAlone, SweepFinds, is_running, InTry, Phases, PhaseOf
<1>7. CASE UNCHANGED vars
    BY <1>7 DEF vars, ControlInv, EngineOwnsState, ActiveHasDriver,
       SweepIsAlone, SweepFinds, is_running
<1> QED
    BY <1>1, <1>2, <1>3, <1>4, <1>5, <1>6, <1>7, ControlEngine, ControlCommit,
       ControlHost DEF Next

\* The control invariant holds in every reachable state.
LEMMA ControlCorrect == Spec => []ControlInv
    BY ControlInit, ControlNext, TypeCorrect, PTL DEF Spec

\* While the engine is in a phase, the row says so and no handler moves it.
THEOREM StateIsEngineOwned == Spec => []EngineOwnsState
    BY ControlCorrect, PTL DEF ControlInv

\* No assessment is left in an active state without a coroutine or a sweep that
\* will take it on, through any number of crashes, cancels and launches.
THEOREM ActiveIsDriven == Spec => []ActiveHasDriver
    BY ControlCorrect, PTL DEF ControlInv

(***************************************************************************)
(* The gate in front of the checks.  PolicyGate needs that a step is        *)
(* approved only through the gate, and that a decision in flight is about   *)
(* a step the policy permitted, however late it commits.                    *)
(***************************************************************************)
Gated(s) == s \in permitted /\ (s \in NeedsApproval => s \in approvals)

StatusIsGated ==
    /\ \A s \in Step :
          step[s] = "awaiting_approval" => s \in permitted \cap NeedsApproval
    /\ \A s \in Step : step[s] = "approved" => Gated(s)

DecisionIsGated ==
    \A r \in Request :
        req[r].op \in {"approve", "deny"} =>
            req[r].step \in permitted \cap NeedsApproval

StreamIsSelected == task = "streaming" => pending \subseteq batch

\* What runs after the run was held by it; a replanning pass takes no such step.
OnlyHeldRunLate == \A s \in Step : post[s] # "none" => s \in NeedsApproval

GateInv ==
    /\ PolicyGate
    /\ StatusIsGated
    /\ DecisionIsGated
    /\ StreamIsSelected
    /\ OnlyHeldRunLate

\* Initially there are no steps.
LEMMA GateInit == Init => GateInv
<1> SUFFICES ASSUME Init PROVE GateInv
    OBVIOUS
<1>1. PolicyGate /\ StatusIsGated /\ StreamIsSelected /\ OnlyHeldRunLate
    BY DEF Init, PolicyGate, HandedToAgents, StatusIsGated, StreamIsSelected,
       OnlyHeldRunLate
<1>2. DecisionIsGated
    BY DEF Init, DecisionIsGated, NoRequest
<1> QED
    BY <1>1, <1>2 DEF GateInv

\* The engine batches only what is permitted, and approved where needed.
LEMMA GateEngine == TypeOK /\ GateInv /\ Engine => GateInv'
<1> SUFFICES ASSUME TypeOK, GateInv, Engine PROVE GateInv'
    OBVIOUS
<1> USE DEF GateInv, PolicyGate, StatusIsGated, DecisionIsGated, Gated,
            StreamIsSelected, OnlyHeldRunLate, HandedToAgents, dbVars, lifeVars, planVars, loopVars, engineVars,
            outside, hostVars
<1>1. CASE BeginRun
    BY <1>1 DEF BeginRun
<1>2. CASE EnterFirstPhase
    BY <1>2 DEF EnterFirstPhase, Enter
<1>3. CASE EnterNextPhase
    BY <1>3 DEF EnterNextPhase, Enter
<1>4. CASE SeeCancel
    BY <1>4 DEF SeeCancel
<1>5. CASE FinishCancelled
    BY <1>5 DEF FinishCancelled, Finish, ClearEngine
<1>6. CASE Complete
    BY <1>6 DEF Complete, Finish, ClearEngine
<1>7. CASE LeaveRegistry
    BY <1>7 DEF LeaveRegistry
<1>8. CASE Discover
    BY <1>8 DEF Discover
<1>9. CASE Plan
    BY <1>9 DEF Plan, TypeOK
<1>10. CASE EvaluatePolicy
    <2>1. PICK skipped \in SUBSET fresh, denied \in SUBSET fresh :
            /\ permitted' = permitted \cup (fresh \ (skipped \cup denied))
            /\ batch' = (fresh \ (skipped \cup denied)) \ NeedsApproval
            /\ step' = [s \in Step |->
                  IF s \in skipped THEN "skipped"
                  ELSE IF s \in denied THEN "denied"
                  ELSE IF s \in (fresh \ (skipped \cup denied)) \cap NeedsApproval
                       THEN "awaiting_approval"
                  ELSE IF s \in fresh \ (skipped \cup denied) THEN "approved"
                  ELSE step[s]]
        BY <1>10 DEF EvaluatePolicy
    <2>2. UNCHANGED <<jobs, outside>> /\ task' \notin {"streaming", "replanning"}
        BY <1>10 DEF EvaluatePolicy
    <2>3. PolicyGate'
        BY <2>1, <2>2
    <2>4. StatusIsGated'
        BY <2>1, <2>2
    <2> QED
        BY <2>1, <2>2, <2>3, <2>4
<1>11. CASE LeaveApprovalWait
    BY <1>11 DEF LeaveApprovalWait, PollHeldSteps, TypeOK
<1>12. CASE SkipExecution
    BY <1>12 DEF SkipExecution
<1>13. CASE StartAgents
    BY <1>13 DEF StartAgents
<1>14. ASSUME NEW s \in Step, StreamResult(s) PROVE GateInv'
    BY <1>14 DEF StreamResult, PersistResult, TypeOK
<1>15. CASE StopStreaming
    BY <1>15 DEF StopStreaming
<1>16. CASE FinishExecute
    BY <1>16 DEF FinishExecute
<1>17. CASE SeeNoCancel
    BY <1>17 DEF SeeNoCancel
<1>18. CASE StopReplan
    BY <1>18 DEF StopReplan
<1> QED
    BY <1>1, <1>2, <1>3, <1>4, <1>5, <1>6, <1>7, <1>8, <1>9, <1>10, <1>11,
       <1>12, <1>13, <1>14, <1>15, <1>16, <1>17, <1>18 DEF Engine

\* A decision concerns a step that was held when it was loaded.
LEMMA GateCommit ==
    ASSUME NEW r \in Request PROVE TypeOK /\ GateInv /\ Commit(r) => GateInv'
<1> SUFFICES ASSUME TypeOK, GateInv, Commit(r) PROVE GateInv'
    OBVIOUS
<1> USE DEF dbVars, lifeVars, planVars, loopVars, engineVars, outside, hostVars
<1>1. \A q \in Request : req'[q] = req[q] \/ req'[q] = NoRequest
    BY DEF Commit, CommitStart, CommitCancelAll, CommitCancel, CommitApprove,
       CommitDeny, Respond, TypeOK
<1>2. ASSUME permitted' = permitted PROVE DecisionIsGated'
    BY <1>1, <1>2 DEF GateInv, DecisionIsGated, NoRequest
<1>3. ASSUME UNCHANGED engineVars \/ start_assessment
      PROVE  /\ batch' \subseteq batch /\ StreamIsSelected'
             /\ task' = "replanning" => task = task' /\ pending' = pending
    BY <1>3 DEF start_assessment, ClearEngine, GateInv, StreamIsSelected
<1>4. CASE CommitStart(r)
    BY <1>2, <1>3, <1>4 DEF CommitStart, GateInv, PolicyGate,
       HandedToAgents, StatusIsGated, Gated, OnlyHeldRunLate
<1>5. CASE CommitCancelAll(r)
    BY <1>2, <1>3, <1>5 DEF CommitCancelAll, GateInv, PolicyGate,
       HandedToAgents, StatusIsGated, Gated, OnlyHeldRunLate
<1>6. CASE CommitCancel(r)
    BY <1>2, <1>3, <1>6 DEF CommitCancel, GateInv, PolicyGate,
       HandedToAgents, StatusIsGated, Gated, OnlyHeldRunLate
<1>7. CASE CommitApprove(r)
    <2>1. req[r].step \in Step /\ req[r].step \in permitted \cap NeedsApproval
        BY <1>7, LoadedDecision DEF CommitApprove, GateInv, DecisionIsGated
    <2>2. /\ batch' \subseteq batch /\ StreamIsSelected'
          /\ task' = "replanning" => task = task' /\ pending' = pending
        BY <1>3, <1>7 DEF CommitApprove, resume_if_parked
    <2>3. approvals' = approvals \cup {req[r].step} /\ UNCHANGED <<permitted, jobs>>
        BY <1>7 DEF CommitApprove
    <2>4. \A s \in Step : post'[s] # "none" => post[s] # "none" \/ s = req[r].step
        BY <1>7, <2>1 DEF CommitApprove, start_approved_steps, TypeOK
    <2>5. PolicyGate'
        BY <2>1, <2>2, <2>3, <2>4 DEF GateInv, PolicyGate, HandedToAgents
    <2>6. StatusIsGated'
        BY <1>7, <2>1, <2>3 DEF CommitApprove, GateInv, StatusIsGated, Gated, TypeOK
    <2>7. OnlyHeldRunLate'
        BY <2>1, <2>4 DEF GateInv, OnlyHeldRunLate
    <2> QED
        BY <1>2, <2>2, <2>3, <2>5, <2>6, <2>7 DEF GateInv
<1>8. CASE CommitDeny(r)
    <2>1. /\ batch' \subseteq batch /\ StreamIsSelected'
          /\ task' = "replanning" => task = task' /\ pending' = pending
        BY <1>3, <1>8 DEF CommitDeny, resume_if_parked
    <2>2. StatusIsGated'
        BY <1>8 DEF CommitDeny, GateInv, StatusIsGated, Gated, TypeOK
    <2> QED
        BY <1>2, <1>8, <2>1, <2>2 DEF CommitDeny, GateInv, PolicyGate,
           HandedToAgents, OnlyHeldRunLate
<1> QED
    BY <1>4, <1>5, <1>6, <1>7, <1>8 DEF Commit

\* Every step keeps the gate invariant.
LEMMA GateNext == TypeOK /\ ControlInv /\ GateInv /\ [Next]_vars => GateInv'
<1> SUFFICES ASSUME TypeOK, ControlInv, GateInv, [Next]_vars PROVE GateInv'
    OBVIOUS
<1> USE DEF GateInv, PolicyGate, StatusIsGated, DecisionIsGated, Gated,
            StreamIsSelected, OnlyHeldRunLate, HandedToAgents, dbVars, lifeVars, planVars, loopVars, engineVars,
            outside, hostVars
<1>1. CASE MarkFailed
    BY <1>1 DEF MarkFailed, Finish, ClearEngine
<1>2. CASE PollApprovals
    BY <1>2 DEF PollApprovals, PollHeldSteps, TypeOK
<1>3. ASSUME NEW s \in Step, RetryErrored(s) PROVE GateInv'
    BY <1>3 DEF RetryErrored, TypeOK
<1>4. ASSUME NEW s \in Step, ApprovedStep(s) PROVE GateInv'
    BY <1>4 DEF ApprovedStep, DropStaleStep, SkipApprovedStep, RunApprovedStep,
       RecordApprovedStep, AbandonApprovedStep, EndApprovedStep, PersistResult,
       TypeOK
<1>5. CASE Operator
    <2>1. CASE ChatStart
        BY <2>1 DEF ChatStart, start_assessment, ClearEngine
    <2>2. ASSUME NEW r \in Request, LoadStart(r) \/ LoadCancel(r) PROVE GateInv'
        BY <2>2 DEF LoadStart, LoadCancel, Load, TypeOK
    <2>3. ASSUME NEW r \in Request, LoadHeldStep(r) PROVE GateInv'
        BY <2>3 DEF LoadHeldStep, Load, Awaiting, TypeOK
    <2> QED
        BY <1>5, <2>1, <2>2, <2>3 DEF Operator
<1>6. CASE Crash
    BY <1>6 DEF Crash, ClearEngine, NoRequest
<1>7. CASE SweepReset
    BY <1>7 DEF SweepReset, ControlInv, SweepIsAlone, NoRequest
<1>8. CASE SweepLaunch \/ SweepNothing
    BY <1>8 DEF SweepLaunch, SweepNothing, start_assessment, ClearEngine
<1>9. CASE Replan
    BY <1>9 DEF Replan, CoverageGaps, TypeOK
<1>10. CASE UNCHANGED vars
    BY <1>10 DEF vars
<1> QED
    BY <1>1, <1>2, <1>3, <1>4, <1>5, <1>6, <1>7, <1>8, <1>9, <1>10,
       GateEngine, GateCommit DEF Next, Host

\* The gate invariant holds in every reachable state.
LEMMA GateCorrect == Spec => []GateInv
    BY GateInit, GateNext, TypeCorrect, ControlCorrect, PTL DEF Spec

\* No check runs, or has run, that the policy did not permit, and none that
\* changes state or is invasive without an operator's approval.
THEOREM ChecksPassTheGate == Spec => []PolicyGate
    BY GateCorrect, PTL DEF GateInv

(***************************************************************************)
(* Background executions and the run.  A late approval acts on a state it   *)
(* loaded earlier; what keeps it away from the run's steps is that a step   *)
(* seen held under a terminal state belongs to a run that is over, and that *)
(* no later run plans a pair whose endpoint already has a row.              *)
(***************************************************************************)
OfThisRun == fresh \cup batch \cup pending

\* Rows come from the surface, and outside the phases the run has no steps.
RowsHaveEndpoints == permitted \subseteq surface /\ fresh \subseteq surface

NoStepsOutsideRun ==
    task \in {"idle", "queued", "authorized", "ending"} => OfThisRun = {}

LateDecisionIsForeign ==
    \A r \in Request :
        req[r].op = "approve" /\ req[r].state \in TerminalStates
            => req[r].step \notin OfThisRun

ExclusiveInv ==
    /\ ExclusiveExecution
    /\ RowsHaveEndpoints
    /\ NoStepsOutsideRun
    /\ LateDecisionIsForeign

\* Initially nobody executes anything.
LEMMA ExclusiveInit == Init => ExclusiveInv
<1> SUFFICES ASSUME Init PROVE ExclusiveInv
    OBVIOUS
<1>1. ExclusiveExecution /\ RowsHaveEndpoints /\ NoStepsOutsideRun
    BY DEF Init, ExclusiveExecution, RowsHaveEndpoints, NoStepsOutsideRun,
       OfThisRun
<1>2. LateDecisionIsForeign
    BY DEF Init, LateDecisionIsForeign, NoRequest
<1> QED
    BY <1>1, <1>2 DEF ExclusiveInv

\* What is queued, running or asked for concerns held steps, whose rows exist.
LEMMA ForeignStepsAreHeld ==
    ASSUME GateInv, RowsHaveEndpoints
    PROVE  /\ \A s \in Step : post[s] # "none" => s \in surface \cap NeedsApproval
           /\ \A r \in Request :
                 req[r].op = "approve" => req[r].step \in surface \cap NeedsApproval
    BY DEF GateInv, PolicyGate, HandedToAgents, DecisionIsGated,
       OnlyHeldRunLate, RowsHaveEndpoints

\* Steps of the run that were not its own before have just got their endpoint,
\* or are coverage gaps.
LEMMA ExclusiveKept ==
    ASSUME TypeOK, GateInv, ExclusiveInv, UNCHANGED <<post, req>>,
           \A s \in OfThisRun' :
              s \in OfThisRun \/ s \notin surface \cap NeedsApproval
    PROVE  ExclusiveExecution' /\ LateDecisionIsForeign'
<1>1. ExclusiveExecution'
    BY ForeignStepsAreHeld DEF ExclusiveInv, ExclusiveExecution, OfThisRun
<1>2. LateDecisionIsForeign'
    BY ForeignStepsAreHeld DEF ExclusiveInv, LateDecisionIsForeign
<1> QED
    BY <1>1, <1>2

\* What the engine plans is new to it, so it shares no step with a task.
LEMMA ExclusiveEngine ==
    TypeOK /\ GateInv /\ ExclusiveInv /\ Engine => ExclusiveInv'
<1> SUFFICES ASSUME TypeOK, GateInv, ExclusiveInv, Engine PROVE ExclusiveInv'
    OBVIOUS
<1> USE DEF dbVars, lifeVars, planVars, loopVars, engineVars, outside, hostVars
<1>1. UNCHANGED <<post, req>>
    BY DEF Engine, BeginRun, EnterFirstPhase, EnterNextPhase, SeeCancel,
       FinishCancelled, Complete, Finish, LeaveRegistry, Discover, Plan,
       EvaluatePolicy, LeaveApprovalWait, SkipExecution, StartAgents,
       StreamResult, StopStreaming, FinishExecute, SeeNoCancel, StopReplan
<1>2. ASSUME OfThisRun' \subseteq OfThisRun, NoStepsOutsideRun',
             fresh' \subseteq fresh, permitted' \subseteq surface \cup fresh,
             surface' = surface
      PROVE  ExclusiveInv'
    BY <1>1, <1>2, ExclusiveKept DEF ExclusiveInv, RowsHaveEndpoints
<1> USE DEF ExclusiveInv, RowsHaveEndpoints, NoStepsOutsideRun, OfThisRun
<1>3. CASE BeginRun
    BY <1>2, <1>3 DEF BeginRun
<1>4. CASE EnterFirstPhase
    BY <1>2, <1>4 DEF EnterFirstPhase, Enter
<1>5. CASE EnterNextPhase
    <2>1. task' = NextPhase[PhaseOf(task)] /\ PhaseOf(task) \in Phases \ {"reporting"}
        BY <1>5 DEF EnterNextPhase, Enter, InTry, Phases, PhaseOf
    <2>2. task' \notin {"idle", "queued", "authorized", "ending"}
        BY <2>1 DEF NextPhase, Phases
    <2> QED
        BY <1>2, <1>5, <2>2 DEF EnterNextPhase, Enter
<1>6. CASE SeeCancel
    BY <1>2, <1>6 DEF SeeCancel
<1>7. CASE FinishCancelled \/ Complete
    BY <1>2, <1>7 DEF FinishCancelled, Complete, Finish, ClearEngine
<1>8. CASE LeaveRegistry
    BY <1>2, <1>8 DEF LeaveRegistry
<1>9. CASE Discover
    <2>1. \A s \in OfThisRun' : s \in OfThisRun \/ s \notin surface
        BY <1>9 DEF Discover, NewlySaved
    <2>2. RowsHaveEndpoints' /\ NoStepsOutsideRun'
        BY <1>9 DEF Discover, NewlySaved
    <2> QED
        BY <1>1, <2>1, <2>2, ExclusiveKept
<1>10. CASE Plan
    BY <1>2, <1>10 DEF Plan
<1>11. CASE EvaluatePolicy
    <2>1. /\ batch' \subseteq fresh /\ pending' \subseteq fresh /\ fresh' = {}
          /\ permitted' \subseteq permitted \cup fresh /\ surface' = surface
          /\ task' \in {"policy_check", "awaiting"}
        BY <1>11 DEF EvaluatePolicy
    <2> QED
        BY <1>2, <2>1
<1>12. CASE LeaveApprovalWait
    BY <1>2, <1>12 DEF LeaveApprovalWait, PollHeldSteps
<1>13. CASE SkipExecution
    BY <1>2, <1>13 DEF SkipExecution
<1>14. CASE StartAgents
    BY <1>2, <1>14 DEF StartAgents
<1>15. ASSUME NEW s \in Step, StreamResult(s) PROVE ExclusiveInv'
    BY <1>2, <1>15 DEF StreamResult
<1>16. CASE StopStreaming
    BY <1>2, <1>16 DEF StopStreaming
<1>17. CASE FinishExecute
    BY <1>2, <1>17 DEF FinishExecute
<1>18. CASE SeeNoCancel
    BY <1>2, <1>18 DEF SeeNoCancel
<1>19. CASE StopReplan
    BY <1>2, <1>19 DEF StopReplan
<1> QED
    BY <1>3, <1>4, <1>5, <1>6, <1>7, <1>8, <1>9, <1>10, <1>11, <1>12, <1>13,
       <1>14, <1>15, <1>16, <1>17, <1>18, <1>19 DEF Engine

\* A late approval starts a task only for a step that the engine does not have.
LEMMA ExclusiveCommit ==
    ASSUME NEW r \in Request
    PROVE  TypeOK /\ ExclusiveInv /\ Commit(r) => ExclusiveInv'
<1> SUFFICES ASSUME TypeOK, ExclusiveInv, Commit(r) PROVE ExclusiveInv'
    OBVIOUS
<1> USE DEF dbVars, lifeVars, planVars, loopVars, engineVars, outside, hostVars
<1>1. UNCHANGED engineVars \/ start_assessment
    BY DEF Commit, CommitStart, CommitCancelAll, CommitCancel, CommitApprove,
       CommitDeny, resume_if_parked
<1>2. OfThisRun' \subseteq OfThisRun /\ fresh' \subseteq fresh /\ NoStepsOutsideRun'
    BY <1>1 DEF start_assessment, ClearEngine, ExclusiveInv, NoStepsOutsideRun,
       OfThisRun
<1>3. UNCHANGED <<permitted, surface>>
    BY DEF Commit, CommitStart, CommitCancelAll, CommitCancel, CommitApprove,
       CommitDeny
<1>4. LateDecisionIsForeign'
    <2>1. \A q \in Request : req'[q] = req[q] \/ req'[q] = NoRequest
        BY DEF Commit, CommitStart, CommitCancelAll, CommitCancel,
           CommitApprove, CommitDeny, Respond, TypeOK
    <2> QED
        BY <1>2, <2>1 DEF ExclusiveInv, LateDecisionIsForeign, NoRequest
<1>5. ASSUME NEW s \in Step, post'[s] # "none" PROVE s \notin OfThisRun
    <2>1. CASE post[s] # "none"
        BY <2>1 DEF ExclusiveInv, ExclusiveExecution, OfThisRun
    <2>2. CASE post[s] = "none"
        <3>1. CommitApprove(r) /\ req[r].state \in TerminalStates
            BY <1>5, <2>2 DEF Commit, CommitStart, CommitCancelAll,
               CommitCancel, CommitApprove, CommitDeny
        <3>2. s = req[r].step
            BY <1>5, <2>2, <3>1 DEF CommitApprove, start_approved_steps, TypeOK
        <3> QED
            BY <3>1, <3>2 DEF CommitApprove, ExclusiveInv, LateDecisionIsForeign
    <2> QED
        BY <2>1, <2>2
<1> QED
    BY <1>2, <1>3, <1>4, <1>5 DEF ExclusiveInv, ExclusiveExecution, OfThisRun,
       RowsHaveEndpoints

\* Every step keeps executors apart.
LEMMA ExclusiveNext ==
    TypeOK /\ ControlInv /\ GateInv /\ ExclusiveInv /\ [Next]_vars => ExclusiveInv'
<1> SUFFICES ASSUME TypeOK, ControlInv, GateInv, ExclusiveInv, [Next]_vars
             PROVE  ExclusiveInv'
    OBVIOUS
<1> USE DEF ExclusiveInv, RowsHaveEndpoints, NoStepsOutsideRun, OfThisRun,
            ExclusiveExecution, dbVars, lifeVars, planVars, loopVars,
            engineVars, outside, hostVars
<1>1. CASE MarkFailed
    BY <1>1, ExclusiveKept DEF MarkFailed, Finish, ClearEngine
<1>2. CASE PollApprovals
    BY <1>2, ExclusiveKept DEF PollApprovals, PollHeldSteps
<1>3. ASSUME NEW s \in Step, RetryErrored(s) PROVE ExclusiveInv'
    BY <1>3, ExclusiveKept DEF RetryErrored
<1>4. ASSUME NEW s \in Step, ApprovedStep(s) PROVE ExclusiveInv'
    <2>1. /\ \A q \in Step : post'[q] # "none" => post[q] # "none"
          /\ UNCHANGED <<surface, permitted, engineVars, req>>
        BY <1>4 DEF ApprovedStep, DropStaleStep, SkipApprovedStep,
           RunApprovedStep, RecordApprovedStep, AbandonApprovedStep,
           EndApprovedStep, PersistResult, TypeOK
    <2> QED
        BY <2>1 DEF LateDecisionIsForeign
<1>5. CASE Operator
    <2>1. CASE ChatStart
        BY <2>1, ExclusiveKept DEF ChatStart, start_assessment, ClearEngine
    <2>2. ASSUME NEW r \in Request, LoadStart(r) \/ LoadCancel(r)
          PROVE  ExclusiveInv'
        BY <2>2 DEF LoadStart, LoadCancel, Load, LateDecisionIsForeign, TypeOK
    <2>3. ASSUME NEW r \in Request, LoadHeldStep(r) PROVE ExclusiveInv'
        <3>1. state \in TerminalStates => OfThisRun = {}
            BY DEF ControlInv, EngineOwnsState, TerminalStates, Interruptible,
               InTry, Phases, PhaseOf, TypeOK, TaskPoint
        <3>2. PICK s \in Awaiting, op \in {"approve", "deny"} :
                 Load(r, [op |-> op, step |-> s, state |-> state])
            BY <2>3 DEF LoadHeldStep
        <3>3. LateDecisionIsForeign'
            BY <3>1, <3>2 DEF Load, LateDecisionIsForeign, TypeOK
        <3> QED
            BY <3>2, <3>3 DEF Load
    <2> QED
        BY <1>5, <2>1, <2>2, <2>3 DEF Operator
<1>6. CASE Crash
    BY <1>6 DEF Crash, ClearEngine, LateDecisionIsForeign, NoRequest
<1>7. CASE SweepReset
    BY <1>7 DEF SweepReset, ControlInv, SweepIsAlone, LateDecisionIsForeign
<1>8. CASE SweepLaunch \/ SweepNothing
    BY <1>8, ExclusiveKept DEF SweepLaunch, SweepNothing, start_assessment,
       ClearEngine
<1>9. CASE Replan
    <2>1. \A s \in OfThisRun' : s \in OfThisRun \/ s \notin surface \cap NeedsApproval
        BY <1>9 DEF Replan, CoverageGaps
    <2>2. RowsHaveEndpoints' /\ NoStepsOutsideRun'
        BY <1>9 DEF Replan, CoverageGaps
    <2> QED
        BY <1>9, <2>1, <2>2, ExclusiveKept DEF Replan
<1>10. CASE UNCHANGED vars
    BY <1>10, ExclusiveKept DEF vars
<1> QED
    BY <1>1, <1>2, <1>3, <1>4, <1>5, <1>6, <1>7, <1>8, <1>9, <1>10,
       ExclusiveEngine, ExclusiveCommit DEF Next, Host

\* The invariant behind it holds in every reachable state.
LEMMA ExclusiveCorrect == Spec => []ExclusiveInv
    BY ExclusiveInit, ExclusiveNext, TypeCorrect, ControlCorrect, GateCorrect,
       PTL DEF Spec

\* A step is never executed by the run and by a background task at once.
THEOREM OneExecutorPerStep == Spec => []ExclusiveExecution
    BY ExclusiveCorrect, PTL DEF ExclusiveInv

(***************************************************************************)
(* Lifecycle implements Assessment.                                         *)
(***************************************************************************)
LEMMA RefinesInit == Init => A!Init
    BY DEF Init, A!Init, Driver

\* Every step of the engine, of an operator and of the process is a step of the
\* abstract assessment or leaves it as it is.
LEMMA RefinesNext ==
    TypeOK /\ ControlInv /\ [Next]_vars => [A!Next]_<<state, Driver>>
<1> SUFFICES ASSUME TypeOK, ControlInv, [Next]_vars
             PROVE  [A!Next]_<<state, Driver>>
    OBVIOUS
<1> USE DEF dbVars, lifeVars, planVars, loopVars, engineVars, outside, hostVars
<1>1. ASSUME UNCHANGED <<state, task>> PROVE [A!Next]_<<state, Driver>>
    BY <1>1 DEF Driver
<1>2. ASSUME start_assessment, UNCHANGED state,
             boot = "serving" \/ boot = "relaunching"
      PROVE  [A!Next]_<<state, Driver>>
    <2>1. CASE is_running
        BY <1>1, <1>2, <2>1 DEF start_assessment
    <2>2. CASE ~is_running
        <3>1. Driver = "none" /\ Driver' = "launched"
            BY <1>2, <2>2 DEF start_assessment, is_running, Driver
        <3>2. state \notin A!ActiveStates
            BY <1>2, <2>2 DEF ControlInv, ActiveHasDriver, SweepFinds,
               ActiveStates, Phases, A!ActiveStates, A!Successor
        <3> QED
            BY <1>2, <3>1, <3>2 DEF A!Next, A!Launch
    <2> QED
        BY <2>1, <2>2
<1>3. CASE Engine
    <2>1. CASE BeginRun
        BY <2>1 DEF BeginRun, Driver, A!Next, A!Authorize
    <2>2. CASE EnterFirstPhase
        BY <2>2 DEF EnterFirstPhase, Enter, Driver, ControlInv, EngineOwnsState,
           A!Next, A!Advance, A!ActiveStates, A!Successor
    <2>3. CASE EnterNextPhase
        <3>1. /\ state = PhaseOf(task) /\ state \in Phases \ {"reporting"}
              /\ state' = NextPhase[state] /\ task' = state'
              /\ Driver = "driving"
            BY <2>3 DEF EnterNextPhase, Enter, ControlInv, EngineOwnsState,
               InTry, Phases, PhaseOf, Driver
        <3>2. state' = A!Successor[state] /\ Driver' = "driving"
            BY <3>1 DEF NextPhase, Phases, Driver, A!Successor
        <3> QED
            BY <3>1, <3>2 DEF A!Next, A!Advance, A!ActiveStates, A!Successor,
               Phases
    <2>4. CASE SeeCancel
        <3>1. Driver = "driving" /\ Driver' = "driving" /\ UNCHANGED state
            BY <2>4 DEF SeeCancel, AtLook, Driver, InTry, Phases
        <3> QED
            BY <3>1
    <2>5. CASE FinishCancelled
        BY <2>5 DEF FinishCancelled, Finish, ControlInv, EngineOwnsState,
           Interruptible, Driver, A!Next, A!Conclude, A!Cancellable,
           A!ActiveStates, A!Successor
    <2>6. CASE Complete
        BY <2>6 DEF Complete, Finish, ControlInv, EngineOwnsState, InTry,
           Phases, PhaseOf, Driver, A!Next, A!Conclude
    <2>7. CASE LeaveRegistry
        BY <2>7 DEF LeaveRegistry, Driver, A!Next, A!Release
    <2>8. CASE Discover \/ Plan \/ LeaveApprovalWait \/ SkipExecution
               \/ (\E s \in Step : StreamResult(s)) \/ StopStreaming
               \/ FinishExecute \/ SeeNoCancel \/ StopReplan
        BY <1>1, <2>8 DEF Discover, Plan, LeaveApprovalWait, SkipExecution,
           StreamResult, StopStreaming, FinishExecute, SeeNoCancel, StopReplan
    <2>9. CASE EvaluatePolicy \/ StartAgents
        <3>1. /\ task \in {"policy_check", "executing"}
              /\ task' \in {"policy_check", "awaiting", "streaming"}
              /\ UNCHANGED state
            BY <2>9 DEF EvaluatePolicy, StartAgents
        <3> QED
            BY <3>1 DEF Driver
    <2> QED
        BY <1>3, <2>1, <2>2, <2>3, <2>4, <2>5, <2>6, <2>7, <2>8, <2>9 DEF Engine
<1>4. CASE MarkFailed
    <2>1. task \in TaskPoint /\ task \notin {"idle", "ending"}
        BY <1>4 DEF MarkFailed, TypeOK
    <2>2. state' = "failed" /\ Driver' = "done"
        BY <1>4 DEF MarkFailed, Finish, Driver
    <2>3. CASE task = "queued"
        BY <2>2, <2>3 DEF A!Next, A!Break, Driver
    <2>4. CASE task # "queued"
        <3>1. state \in Phases \cup {"authorized"} /\ Driver = "driving"
            BY <2>1, <2>4 DEF ControlInv, EngineOwnsState, TaskPoint, InTry, Phases,
               Interruptible, PhaseOf, Driver
        <3> QED
            BY <2>2, <3>1 DEF Phases, A!Next, A!Conclude, A!ActiveStates, A!Successor
    <2> QED
        BY <2>3, <2>4
<1>5. CASE PollApprovals
    BY <1>1, <1>5 DEF PollApprovals
<1>6. ASSUME NEW s \in Step, RetryErrored(s) \/ ApprovedStep(s)
      PROVE  [A!Next]_<<state, Driver>>
    BY <1>1, <1>6 DEF RetryErrored, ApprovedStep, DropStaleStep,
       SkipApprovedStep, RunApprovedStep, RecordApprovedStep,
       AbandonApprovedStep
<1>7. CASE Operator
    BY <1>1, <1>2, <1>7 DEF Operator, ChatStart, LoadStart, LoadCancel,
       LoadHeldStep, Load
<1>8. ASSUME NEW r \in Request, Commit(r) PROVE [A!Next]_<<state, Driver>>
    <2>1. boot = "serving"
        <3>1. req[r].op # "none"
            BY <1>8 DEF Commit, CommitStart, CommitCancelAll, CommitCancel,
               CommitApprove, CommitDeny
        <3>2. NoRequest.op = "none"
            BY DEF NoRequest
        <3>3. req[r] # NoRequest
            BY <3>1, <3>2
        <3> QED
            BY <3>3 DEF ControlInv, SweepIsAlone
    <2>2. CASE CommitCancel(r)
        <3>1. CASE is_running
            BY <1>1, <2>2, <3>1 DEF CommitCancel, CancelledState
        <3>2. CASE ~is_running
            <4>1. Driver = "none" /\ Driver' = "none" /\ state' = "cancelled"
                BY <2>2, <3>2 DEF CommitCancel, CancelledState, is_running,
                   Driver
            <4>2. state \notin A!ActiveStates
                BY <2>1, <3>2 DEF ControlInv, ActiveHasDriver, ActiveStates,
                   Phases, A!ActiveStates, A!Successor
            <4> QED
                BY <4>1, <4>2 DEF A!Next, A!Withdraw
        <3> QED
            BY <3>1, <3>2
    <2>3. CASE ~CommitCancel(r)
        BY <1>1, <1>2, <1>8, <2>1, <2>3 DEF Commit, CommitStart,
           CommitCancelAll, CommitApprove, CommitDeny, resume_if_parked
    <2> QED
        BY <2>2, <2>3
<1>9. CASE Crash
    BY <1>9 DEF Crash, Driver, A!Next, A!Crash
<1>10. CASE SweepReset
    <2>1. Driver = "none" /\ Driver' = "none" /\ state' = "created"
        BY <1>10 DEF SweepReset, ControlInv, SweepIsAlone, Driver
    <2>2. state = "created" \/ state \in A!ActiveStates
        BY <1>10 DEF SweepReset, Interrupted, TypeOK, AssessmentState,
           ActiveStates, Phases, A!ActiveStates, A!Successor
    <2> QED
        BY <2>1, <2>2 DEF A!Next, A!Recover
<1>11. CASE SweepLaunch
    BY <1>2, <1>11 DEF SweepLaunch
<1>12. CASE SweepNothing
    BY <1>1, <1>12 DEF SweepNothing
<1>13. CASE Replan
    BY <1>13 DEF Replan, Driver
<1>14. CASE UNCHANGED vars
    BY <1>1, <1>14 DEF vars
<1> QED
    BY <1>3, <1>4, <1>5, <1>6, <1>7, <1>8, <1>9, <1>10, <1>11, <1>12, <1>13,
       <1>14 DEF Next, Host

\* The engine with its operators and crashes has only the behaviours that the
\* assessment promises, in the order of its phases and with one driver at a time.
THEOREM LifecycleImplementsAssessment == Spec => ImplementsAssessment
    BY RefinesInit, RefinesNext, TypeCorrect, ControlCorrect, PTL
    DEF Spec, ImplementsAssessment, A!Spec, A!vars

(***************************************************************************)
(* What a completed run reports.  Results are dropped in one place of the   *)
(* engine and reported in another, several phases later; in between the     *)
(* note must not be lost, and no job row that it speaks of may go.          *)
(***************************************************************************)
\* Nothing of the plan was dropped, or the note says so.
Reported == exec_note \in {"partial", "coordinator_stop"} \/ batch \subseteq jobs

ReportInv ==
    /\ task = "streaming" /\ body = "running" => batch \subseteq jobs \cup pending
    /\ \/ task \in {"replanning", "validating", "scoring", "reporting"}
       \/ task \in {"executing", "streaming"} /\ body # "running"
       => Reported

\* Whatever leaves the engine, its batch and its note alone, and loses no job row,
\* keeps the report.
LEMMA ReportKept ==
    ASSUME ReportInv, UNCHANGED engineVars, jobs \subseteq jobs'
    PROVE  ReportInv'
    BY DEF ReportInv, Reported, engineVars, loopVars

\* A launch is ignored, or it begins where nothing is reported yet.
LEMMA ReportStart ==
    ASSUME ReportInv, start_assessment, UNCHANGED jobs
    PROVE  ReportInv'
<1>1. CASE is_running
    BY <1>1, ReportKept DEF start_assessment
<1>2. CASE ~is_running
    BY <1>2 DEF start_assessment, ReportInv
<1> QED
    BY <1>1, <1>2

\* The engine takes the note from where results are dropped to where it reports.
LEMMA ReportEngine == TypeOK /\ ReportInv /\ Engine => ReportInv'
<1> SUFFICES ASSUME TypeOK, ReportInv, Engine PROVE ReportInv'
    OBVIOUS
<1> USE DEF ReportInv, Reported, dbVars, lifeVars, planVars, loopVars,
            engineVars, outside, hostVars
<1>1. CASE BeginRun \/ EnterFirstPhase \/ SeeCancel \/ LeaveRegistry
    BY <1>1 DEF BeginRun, EnterFirstPhase, Enter, SeeCancel, LeaveRegistry
<1>2. CASE EnterNextPhase
    <2>1. /\ task' = NextPhase[PhaseOf(task)] /\ UNCHANGED <<batch, exec_note, jobs>>
          /\ PhaseOf(task) \in Phases \ {"reporting"}
        BY <1>2 DEF EnterNextPhase, Enter, InTry, Phases, PhaseOf
    <2>2. CASE PhaseOf(task) \in {"discovering", "planning", "policy_check"}
        <3>1. \/ task' \in {"planning", "policy_check"}
              \/ task' = "executing" /\ body' = "running"
            BY <1>2, <2>1, <2>2 DEF EnterNextPhase, Enter, NextPhase
        <3> QED
            BY <3>1
    <2>3. CASE PhaseOf(task) = "executing"
        <3>1. Reported
            BY <1>2, <2>3 DEF EnterNextPhase, PhaseOf, InTry, Phases
        <3>2. task' = "validating"
            BY <2>1, <2>3 DEF NextPhase
        <3> QED
            BY <2>1, <3>1, <3>2
    <2>4. CASE PhaseOf(task) \in {"validating", "scoring"}
        <3>1. Reported
            BY <2>4 DEF PhaseOf
        <3>2. task' \in {"scoring", "reporting"}
            BY <2>1, <2>4 DEF NextPhase
        <3> QED
            BY <2>1, <3>1, <3>2
    <2> QED
        BY <2>1, <2>2, <2>3, <2>4 DEF Phases
<1>3. CASE FinishCancelled \/ Complete
    BY <1>3 DEF FinishCancelled, Complete, Finish
<1>4. CASE Discover \/ Plan \/ EvaluatePolicy \/ LeaveApprovalWait
    BY <1>4 DEF Discover, Plan, EvaluatePolicy, LeaveApprovalWait
<1>5. CASE SeeNoCancel
    BY <1>5 DEF SeeNoCancel, AtLook, InTry, Phases
<1>6. CASE SkipExecution
    BY <1>6 DEF SkipExecution
<1>7. CASE StartAgents
    BY <1>7 DEF StartAgents
<1>8. ASSUME NEW s \in Step, StreamResult(s) PROVE ReportInv'
    BY <1>8 DEF StreamResult, PersistResult
<1>9. CASE StopStreaming \/ StopReplan
    BY <1>9 DEF StopStreaming, StopReplan
<1>10. CASE FinishExecute
    BY <1>10 DEF FinishExecute
<1> QED
    BY <1>1, <1>2, <1>3, <1>4, <1>5, <1>6, <1>7, <1>8, <1>9, <1>10 DEF Engine

\* Only the sweep deletes job rows, and it runs when there is no engine.
LEMMA ReportNext == TypeOK /\ ControlInv /\ ReportInv /\ [Next]_vars => ReportInv'
<1> SUFFICES ASSUME TypeOK, ControlInv, ReportInv, [Next]_vars PROVE ReportInv'
    OBVIOUS
<1> USE DEF dbVars, lifeVars, planVars, loopVars, engineVars, outside, hostVars
<1>1. CASE MarkFailed
    BY <1>1 DEF MarkFailed, Finish, ReportInv
<1>2. CASE PollApprovals
    BY <1>2 DEF PollApprovals, ReportInv
<1>3. ASSUME NEW s \in Step, RetryErrored(s) PROVE ReportInv'
    BY <1>3, ReportKept DEF RetryErrored
<1>4. ASSUME NEW s \in Step, ApprovedStep(s) PROVE ReportInv'
    BY <1>4, ReportKept DEF ApprovedStep, DropStaleStep, SkipApprovedStep,
       RunApprovedStep, RecordApprovedStep, AbandonApprovedStep, PersistResult
<1>5. CASE Operator
    BY <1>5, ReportKept, ReportStart DEF Operator, ChatStart, LoadStart, LoadCancel,
       LoadHeldStep, Load
<1>6. ASSUME NEW r \in Request, Commit(r) PROVE ReportInv'
    BY <1>6, ReportKept, ReportStart DEF Commit, CommitStart, CommitCancelAll,
       CommitCancel, CommitApprove, CommitDeny, resume_if_parked
<1>7. CASE Replan
    BY <1>7 DEF Replan, ReportInv, Reported
<1>8. CASE Crash
    BY <1>8 DEF Crash, ReportInv
<1>9. CASE SweepReset
    BY <1>9 DEF SweepReset, ControlInv, SweepIsAlone, ReportInv
<1>10. CASE SweepLaunch
    BY <1>10, ReportStart DEF SweepLaunch
<1>11. CASE SweepNothing
    BY <1>11, ReportKept DEF SweepNothing
<1>12. CASE UNCHANGED vars
    BY <1>12, ReportKept DEF vars
<1> QED
    BY <1>1, <1>2, <1>3, <1>4, <1>5, <1>6, <1>7, <1>8, <1>9, <1>10, <1>11, <1>12,
       ReportEngine DEF Next, Host

\* The one action that completes a run is the engine's own.
LEMMA OnlyCompleteCompletes ==
    ASSUME TypeOK, [Next]_vars, state # "completed", state' = "completed"
    PROVE  Complete
<1> USE DEF dbVars, lifeVars, planVars, loopVars, engineVars, outside, hostVars
<1>1. CASE Engine
    <2>1. CASE EnterNextPhase
        <3>1. PhaseOf(task) \in Phases \ {"reporting"}
            BY <2>1 DEF EnterNextPhase, InTry, Phases, PhaseOf
        <3>2. NextPhase[PhaseOf(task)] # "completed"
            BY <3>1 DEF NextPhase, Phases
        <3> QED
            BY <2>1, <3>2 DEF EnterNextPhase, Enter
    <2>2. CASE ~EnterNextPhase /\ ~Complete
        BY <1>1, <2>2 DEF Engine, BeginRun, EnterFirstPhase, Enter, SeeCancel,
           SeeNoCancel, FinishCancelled, Finish, LeaveRegistry, Discover, Plan,
           EvaluatePolicy, LeaveApprovalWait, SkipExecution, StartAgents,
           StreamResult, StopStreaming, StopReplan, FinishExecute
    <2> QED
        BY <2>1, <2>2
<1>2. CASE MarkFailed \/ PollApprovals \/ Replan
    BY <1>2 DEF MarkFailed, Finish, PollApprovals, Replan
<1>3. ASSUME NEW s \in Step, RetryErrored(s) \/ ApprovedStep(s) PROVE FALSE
    BY <1>3 DEF RetryErrored, ApprovedStep, DropStaleStep, SkipApprovedStep,
       RunApprovedStep, RecordApprovedStep, AbandonApprovedStep
<1>4. CASE Operator
    BY <1>4 DEF Operator, ChatStart, LoadStart, LoadCancel, LoadHeldStep, Load
<1>5. ASSUME NEW r \in Request, Commit(r) PROVE FALSE
    BY <1>5 DEF Commit, CommitStart, CommitCancelAll, CommitCancel, CancelledState,
       CommitApprove, CommitDeny
<1>6. CASE Crash \/ Host
    BY <1>6 DEF Crash, Host, SweepReset, SweepLaunch, SweepNothing
<1>7. CASE UNCHANGED vars
    BY <1>7 DEF vars
<1> QED
    BY <1>1, <1>2, <1>3, <1>4, <1>5, <1>6, <1>7 DEF Next

\* A run that completes as "executed" has a job row for every step of its plan,
\* unless the coordinator had elected to execute none of them.
THEOREM NothingIsDroppedSilently == Spec => DroppedResultsAreReported
<1>1. Init => ReportInv
    BY DEF Init, ReportInv
<1>2. Spec => [](TypeOK /\ ReportInv)
    BY <1>1, ReportNext, TypeCorrect, ControlCorrect, PTL DEF Spec
<1>3. TypeOK /\ ReportInv /\ [Next]_vars
          => [(/\ state # "completed" /\ state' = "completed"
               /\ completion_reason' = "executed" /\ exec_note # "coordinator_stop")
              => batch \subseteq jobs]_vars
    <2> SUFFICES ASSUME TypeOK, ReportInv, [Next]_vars,
                        state # "completed", state' = "completed",
                        completion_reason' = "executed",
                        exec_note # "coordinator_stop"
                 PROVE  batch \subseteq jobs
        OBVIOUS
    <2>1. Complete
        BY OnlyCompleteCompletes
    <2>2. exec_note # "partial"
        BY <2>1 DEF Complete, CompletionReasonNow
    <2> QED
        BY <2>1, <2>2 DEF Complete, ReportInv, Reported
<1> QED
    BY <1>2, <1>3, PTL DEF Spec, DroppedResultsAreReported

(***************************************************************************)
(* A cancel that is still ahead of a look.  That it stops the run needs     *)
(* fairness; that the run does not slip past it does not.                   *)
(***************************************************************************)
\* The run is not past its last look, or another one would have to begin.
CancelAhead ==
    /\ state # "completed"
    /\ task \in {"idle", "queued", "cancelling", "ending"} \/ LookAhead

\* A cancel that comes before the last look of a run and is not taken back keeps
\* the assessment from being completed, by this run or by any later one.
EarlyCancelNeverCompletes ==
    []((cancel_requested /\ LookAhead) /\ []cancel_requested
          => [](state # "completed"))

\* With the flag up nobody passes the look after the execute phase.
LEMMA CancelStaysAhead ==
    TypeOK /\ ControlInv /\ CancelAhead /\ cancel_requested /\ [Next]_vars
        => CancelAhead'
<1> SUFFICES ASSUME TypeOK, ControlInv, CancelAhead, cancel_requested, [Next]_vars
             PROVE  CancelAhead'
    OBVIOUS
<1> USE DEF CancelAhead, dbVars, lifeVars, planVars, loopVars, engineVars,
            outside, hostVars
<1>1. state' # "completed"
    <2>1. ~Complete
        BY DEF Complete, LookAhead, PhaseOf, InTry, Phases
    <2> QED
        BY <2>1, OnlyCompleteCompletes
<1>2. ASSUME task' \in {"idle", "queued", "cancelling", "ending"} \/ LookAhead'
      PROVE  CancelAhead'
    BY <1>1, <1>2
<1>3. CASE UNCHANGED <<task, body>>
    BY <1>2, <1>3 DEF LookAhead
<1>4. CASE start_assessment
    BY <1>2, <1>3, <1>4 DEF start_assessment
<1>5. CASE Engine
    <2>1. CASE BeginRun
        BY <1>2, <2>1 DEF BeginRun, LookAhead
    <2>2. CASE SeeNoCancel
        BY <2>2 DEF SeeNoCancel
    <2>3. CASE EnterFirstPhase
        BY <1>2, <2>3 DEF EnterFirstPhase, Enter, LookAhead, PhaseOf, InTry, Phases
    <2>4. CASE EnterNextPhase
        <3>1. /\ LookAhead /\ PhaseOf(task) \in {"discovering", "planning", "policy_check"}
              /\ task' = NextPhase[PhaseOf(task)]
            BY <2>4 DEF EnterNextPhase, Enter, LookAhead, InTry, Phases, PhaseOf,
               Interruptible
        <3>2. \/ task' \in {"planning", "policy_check"}
              \/ task' = "executing" /\ body' = "running"
            BY <2>4, <3>1 DEF EnterNextPhase, Enter, NextPhase
        <3> QED
            BY <1>2, <3>2 DEF LookAhead, PhaseOf, InTry, Phases
    <2>5. CASE SeeCancel \/ FinishCancelled \/ Complete \/ LeaveRegistry
        BY <1>2, <2>5 DEF SeeCancel, FinishCancelled, Complete, Finish, LeaveRegistry
    <2>6. CASE Discover \/ Plan \/ EvaluatePolicy \/ LeaveApprovalWait
        BY <1>2, <2>6 DEF Discover, Plan, EvaluatePolicy, LeaveApprovalWait,
           LookAhead, PhaseOf, InTry, Phases
    <2>7. CASE SkipExecution \/ StartAgents \/ (\E s \in Step : StreamResult(s))
               \/ StopStreaming \/ StopReplan \/ FinishExecute
        BY <1>2, <2>7 DEF SkipExecution, StartAgents, StreamResult, StopStreaming,
           StopReplan, FinishExecute, LookAhead, PhaseOf, InTry, Phases
    <2> QED
        BY <1>5, <2>1, <2>2, <2>3, <2>4, <2>5, <2>6, <2>7 DEF Engine
<1>6. CASE MarkFailed
    BY <1>2, <1>6 DEF MarkFailed, Finish
<1>7. CASE PollApprovals
    BY <1>3, <1>7 DEF PollApprovals
<1>8. ASSUME NEW s \in Step, RetryErrored(s) \/ ApprovedStep(s) PROVE CancelAhead'
    BY <1>3, <1>8 DEF RetryErrored, ApprovedStep, DropStaleStep, SkipApprovedStep,
       RunApprovedStep, RecordApprovedStep, AbandonApprovedStep
<1>9. CASE Replan
    BY <1>9 DEF Replan
<1>10. CASE Operator
    BY <1>3, <1>4, <1>10 DEF Operator, ChatStart, LoadStart, LoadCancel, LoadHeldStep, Load
<1>11. ASSUME NEW r \in Request, Commit(r) PROVE CancelAhead'
    BY <1>3, <1>4, <1>11 DEF Commit, CommitStart, CommitCancelAll, CommitCancel,
       CommitApprove, CommitDeny, resume_if_parked
<1>12. CASE Crash
    BY <1>2, <1>12 DEF Crash
<1>13. CASE Host
    BY <1>3, <1>4, <1>13 DEF Host, SweepReset, SweepLaunch, SweepNothing
<1>14. CASE UNCHANGED vars
    BY <1>3, <1>14 DEF vars
<1> QED
    BY <1>5, <1>6, <1>7, <1>8, <1>9, <1>10, <1>11, <1>12, <1>13, <1>14 DEF Next

\* The safety half of EarlyCancelStops: no interleaving of the engine, operators,
\* crashes and launches carries a run past a cancel that stays.
THEOREM EarlyCancelIsNotPassed == Spec => EarlyCancelNeverCompletes
<1>1. TypeOK /\ ControlInv /\ cancel_requested /\ LookAhead => CancelAhead
    BY DEF ControlInv, EngineOwnsState, CancelAhead, LookAhead, PhaseOf, InTry, Phases
<1>2. CancelAhead => state # "completed"
    BY DEF CancelAhead
<1> QED
    BY <1>1, <1>2, CancelStaysAhead, TypeCorrect, ControlCorrect, PTL
    DEF Spec, EarlyCancelNeverCompletes
(***************************************************************************)
(* An approval that the run waits for.  That the wait comes to its last     *)
(* round needs fairness; that no round misses the approval does not.        *)
(***************************************************************************)
Awaited(s) ==
    /\ task = "awaiting" /\ body = "running"
    /\ s \in pending /\ step[s] = "approved"

\* While the run still polls for a step that was approved, every step of the system
\* leaves the approval to be seen, takes the step into the batch, or is one of those
\* that AwaitedApprovalIsTaken excepts: a denial, a failure, a crash.
ApprovalIsNotMissed ==
    [][\A s \in Step : Awaited(s) =>
          \/ Awaited(s)' \/ s \in batch'
          \/ step'[s] # "approved" \/ state' = "failed" \/ boot' = "sweeping"]_vars

\* The safety half of AwaitedApprovalIsTaken: the rounds of the poll, the last one
\* included, read the rows before they decide, and nobody else touches the pending ones.
THEOREM AwaitedApprovalIsSeen == Spec => ApprovalIsNotMissed
<1> DEFINE Kept(s) ==
        \/ Awaited(s)' \/ s \in batch'
        \/ step'[s] # "approved" \/ state' = "failed" \/ boot' = "sweeping"
<1>1. ASSUME ControlInv, [Next]_vars, NEW s \in Step, Awaited(s) PROVE Kept(s)
    <2> USE DEF Awaited, dbVars, lifeVars, planVars, loopVars, engineVars, outside, hostVars
    <2>0. is_running
        BY <1>1 DEF is_running
    <2>1. CASE UNCHANGED <<task, body, pending>>
        BY <1>1, <2>1
    <2>2. CASE PollApprovals \/ LeaveApprovalWait
        BY <1>1, <2>2 DEF PollApprovals, LeaveApprovalWait, PollHeldSteps
    <2>3. CASE MarkFailed
        BY <2>3 DEF MarkFailed, Finish
    <2>4. CASE Engine /\ ~LeaveApprovalWait
        BY <1>1, <2>4 DEF Engine, BeginRun, EnterFirstPhase, EnterNextPhase, Enter,
           SeeCancel, SeeNoCancel, FinishCancelled, Complete, LeaveRegistry, Discover,
           Plan, EvaluatePolicy, SkipExecution, StartAgents, StreamResult,
           StopStreaming, StopReplan, FinishExecute, AtLook
    <2>5. CASE \E r \in Step : RetryErrored(r) \/ ApprovedStep(r)
        BY <1>1, <2>1, <2>5 DEF RetryErrored, ApprovedStep, DropStaleStep,
           SkipApprovedStep, RunApprovedStep, RecordApprovedStep, AbandonApprovedStep
    <2>6. CASE Replan
        BY <1>1, <2>6 DEF Replan
    <2>7. CASE start_assessment
        BY <2>0, <2>1, <2>7 DEF start_assessment
    <2>8. CASE Operator
        <3>1. UNCHANGED <<task, body, pending>> \/ start_assessment
            BY <2>8 DEF Operator, ChatStart, LoadStart, LoadCancel, LoadHeldStep, Load
        <3> QED
            BY <2>1, <2>7, <3>1
    <2>9. CASE \E r \in Request : Commit(r)
        <3>1. UNCHANGED <<task, body, pending>> \/ start_assessment
            BY <2>9 DEF Commit, CommitStart, CommitCancelAll, CommitCancel,
               CommitApprove, CommitDeny, resume_if_parked
        <3> QED
            BY <2>1, <2>7, <3>1
    <2>10. CASE Crash
        BY <2>10 DEF Crash
    <2>11. CASE Host
        <3>1. UNCHANGED <<task, body, pending>> \/ start_assessment
            BY <2>11 DEF Host, SweepReset, SweepLaunch, SweepNothing
        <3> QED
            BY <2>1, <2>7, <3>1
    <2>12. CASE UNCHANGED vars
        BY <2>1, <2>12 DEF vars
    <2> QED
        BY <1>1, <2>2, <2>3, <2>4, <2>5, <2>6, <2>8, <2>9, <2>10, <2>11, <2>12 DEF Next
<1>2. ControlInv /\ [Next]_vars => [\A s \in Step : Awaited(s) => Kept(s)]_vars
    BY <1>1
<1> QED
    BY <1>2, ControlCorrect, PTL DEF Spec, ApprovalIsNotMissed

(***************************************************************************)
(* Why a run ends.  What it has ahead of it is a place in the order of the  *)
(* phases, then the place in the phase's body, then the steps whose results *)
(* or decisions are missing, and then those that are left to retry.         *)
(***************************************************************************)
StageOf ==
    [queued |-> 14, authorized |-> 13, discovering |-> 12, planning |-> 11,
     policy_check |-> 10, awaiting |-> 9, executing |-> 8, streaming |-> 7,
     replanning |-> 6, validating |-> 5, scoring |-> 4, reporting |-> 3,
     cancelling |-> 2, ending |-> 1, idle |-> 0]

BodyAhead == [running |-> 2, returned |-> 1, cleared |-> 0]

Errored == {s \in batch : step[s] = "errored"}

\* The four numbers, compared from the left, have become smaller.
Nearer ==
    \/ StageOf[task'] < StageOf[task]
    \/ UNCHANGED task /\ BodyAhead[body'] < BodyAhead[body]
    \/ UNCHANGED <<task, body>> /\ Cardinality(pending') < Cardinality(pending)
    \/ /\ UNCHANGED <<task, body, pending>>
       /\ Cardinality(Errored') < Cardinality(Errored)

\* None has become larger.
NotFarther ==
    /\ UNCHANGED <<task, body>>
    /\ pending' \subseteq pending
    /\ Errored' \subseteq Errored

EngineAdvances == Engine \/ MarkFailed \/ Replan \/ \E s \in Step : RetryErrored(s)

\* Each step of the engine but another round of polling brings the run nearer to its
\* end, and nobody else, no decision, cancel, late step or sweep, takes it back.
RunCountsDown ==
    [][/\ EngineAdvances => Nearer
       /\ is_running => Nearer \/ NotFarther]_vars

\* The numbers have no infinite descent: they are natural ones.
RunAheadIsNatural ==
    /\ StageOf[task] \in Nat
    /\ BodyAhead[body] \in Nat
    /\ Cardinality(pending) \in Nat
    /\ Cardinality(Errored) \in Nat

\* There are finitely many steps, and so each of the numbers is one.
LEMMA RunAheadTyped ==
    ASSUME IsFiniteSet(Step), TypeOK
    PROVE  RunAheadIsNatural
<1>1. StageOf[task] \in Nat
    BY DEF TypeOK, TaskPoint, InTry, Phases, StageOf
<1>2. BodyAhead[body] \in Nat
    BY DEF TypeOK, BodyAhead
<1>3. pending \subseteq Step /\ Errored \subseteq Step
    BY DEF TypeOK, Errored
<1>4. IsFiniteSet(pending) /\ IsFiniteSet(Errored)
    BY <1>3, FS_Subset
<1> QED
    BY <1>1, <1>2, <1>4, FS_CardinalityType DEF RunAheadIsNatural

\* A set of steps that loses one of its members has fewer of them.
LEMMA FewerSteps ==
    ASSUME IsFiniteSet(Step), NEW T \in SUBSET Step, NEW s \in T
    PROVE  Cardinality(T \ {s}) < Cardinality(T)
<1>1. IsFiniteSet(T)
    BY FS_Subset
<1>2. Cardinality(T) \in Nat /\ Cardinality(T \ {s}) = Cardinality(T) - 1
    BY <1>1, FS_RemoveElement, FS_CardinalityType
<1> QED
    BY <1>2

\* Every place of the engine leads to a later one.
LEMMA EngineComesNearer ==
    ASSUME IsFiniteSet(Step), TypeOK, EngineAdvances
    PROVE  Nearer
<1> USE DEF dbVars, lifeVars, planVars, loopVars, engineVars, outside, hostVars
<1>1. CASE BeginRun \/ EnterFirstPhase \/ SeeCancel \/ FinishCancelled \/ Complete
           \/ LeaveRegistry \/ StartAgents \/ Replan
    <2>1. StageOf[task'] < StageOf[task]
        BY <1>1 DEF BeginRun, EnterFirstPhase, Enter, SeeCancel, FinishCancelled,
           Complete, LeaveRegistry, StartAgents, Replan, Finish, AtLook,
           InTry, Phases, Interruptible, PhaseOf, StageOf
    <2> QED
        BY <2>1 DEF Nearer
<1>2. CASE EnterNextPhase
    <2>1. task \in InTry /\ PhaseOf(task) # "reporting" /\ task' = NextPhase[PhaseOf(task)]
        BY <1>2 DEF EnterNextPhase, Enter
    <2>2. StageOf[task'] < StageOf[task]
        BY <2>1 DEF InTry, Phases, PhaseOf, NextPhase, StageOf
    <2> QED
        BY <2>2 DEF Nearer
<1>3. CASE SeeNoCancel \/ Discover \/ Plan \/ LeaveApprovalWait \/ SkipExecution
           \/ StopStreaming \/ StopReplan \/ FinishExecute
    <2>1. UNCHANGED task /\ BodyAhead[body'] < BodyAhead[body]
        BY <1>3 DEF SeeNoCancel, Discover, Plan, LeaveApprovalWait, SkipExecution,
           StopStreaming, StopReplan, FinishExecute, AtLook, BodyAhead
    <2> QED
        BY <2>1 DEF Nearer
<1>4. CASE EvaluatePolicy
    <2>1. \/ StageOf[task'] < StageOf[task]
          \/ UNCHANGED task /\ BodyAhead[body'] < BodyAhead[body]
        BY <1>4 DEF EvaluatePolicy, StageOf, BodyAhead
    <2> QED
        BY <2>1 DEF Nearer
<1>5. ASSUME NEW s \in Step, StreamResult(s) PROVE Nearer
    <2>1. /\ UNCHANGED <<task, body>>
          /\ s \in pending /\ pending' = pending \ {s} /\ pending \in SUBSET Step
        BY <1>5 DEF StreamResult, TypeOK
    <2>2. Cardinality(pending') < Cardinality(pending)
        BY <2>1, FewerSteps
    <2> QED
        BY <2>1, <2>2 DEF Nearer
<1>6. ASSUME NEW s \in Step, RetryErrored(s) PROVE Nearer
    <2>1. /\ UNCHANGED <<task, body, pending, batch>>
          /\ s \in batch /\ step[s] = "errored" /\ step' = [step EXCEPT ![s] = "done"]
        BY <1>6 DEF RetryErrored
    <2>2. s \in Errored /\ Errored' = Errored \ {s} /\ Errored \in SUBSET Step
        BY <2>1 DEF Errored, TypeOK
    <2>3. Cardinality(Errored') < Cardinality(Errored)
        BY <2>2, FewerSteps
    <2> QED
        BY <2>1, <2>3 DEF Nearer
<1>7. CASE MarkFailed
    <2>1. task \in TaskPoint /\ task \notin {"idle", "ending"} /\ task' = "ending"
        BY <1>7 DEF MarkFailed, Finish, TypeOK
    <2>2. StageOf[task'] < StageOf[task]
        BY <2>1 DEF TaskPoint, InTry, Phases, StageOf
    <2> QED
        BY <2>2 DEF Nearer
<1> QED
    BY <1>1, <1>2, <1>3, <1>4, <1>5, <1>6, <1>7 DEF EngineAdvances, Engine

\* Everybody else leaves a run where it is, or loses it in a crash.
LEMMA NobodyTakesItBack ==
    ASSUME TypeOK, ControlInv, ExclusiveInv, is_running, [Next]_vars, ~EngineAdvances
    PROVE  Nearer \/ NotFarther
<1> USE DEF dbVars, lifeVars, planVars, loopVars, engineVars, outside, hostVars
<1>1. ASSUME UNCHANGED engineVars,
             \A s \in batch : step'[s] = "errored" => step[s] = "errored"
      PROVE  NotFarther
    BY <1>1 DEF NotFarther, Errored
<1>2. CASE PollApprovals
    <2>1. batch' = batch \cup {s \in pending : step[s] = "approved"} /\ UNCHANGED <<step, task, body>>
        BY <1>2 DEF PollApprovals, PollHeldSteps
    <2>2. Errored' \subseteq Errored
        BY <2>1 DEF Errored
    <2> QED
        BY <1>2, <2>1, <2>2 DEF NotFarther, PollApprovals, PollHeldSteps
<1>3. ASSUME NEW s \in Step, ApprovedStep(s) PROVE NotFarther
    <2>1. /\ UNCHANGED engineVars
          /\ post[s] # "none"
          /\ \A q \in Step \ {s} : step'[q] = step[q]
        BY <1>3 DEF ApprovedStep, DropStaleStep, SkipApprovedStep, RunApprovedStep,
           RecordApprovedStep, AbandonApprovedStep, PersistResult, TypeOK
    <2>2. s \notin batch /\ batch \subseteq Step
        BY <2>1 DEF ExclusiveInv, ExclusiveExecution, TypeOK
    <2> QED
        BY <1>1, <2>1, <2>2
<1>4. CASE Operator
    <2>1. UNCHANGED <<engineVars, step>>
        BY <1>4 DEF Operator, ChatStart, LoadStart, LoadCancel, LoadHeldStep, Load,
           start_assessment
    <2> QED
        BY <1>1, <2>1
<1>5. ASSUME NEW r \in Request, Commit(r) PROVE NotFarther
    <2>1. UNCHANGED engineVars
        BY <1>5 DEF Commit, CommitStart, CommitCancelAll, CommitCancel, CommitApprove,
           CommitDeny, resume_if_parked, start_assessment
    <2>2. \A q \in Step : step'[q] = step[q] \/ step'[q] \in {"approved", "denied"}
        BY <1>5 DEF Commit, CommitStart, CommitCancelAll, CommitCancel, CommitApprove,
           CommitDeny, TypeOK
    <2>3. batch \subseteq Step
        BY DEF TypeOK
    <2> QED
        BY <1>1, <2>1, <2>2, <2>3
<1>6. CASE Crash
    <2>1. task # "idle" /\ task' = "idle" /\ task \in TaskPoint
        BY <1>6 DEF Crash, is_running, TypeOK
    <2>2. StageOf[task'] < StageOf[task]
        BY <2>1 DEF TaskPoint, InTry, Phases, StageOf
    <2> QED
        BY <2>2 DEF Nearer
<1>7. CASE Host
    BY <1>7 DEF Host, SweepReset, SweepLaunch, SweepNothing, ControlInv, SweepIsAlone,
       is_running
<1>8. CASE UNCHANGED vars
    BY <1>1, <1>8 DEF vars
<1> QED
    BY <1>2, <1>3, <1>4, <1>5, <1>6, <1>7, <1>8 DEF Next, EngineAdvances

\* The ranking argument behind RunEnds: whatever operators do, a registered run has
\* only finitely many steps to make, if the polls for approvals end.
THEOREM LaunchedRunCountsDown ==
    ASSUME IsFiniteSet(Step)
    PROVE  Spec => RunCountsDown /\ []RunAheadIsNatural
<1>1. TypeOK /\ ControlInv /\ ExclusiveInv /\ [Next]_vars
        => [/\ EngineAdvances => Nearer
            /\ is_running => Nearer \/ NotFarther]_vars
    BY EngineComesNearer, NobodyTakesItBack
<1>2. TypeOK => RunAheadIsNatural
    BY RunAheadTyped
<1> QED
    BY <1>1, <1>2, TypeCorrect, ControlCorrect, ExclusiveCorrect, PTL
       DEF Spec, RunCountsDown
=============================================================================
