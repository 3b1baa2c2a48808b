---------------------------- MODULE GraphRunProofs ----------------------------
(* Theorems about GraphRun for every set of rows and requests and every       *)
(* number of crashes: types, the approval behind whatever the agents run, and *)
(* the agreement of the durable thread with the row.                          *)
EXTENDS GraphRun, FiniteSetTheorems, TLAPS

(***************************************************************************)
(* The graph itself.                                                        *)
(***************************************************************************)
LEMMA Nodes ==
    Node = {"authorize", "discover", "plan", "policy", "execute", "validate",
            "score", "report"}
    BY DEF Node, StateOf

\* The states of the nodes are the active ones.
LEMMA Actives ==
    ActiveStates = {"authorized", "discovering", "planning", "policy_check",
                    "executing", "validating", "scoring", "reporting"}
<1>1. \A n \in Node : StateOf[n] \in {"authorized", "discovering", "planning",
          "policy_check", "executing", "validating", "scoring", "reporting"}
    BY Nodes DEF StateOf
<1>2. /\ StateOf["authorize"] = "authorized" /\ StateOf["discover"] = "discovering"
      /\ StateOf["plan"] = "planning"        /\ StateOf["policy"] = "policy_check"
      /\ StateOf["execute"] = "executing"    /\ StateOf["validate"] = "validating"
      /\ StateOf["score"] = "scoring"        /\ StateOf["report"] = "reporting"
    BY DEF StateOf
<1> QED
    BY <1>1, <1>2, Nodes DEF ActiveStates

\* A node's state is active, and one in which its entry is expected.
LEMMA NodeState ==
    ASSUME NEW n \in Node
    PROVE  /\ StateOf[n] \in ActiveStates
           /\ StateOf[n] \in Expected(n)
           /\ Expected(n) \subseteq ActiveStates
    BY DEF ActiveStates, Expected

\* Along an edge the state of the one node is what the next one expects.
LEMMA Edges ==
    ASSUME NEW n \in Node
    PROVE  /\ After[n] \in Node \cup {"none"}
           /\ After[n] # "authorize"
           /\ After[n] = "none" <=> n = "report"
           /\ After[n] # "none" => StateOf[n] \in Expected(After[n])
<1>1. After[n] \in Node \cup {"none"} /\ After[n] # "authorize"
    BY Nodes DEF After
<1>2. After[n] = "none" <=> n = "report"
    BY Nodes DEF After
<1> QED
    BY <1>1, <1>2 DEF Expected

\* What rests or is new is not active.
LEMMA Ends ==
    /\ StateOf["authorize"] = "authorized"
    /\ StateOf["policy"] = "policy_check"
    /\ TerminalStates \cap ActiveStates = {}
    /\ "created" \notin ActiveStates
    BY Actives DEF StateOf, TerminalStates

(***************************************************************************)
(* Types.                                                                   *)
(***************************************************************************)
LEMMA CrashBound == MaxCrashes \in Nat
    BY GraphAssumption DEF GraphAssumption

\* A handler that is deciding has loaded a step and a state.
LEMMA LoadedDecision ==
    ASSUME TypeOK, NEW r \in Request, req[r].op \in {"approve", "deny", "resume"}
    PROVE  /\ req[r] \in Decision
           /\ req[r].step \in Step
           /\ req[r].state \in AssessmentState
<1>1. req[r] \in FlagRequest \cup Decision \cup {NoRequest}
    BY DEF TypeOK
<1>2. req[r] \notin FlagRequest
    BY DEF FlagRequest
<1>3. req[r] # NoRequest
    BY DEF NoRequest
<1> QED
    BY <1>1, <1>2, <1>3 DEF Decision

\* The places of the task at which a node is under way.
InNode == {"guarding", "entering", "working", "deciding", "executing",
           "replanning", "leaving", "failing"}

Placed ==
    /\ task \in InNode => next \in Node
    /\ task = "deciding" => next = "policy"
    /\ task \in {"executing", "replanning"} => next = "execute"

TypeInv == TypeOK /\ Placed

\* The initial state is well typed.
LEMMA TypeInit == Init => TypeInv
<1> SUFFICES ASSUME Init PROVE TypeInv
    OBVIOUS
<1>1. crashes \in 0..MaxCrashes
    <2>1. crashes = 0
        BY DEF Init
    <2> QED
        BY <2>1, CrashBound
<1>2. TypeOK
    BY <1>1 DEF Init, TypeOK, AssessmentState, StepStatus
<1>3. Placed
    BY DEF Init, Placed, InNode
<1> QED
    BY <1>2, <1>3 DEF TypeInv

\* The driving task keeps the types.
LEMMA TypeEngine ==
    ASSUME TypeInv, Engine \/ Mishap \/ Replan
    PROVE  TypeInv'
<1> USE DEF TypeInv, TypeOK, Placed, InNode, rows, thread, driver, rest
<1>0. /\ "authorize" \in Node
      /\ \A n \in Node : StateOf[n] \in AssessmentState
      /\ \A n \in Node : After[n] \in Node \cup {"none"}
      /\ {"completed", "failed", "cancelled"} \subseteq AssessmentState
    BY Nodes, NodeState, Edges DEF AssessmentState, TerminalStates
<1>1. CASE run_via_langgraph
    BY <1>1, <1>0 DEF run_via_langgraph
<1>2. CASE _guard_cancel
    BY <1>2 DEF _guard_cancel, Checkpoint
<1>3. CASE EnterNode
    BY <1>3, <1>0 DEF EnterNode
<1>4. CASE PassThrough
    BY <1>4 DEF PassThrough
<1>5. CASE node_plan
    BY <1>5 DEF node_plan, StepStatus
<1>6. CASE node_policy
    BY <1>6 DEF node_policy, StepStatus
<1>7. CASE Park
    BY <1>7 DEF Park
<1>8. CASE Proceed
    BY <1>8 DEF Proceed
<1>9. CASE LoadApproved
    BY <1>9 DEF LoadApproved, With
<1>10. CASE \E s \in Step : StreamResult(s)
    BY <1>10 DEF StreamResult, StepStatus
<1>11. CASE FinishExecute
    BY <1>11 DEF FinishExecute
<1>12. CASE node_report
    BY <1>12, <1>0 DEF node_report
<1>13. CASE LeaveNode
    BY <1>13, <1>0 DEF LeaveNode, Checkpoint
<1>14. CASE EndFailed
    BY <1>14 DEF EndFailed, Checkpoint
<1>15. CASE _finish_cancelled
    BY <1>15, <1>0 DEF _finish_cancelled
<1>16. CASE LeaveRegistry
    BY <1>16 DEF LeaveRegistry
<1>17. CASE RefuseAuthorization
    BY <1>17 DEF RefuseAuthorization, Checkpoint
<1>18. CASE MarkFailed
    BY <1>18, <1>0 DEF MarkFailed
<1>19. CASE CheckpointerFails
    BY <1>19, <1>0 DEF CheckpointerFails
<1>20. CASE Replan
    BY <1>20 DEF Replan, StepStatus
<1> QED
    BY <1>1, <1>2, <1>3, <1>4, <1>5, <1>6, <1>7, <1>8, <1>9, <1>10, <1>11, <1>12,
       <1>13, <1>14, <1>15, <1>16, <1>17, <1>18, <1>19, <1>20 DEF Engine, Mishap

\* A launch asked for, whoever asks, keeps types and places.
LEMMA TypeLaunch ==
    ASSUME TypeInv, start_assessment, next' = next
    PROVE  task' \in {task, "launched"} /\ Placed'
    BY DEF TypeInv, start_assessment, Placed, InNode

\* Handlers keep the types.
LEMMA TypeOperator ==
    ASSUME TypeInv,
           Operator \/ (\E r \in Request : Commit(r)) \/ (\E s \in Step : EndApprovedStep(s))
    PROVE  TypeInv'
<1> USE DEF TypeOK, rows, thread, driver
<1>0. /\ TypeOK
      /\ UNCHANGED <<task, next>> => Placed'
      /\ {"completed", "failed", "cancelled"} \subseteq AssessmentState
    BY DEF TypeInv, Placed, AssessmentState, TerminalStates
<1>1. CASE ChatStart
    BY <1>1, <1>0, TypeLaunch DEF ChatStart, TypeInv, rest
<1>2. ASSUME NEW r \in Request, NEW m \in FlagRequest \cup Decision, Load(r, m)
      PROVE  TypeInv'
    BY <1>2, <1>0 DEF Load, TypeInv
<1>3. ASSUME NEW r \in Request, LoadStart(r) PROVE TypeInv'
    <2>1. [op |-> "start", cancel |-> cancel_requested] \in FlagRequest
        BY <1>0 DEF FlagRequest
    <2> QED
        BY <1>2, <1>3, <2>1 DEF LoadStart
<1>4. ASSUME NEW r \in Request, LoadCancel(r) PROVE TypeInv'
    <2>1. PICK op \in {"cancel", "cancel_all"} :
              Load(r, [op |-> op, cancel |-> cancel_requested])
        BY <1>4 DEF LoadCancel
    <2>2. [op |-> op, cancel |-> cancel_requested] \in FlagRequest
        BY <1>0 DEF FlagRequest
    <2> QED
        BY <1>2, <2>1, <2>2
<1>5. ASSUME NEW r \in Request, LoadHeldStep(r) PROVE TypeInv'
    <2>1. PICK s \in Step, op \in {"approve", "deny"} :
              Load(r, [op |-> op, step |-> s, state |-> state])
        BY <1>5 DEF LoadHeldStep, held_step_ids, With
    <2>2. [op |-> op, step |-> s, state |-> state] \in Decision
        BY <1>0 DEF Decision
    <2> QED
        BY <1>2, <2>1, <2>2
<1>6. ASSUME NEW r \in Request, CommitStart(r) PROVE TypeInv'
    BY <1>6, <1>0, TypeLaunch DEF CommitStart, Respond, TypeInv
<1>7. ASSUME NEW r \in Request, CommitCancel(r) PROVE TypeInv'
    BY <1>7, <1>0 DEF CommitCancel, Respond, TypeInv
<1>8. ASSUME NEW r \in Request, req[r].op \in {"approve", "deny"}
      PROVE  [req[r] EXCEPT !.op = "resume"] \in Decision
    BY <1>8, <1>0, LoadedDecision DEF Decision
<1>9. ASSUME NEW r \in Request, CommitApprove(r) PROVE TypeInv'
    <2>1. /\ req[r].step \in Step
          /\ [req[r] EXCEPT !.op = "resume"] \in Decision
        BY <1>8, <1>9, <1>0, LoadedDecision DEF CommitApprove
    <2>2. req' \in [Request -> FlagRequest \cup Decision \cup {NoRequest}]
        BY <1>9, <1>0, <2>1 DEF CommitApprove, LeaveResume, Respond
    <2>3. step' \in [Step -> StepStatus]
        BY <1>9, <1>0, <2>1 DEF CommitApprove, StepStatus
    <2> QED
        BY <1>9, <1>0, <2>1, <2>2, <2>3 DEF CommitApprove, TypeInv
<1>10. ASSUME NEW r \in Request, CommitDeny(r) PROVE TypeInv'
    <2>1. /\ req[r].step \in Step
          /\ [req[r] EXCEPT !.op = "resume"] \in Decision
        BY <1>8, <1>10, <1>0, LoadedDecision DEF CommitDeny
    <2>2. req' \in [Request -> FlagRequest \cup Decision \cup {NoRequest}]
        BY <1>10, <1>0, <2>1 DEF CommitDeny, LeaveResume
    <2>3. step' \in [Step -> StepStatus]
        BY <1>10, <1>0, <2>1 DEF CommitDeny, StepStatus
    <2> QED
        BY <1>10, <1>0, <2>1, <2>2, <2>3 DEF CommitDeny, TypeInv
<1>11. ASSUME NEW r \in Request, _resume_if_parked(r) PROVE TypeInv'
    <2>1. (task' \in {task, "launched"}) /\ Placed'
        BY <1>11, <1>0, TypeLaunch DEF _resume_if_parked
    <2> QED
        BY <1>11, <1>0, <2>1 DEF _resume_if_parked, Respond, TypeInv
<1>12. ASSUME NEW s \in Step, EndApprovedStep(s) PROVE TypeInv'
    BY <1>12, <1>0 DEF EndApprovedStep, TypeInv, StepStatus
<1> QED
    BY <1>1, <1>3, <1>4, <1>5, <1>6, <1>7, <1>9, <1>10, <1>11, <1>12
       DEF Operator, Commit

\* A crash and the sweep keep the types.
LEMMA TypeHost ==
    ASSUME TypeInv, Crash \/ Host
    PROVE  TypeInv'
<1> USE DEF TypeOK, rows, thread, driver, rest
<1>0. /\ TypeOK
      /\ UNCHANGED <<task, next>> => Placed'
    BY DEF TypeInv, Placed
<1>1. CASE Crash
    <2>1. crashes' \in 0..MaxCrashes
        <3>1. crashes < MaxCrashes /\ crashes' = crashes + 1
            BY <1>1 DEF Crash
        <3> QED
            BY <3>1, <1>0, CrashBound
    <2>2. Placed'
        BY <1>1 DEF Crash, Placed, InNode
    <2> QED
        BY <1>1, <1>0, <2>1, <2>2 DEF Crash, TypeInv
<1>2. CASE SweepContinue
    BY <1>2, <1>0, TypeLaunch DEF SweepContinue, TypeInv
<1>3. CASE SweepReset
    BY <1>3, <1>0 DEF SweepReset, TypeInv, AssessmentState, StepStatus
<1>4. CASE SweepLaunch
    BY <1>4, <1>0, TypeLaunch DEF SweepLaunch, TypeInv
<1>5. CASE SweepNothing
    BY <1>5, <1>0 DEF SweepNothing, TypeInv
<1> QED
    BY <1>1, <1>2, <1>3, <1>4, <1>5 DEF Host

\* Every step keeps the types.
LEMMA TypeStep == TypeInv /\ [Next]_vars => TypeInv'
<1>1. ASSUME TypeInv, UNCHANGED vars PROVE TypeInv'
    BY <1>1 DEF TypeInv, TypeOK, Placed, vars, rows, thread, driver, rest
<1> QED
    BY <1>1, TypeEngine, TypeOperator, TypeHost DEF Next

\* Columns, thread, program counter and requests in flight keep their types.
THEOREM TypeCorrect == Spec => []TypeOK
<1>1. Spec => []TypeInv
    BY TypeInit, TypeStep, PTL DEF Spec
<1> QED
    BY <1>1, PTL DEF TypeInv
(***************************************************************************)
(* The approval behind whatever the agents run.                             *)
(***************************************************************************)
\* The start-up sweep is alone: the crash has ended everything else.
HostQuiet ==
    boot # "serving" =>
        /\ task = "idle"
        /\ batch = {}
        /\ late = {}
        /\ \A r \in Request : req[r] = NoRequest

\* From the row to the agents: what needs approval is approved by an operator
\* before its row says so.
GateInv ==
    /\ \A s \in NeedsApproval :
          step[s] \in {"approved", "done", "errored"} => s \in approvals
    /\ (batch \cup late) \cap NeedsApproval \subseteq approvals

\* A launch by a process that serves leaves the sweep over.
LEMMA QuietLaunch ==
    ASSUME start_assessment, boot' = "serving"
    PROVE  HostQuiet'
    BY DEF HostQuiet

\* While the sweep runs nobody else does.
LEMMA QuietStep ==
    ASSUME TypeInv, HostQuiet, [Next]_vars
    PROVE  HostQuiet'
<1> USE DEF rows, thread, driver, rest
<1>1. CASE Engine
    <2>1. task # "idle" /\ UNCHANGED boot
        BY <1>1 DEF Engine, run_via_langgraph, _guard_cancel, EnterNode, PassThrough,
           node_plan, node_policy, Park, Proceed, LoadApproved, StreamResult,
           FinishExecute, node_report, LeaveNode, EndFailed, _finish_cancelled,
           LeaveRegistry
    <2> QED
        BY <2>1 DEF HostQuiet
<1>2. CASE Mishap \/ Replan
    <2>1. task # "idle" /\ UNCHANGED boot
        BY <1>2 DEF Mishap, RefuseAuthorization, MarkFailed, CheckpointerFails, Replan
    <2> QED
        BY <2>1 DEF HostQuiet
<1>3. CASE \E s \in Step : EndApprovedStep(s)
    BY <1>3 DEF EndApprovedStep, HostQuiet
<1>4. CASE Operator
    BY <1>4 DEF Operator, ChatStart, LoadStart, LoadCancel, LoadHeldStep, Load, HostQuiet
<1>5. CASE \E r \in Request : Commit(r)
    <2>1. PICK r \in Request : Commit(r)
        BY <1>5
    <2>2. req[r] # NoRequest /\ UNCHANGED boot
        BY <2>1 DEF Commit, CommitStart, CommitCancel, CommitApprove, CommitDeny,
           _resume_if_parked, NoRequest
    <2> QED
        BY <2>2 DEF HostQuiet
<1>6. CASE Crash
    BY <1>6 DEF Crash, HostQuiet
<1>7. CASE Host
    BY <1>7 DEF Host, SweepContinue, SweepReset, SweepLaunch, SweepNothing, HostQuiet
<1>8. CASE UNCHANGED vars
    BY <1>8 DEF HostQuiet, vars
<1> QED
    BY <1>1, <1>2, <1>3, <1>4, <1>5, <1>6, <1>7, <1>8 DEF Next

\* A row becomes approved only by a decision or because it needs none.
LEMMA GateStep ==
    ASSUME TypeInv, HostQuiet, GateInv, [Next]_vars
    PROVE  GateInv'
<1> USE DEF GateInv, rows, thread, driver, rest
<1>0. NeedsApproval \subseteq Step /\ step \in [Step -> StepStatus]
    BY GraphAssumption DEF GraphAssumption, TypeInv, TypeOK
<1>1. CASE UNCHANGED <<step, late, approvals>> /\ batch' \subseteq batch
    BY <1>1
<1>2. CASE Engine
    <2>1. CASE \/ run_via_langgraph \/ _guard_cancel \/ EnterNode \/ PassThrough
               \/ Park \/ Proceed \/ FinishExecute \/ node_report \/ LeaveNode
               \/ EndFailed \/ _finish_cancelled \/ LeaveRegistry
        BY <2>1, <1>1 DEF run_via_langgraph, _guard_cancel, EnterNode, PassThrough,
           Park, Proceed, FinishExecute, node_report, LeaveNode, EndFailed,
           _finish_cancelled, LeaveRegistry
    <2>2. CASE node_plan
        BY <2>2, <1>0 DEF node_plan
    <2>3. CASE node_policy
        <3>1. \A s \in NeedsApproval : step'[s] \in {"approved", "done", "errored"}
                  => step[s] \in {"approved", "done", "errored"}
            BY <2>3, <1>0 DEF node_policy
        <3> QED
            BY <2>3, <3>1 DEF node_policy
    <2>4. CASE LoadApproved
        BY <2>4, <1>0 DEF LoadApproved, With
    <2>5. CASE \E s \in Step : StreamResult(s)
        BY <2>5, <1>0 DEF StreamResult
    <2> QED
        BY <1>2, <2>1, <2>2, <2>3, <2>4, <2>5 DEF Engine
<1>3. CASE Mishap
    BY <1>3, <1>1 DEF Mishap, RefuseAuthorization, MarkFailed, CheckpointerFails
<1>4. CASE Replan
    BY <1>4, <1>0 DEF Replan
<1>5. CASE \E s \in Step : EndApprovedStep(s)
    BY <1>5, <1>0 DEF EndApprovedStep
<1>6. CASE Operator
    BY <1>6, <1>1 DEF Operator, ChatStart, LoadStart, LoadCancel, LoadHeldStep, Load
<1>7. ASSUME NEW r \in Request, Commit(r) PROVE GateInv'
    <2>1. CASE CommitStart(r) \/ CommitCancel(r) \/ _resume_if_parked(r)
        BY <2>1, <1>1 DEF CommitStart, CommitCancel, _resume_if_parked
    <2>2. CASE CommitApprove(r)
        <3>1. req[r].step \in Step
            BY <2>2, LoadedDecision DEF CommitApprove, TypeInv
        <3>2. late' \subseteq late \cup {req[r].step}
            BY <2>2 DEF CommitApprove
        <3> QED
            BY <2>2, <3>1, <3>2, <1>0 DEF CommitApprove
    <2>3. CASE CommitDeny(r)
        BY <2>3, <1>0 DEF CommitDeny
    <2> QED
        BY <1>7, <2>1, <2>2, <2>3 DEF Commit
<1>8. CASE Crash
    BY <1>8 DEF Crash
<1>9. CASE Host
    <2>1. CASE SweepReset
        BY <2>1, <1>0 DEF SweepReset, HostQuiet
    <2>2. CASE SweepContinue \/ SweepLaunch \/ SweepNothing
        BY <2>2, <1>1 DEF SweepContinue, SweepLaunch, SweepNothing
    <2> QED
        BY <1>9, <2>1, <2>2 DEF Host
<1>10. CASE UNCHANGED vars
    BY <1>10, <1>1 DEF vars
<1> QED
    BY <1>2, <1>3, <1>4, <1>5, <1>6, <1>7, <1>8, <1>9, <1>10 DEF Next

\* What the agents run or have run was approved by an operator where that is
\* needed, however often the process crashed and the thread was resumed.
THEOREM OnlyApprovedReachTheAgents == Spec => []OnlyApprovedRun
<1>1. Init => TypeInv /\ HostQuiet /\ GateInv
    BY TypeInit, GraphAssumption DEF Init, HostQuiet, GateInv, GraphAssumption
<1>2. TypeInv /\ HostQuiet /\ GateInv /\ [Next]_vars
          => (TypeInv /\ HostQuiet /\ GateInv)'
    BY TypeStep, QuietStep, GateStep
<1>3. GateInv => OnlyApprovedRun
    BY DEF GateInv, OnlyApprovedRun, With
<1> QED
    BY <1>1, <1>2, <1>3, PTL DEF Spec

(***************************************************************************)
(* The thread and the row.                                                  *)
(***************************************************************************)
\* A run that is not driven, or not any more, has come to one of these.
AtRest ==
    state \in ActiveStates =>
        \/ state = "policy_check" /\ next = "policy" /\ parked
        \/ state = "authorized" /\ next = "none"

\* Where the row stands for each place of the task.
RowPlaced ==
    /\ task \in {"working", "deciding", "executing", "replanning"}
          => state = StateOf[next]
    /\ task = "leaving"
          => state = IF next = "report" THEN "completed" ELSE StateOf[next]
    /\ task = "failing" => state = "failed"
    /\ task = "ending" => AtRest
    /\ boot = "serving" /\ task = "idle" => AtRest
    /\ boot = "relaunching" => state \notin ActiveStates
    /\ (task = "launched" /\ next = "none" /\ state \in ActiveStates)
          => state = "authorized"

\* The sweep finds every run that has got so far.
Begun ==
    /\ state \in ActiveStates => started
    /\ next \in Node \ {"authorize"} => started

ParkedAtPolicy == parked => next = "policy"

AgreeInv == ThreadAndRowAgree /\ RowPlaced /\ Begun /\ ParkedAtPolicy

\* The driving task writes row and thread in an order the sweep can continue from.
LEMMA AgreeEngine ==
    ASSUME TypeInv, HostQuiet, AgreeInv, Engine \/ Mishap \/ Replan
    PROVE  AgreeInv'
<1> USE DEF rows, thread, driver, rest
<1>0. /\ task \in InNode => next \in Node
      /\ task = "deciding" => next = "policy"
      /\ task \in {"executing", "replanning"} => next = "execute"
      /\ task # "idle" => boot = "serving"
    BY DEF TypeInv, Placed, HostQuiet
<1>n. /\ next \in Node => /\ StateOf[next] \in ActiveStates
                          /\ StateOf[next] \in Expected(next)
                          /\ After[next] # "authorize"
                          /\ After[next] = "none" <=> next = "report"
                          /\ After[next] # "none" => StateOf[next] \in Expected(After[next])
      /\ "authorized" \in Expected("authorize")
      /\ StateOf["authorize"] = "authorized"
      /\ StateOf["policy"] = "policy_check"
      /\ {"created", "completed", "failed", "cancelled"} \cap ActiveStates = {}
      /\ "authorize" \in Node /\ "none" \notin Node
    BY NodeState, Edges, Ends, Nodes DEF TerminalStates
<1>1. CASE run_via_langgraph
    BY <1>1, <1>n DEF run_via_langgraph, AgreeInv, ThreadAndRowAgree, RowPlaced,
       AtRest, Begun, ParkedAtPolicy
<1>2. CASE _guard_cancel
    BY <1>2, <1>n DEF _guard_cancel, Checkpoint, AgreeInv, ThreadAndRowAgree,
       RowPlaced, AtRest, Begun, ParkedAtPolicy
<1>3. CASE EnterNode
    <2>1. next \in Node
        BY <1>3, <1>0 DEF EnterNode, InNode
    <2>2. started'
        BY <1>3, <2>1 DEF EnterNode, AgreeInv, Begun
    <2>3. state' = StateOf[next] /\ state' \in Expected(next)
        BY <1>3, <1>n, <2>1 DEF EnterNode
    <2>4. state' # "created"
        BY <1>n, <2>1, <2>3
    <2> QED
        BY <1>0, <1>3, <2>2, <2>3, <2>4 DEF EnterNode, AgreeInv, ThreadAndRowAgree,
           RowPlaced, AtRest, Begun, ParkedAtPolicy
<1>4. CASE PassThrough \/ node_plan \/ node_policy \/ Proceed \/ LoadApproved
           \/ (\E s \in Step : StreamResult(s)) \/ FinishExecute \/ Replan
    <2>1. /\ UNCHANGED <<state, started, next, parked, boot>>
          /\ task \in {"working", "deciding", "executing", "replanning"}
          /\ task' \in {"deciding", "executing", "replanning", "leaving"}
          /\ task' = "leaving" => next # "report"
        BY <1>0, <1>4 DEF PassThrough, node_plan, node_policy, Proceed, LoadApproved,
           StreamResult, FinishExecute, Replan
    <2> QED
        BY <2>1 DEF AgreeInv, ThreadAndRowAgree, RowPlaced, AtRest, Begun,
           ParkedAtPolicy
<1>5. CASE Park
    BY <1>5, <1>0, <1>n DEF Park, AgreeInv, ThreadAndRowAgree, RowPlaced, AtRest,
       Begun, ParkedAtPolicy
<1>6. CASE node_report
    BY <1>6, <1>n DEF node_report, AgreeInv, ThreadAndRowAgree, RowPlaced, AtRest,
       Begun, ParkedAtPolicy
<1>7. CASE LeaveNode
    <2>1. next \in Node
        BY <1>7, <1>0 DEF LeaveNode, InNode
    <2>2. CASE next = "report"
        <3>1. next' = "none" /\ task' = "ending" /\ state = "completed"
            BY <1>7, <1>n, <2>1, <2>2 DEF LeaveNode, Checkpoint, AgreeInv, RowPlaced
        <3> QED
            BY <1>7, <1>n, <3>1 DEF LeaveNode, Checkpoint, AgreeInv,
               ThreadAndRowAgree, RowPlaced, AtRest, Begun, ParkedAtPolicy
    <2>3. CASE next # "report"
        <3>1. /\ next' = After[next] /\ After[next] # "none"
              /\ task' = "guarding"
              /\ state = StateOf[next]
              /\ UNCHANGED <<state, started, boot>>
              /\ ~parked'
            BY <1>7, <1>n, <2>1, <2>3 DEF LeaveNode, Checkpoint, AgreeInv, RowPlaced
        <3>2. /\ state' \in Expected(next')
              /\ state' \in ActiveStates /\ state' # "created"
              /\ started'
            BY <1>n, <2>1, <3>1 DEF AgreeInv, Begun
        <3> QED
            BY <3>1, <3>2 DEF AgreeInv, ThreadAndRowAgree, RowPlaced, Begun,
               ParkedAtPolicy
    <2> QED
        BY <2>2, <2>3
<1>8. CASE EndFailed
    BY <1>8, <1>n DEF EndFailed, Checkpoint, AgreeInv, ThreadAndRowAgree, RowPlaced,
       AtRest, Begun, ParkedAtPolicy
<1>9. CASE _finish_cancelled \/ MarkFailed \/ CheckpointerFails
    <2>1. /\ UNCHANGED <<started, next, parked, boot>>
          /\ state' \in {"cancelled", "failed"}
          /\ \/ task' = "ending"
             \/ task' = "failing" /\ state' = "failed"
        BY <1>9 DEF _finish_cancelled, MarkFailed, CheckpointerFails
    <2> QED
        BY <2>1, <1>n DEF AgreeInv, ThreadAndRowAgree, RowPlaced, AtRest, Begun,
           ParkedAtPolicy
<1>10. CASE LeaveRegistry
    BY <1>10 DEF LeaveRegistry, AgreeInv, ThreadAndRowAgree, RowPlaced, AtRest,
       Begun, ParkedAtPolicy
<1>11. CASE RefuseAuthorization
    BY <1>11, <1>n DEF RefuseAuthorization, Checkpoint, AgreeInv, ThreadAndRowAgree,
       RowPlaced, AtRest, Begun, ParkedAtPolicy
<1> QED
    BY <1>1, <1>2, <1>3, <1>4, <1>5, <1>6, <1>7, <1>8, <1>9, <1>10, <1>11
       DEF Engine, Mishap

\* Whoever launches the run finds it at rest, or outside the active states.
LEMMA AgreeLaunch ==
    ASSUME AgreeInv, start_assessment, UNCHANGED <<state, started, next, parked>>,
           boot' = "serving",
           boot = "serving" \/ next # "none" \/ state \notin ActiveStates
    PROVE  AgreeInv'
    BY DEF start_assessment, is_running, AgreeInv, ThreadAndRowAgree, RowPlaced,
       AtRest, Begun, ParkedAtPolicy

\* Handlers, crash and sweep leave row and thread in agreement.
LEMMA AgreeOthers ==
    ASSUME TypeInv, HostQuiet, AgreeInv,
           \/ Operator \/ Crash \/ Host \/ UNCHANGED vars
           \/ \E r \in Request : Commit(r)
           \/ \E s \in Step : EndApprovedStep(s)
    PROVE  AgreeInv'
<1> USE DEF rows, thread, driver, rest
<1>1. CASE UNCHANGED <<state, started, next, parked, task, boot>>
    BY <1>1 DEF AgreeInv, ThreadAndRowAgree, RowPlaced, AtRest, Begun, ParkedAtPolicy
<1>2. CASE Operator
    <2>1. CASE ChatStart
        BY <2>1, AgreeLaunch DEF ChatStart
    <2>2. CASE \E r \in Request : LoadStart(r) \/ LoadCancel(r) \/ LoadHeldStep(r)
        BY <2>2, <1>1 DEF LoadStart, LoadCancel, LoadHeldStep, Load
    <2> QED
        BY <1>2, <2>1, <2>2 DEF Operator
<1>3. ASSUME NEW r \in Request, Commit(r) PROVE AgreeInv'
    <2>0. boot = "serving"
        BY <1>3 DEF HostQuiet, NoRequest, Commit, CommitStart, CommitCancel,
           CommitApprove, CommitDeny, _resume_if_parked
    <2>1. CASE CommitStart(r)
        BY <2>0, <2>1, AgreeLaunch DEF CommitStart
    <2>2. CASE CommitCancel(r)
        <3>1. "cancelled" \notin ActiveStates
            BY Ends DEF TerminalStates
        <3>2. CASE state' = state
            BY <2>2, <3>2, <1>1 DEF CommitCancel
        <3>3. CASE state' = "cancelled" /\ task = "idle"
            BY <2>2, <3>1, <3>3 DEF CommitCancel, AgreeInv, ThreadAndRowAgree,
               RowPlaced, AtRest, Begun, ParkedAtPolicy
        <3> QED
            BY <2>2, <3>2, <3>3 DEF CommitCancel, is_running
    <2>3. CASE CommitApprove(r) \/ CommitDeny(r)
        BY <2>3, <1>1 DEF CommitApprove, CommitDeny
    <2>4. CASE _resume_if_parked(r)
        <3>1. CASE UNCHANGED task
            BY <2>4, <3>1, <1>1 DEF _resume_if_parked
        <3>2. CASE start_assessment
            BY <2>0, <2>4, <3>2, AgreeLaunch DEF _resume_if_parked
        <3> QED
            BY <2>4, <3>1, <3>2 DEF _resume_if_parked
    <2> QED
        BY <1>3, <2>1, <2>2, <2>3, <2>4 DEF Commit
<1>4. CASE Crash
    BY <1>4 DEF Crash, AgreeInv, ThreadAndRowAgree, RowPlaced, AtRest, Begun,
       ParkedAtPolicy
<1>5. CASE Host
    <2>1. CASE SweepContinue
        BY <2>1, AgreeLaunch DEF SweepContinue, pending_nodes
    <2>2. CASE SweepReset
        <3>1. "created" \notin ActiveStates /\ "created" # "failed"
            BY Ends
        <3> QED
            BY <2>2, <3>1 DEF SweepReset, HostQuiet, pending_nodes, AgreeInv,
               ThreadAndRowAgree, RowPlaced, AtRest, Begun, ParkedAtPolicy
    <2>3. CASE SweepLaunch
        <3>1. state \notin ActiveStates
            BY <2>3 DEF SweepLaunch, AgreeInv, RowPlaced
        <3> QED
            BY <2>3, <3>1, AgreeLaunch DEF SweepLaunch
    <2>4. CASE SweepNothing
        <3>1. state \notin ActiveStates
            BY <2>4, Ends DEF SweepNothing, Interrupted, AgreeInv, Begun
        <3> QED
            BY <2>4, <3>1 DEF SweepNothing, AgreeInv, ThreadAndRowAgree, RowPlaced,
               AtRest, Begun, ParkedAtPolicy
    <2> QED
        BY <1>5, <2>1, <2>2, <2>3, <2>4 DEF Host
<1>6. CASE \E s \in Step : EndApprovedStep(s)
    BY <1>6, <1>1 DEF EndApprovedStep
<1>7. CASE UNCHANGED vars
    BY <1>7, <1>1 DEF vars
<1> QED
    BY <1>2, <1>3, <1>4, <1>5, <1>6, <1>7

\* The invariant holds in every reachable state.
LEMMA AgreeInvariant == Spec => [](TypeInv /\ HostQuiet /\ AgreeInv)
<1>1. Init => TypeInv /\ HostQuiet /\ AgreeInv
    <2>1. "none" \notin Node /\ "created" \notin ActiveStates
        BY Nodes, Ends
    <2> QED
        BY <2>1, TypeInit DEF Init, HostQuiet, AgreeInv, ThreadAndRowAgree,
           RowPlaced, AtRest, Begun, ParkedAtPolicy
<1>2. TypeInv /\ HostQuiet /\ AgreeInv /\ [Next]_vars
          => (TypeInv /\ HostQuiet /\ AgreeInv)'
    BY TypeStep, QuietStep, AgreeEngine, AgreeOthers DEF Next
<1> QED
    BY <1>1, <1>2, PTL DEF Spec

\* A node that is pending in the thread belongs to the state that the row shows,
\* wherever between the writes of the two stores a crash strikes.
THEOREM StoresAgree == Spec => []ThreadAndRowAgree
<1>1. AgreeInv => ThreadAndRowAgree
    BY DEF AgreeInv
<1> QED
    BY <1>1, AgreeInvariant, PTL

\* No run rests in an active state but a parked one and one that was refused.
THEOREM NoRunIsLost == Spec => []RestingRunIsKnown
<1>1. AgreeInv => RestingRunIsKnown
    BY DEF AgreeInv, RowPlaced, AtRest, RestingRunIsKnown, is_running
<1> QED
    BY <1>1, AgreeInvariant, PTL

(***************************************************************************)
(* GraphRun implements DurableAssessment.  AgreeInv says where a driver     *)
(* finds the row; that a completed run is never taken up again in its       *)
(* thread, which a crash after its last node leaves unfinished, needs that  *)
(* no request in flight could launch it.                                    *)
(***************************************************************************)
CanLaunch(r) ==
    \/ req[r].op = "start"
    \/ req[r].op \in {"approve", "deny", "resume"} /\ req[r].state = "policy_check"

CompletedIsOver ==
    state = "completed" /\ next \notin {"none", "authorize"}
        => \/ task = "leaving"
           \/ task = "idle" /\ \A r \in Request : ~CanLaunch(r)

OverInv ==
    /\ CompletedIsOver
    /\ boot = "relaunching" => state = "created"

\* No node has one of these states.
LEMMA NoNodeIsOver ==
    \A n \in Node : StateOf[n] \notin {"created", "completed", "failed", "cancelled"}
    BY NodeState, Ends DEF TerminalStates

\* The driving task comes to "completed" by its last node only, and leaves it at once.
LEMMA OverEngine ==
    ASSUME TypeInv, HostQuiet, AgreeInv, OverInv, Engine \/ Mishap \/ Replan
    PROVE  OverInv'
<1> USE DEF rows, thread, driver, rest
<1>0. /\ task # "idle" => boot = "serving"
      /\ task \in InNode => next \in Node
      /\ task \in {"executing", "replanning"} => next = "execute"
    BY DEF HostQuiet, TypeInv, Placed
<1>1. task # "idle" /\ task' # "launched" /\ UNCHANGED <<boot, req>>
    BY DEF Engine, Mishap, Replan, run_via_langgraph, _guard_cancel, EnterNode,
       PassThrough, node_plan, node_policy, Park, Proceed, LoadApproved,
       StreamResult, FinishExecute, node_report, LeaveNode, EndFailed,
       _finish_cancelled, LeaveRegistry, RefuseAuthorization, MarkFailed,
       CheckpointerFails
<1>2. boot' = "serving"
    BY <1>0, <1>1
<1>3. CASE run_via_langgraph \/ _guard_cancel
    BY <1>2, <1>3 DEF run_via_langgraph, _guard_cancel, Checkpoint, OverInv,
       CompletedIsOver
<1>4. CASE EnterNode
    BY <1>0, <1>2, <1>4, NoNodeIsOver DEF EnterNode, InNode, OverInv, CompletedIsOver
<1>5. CASE PassThrough \/ node_plan \/ node_policy \/ Park \/ Proceed
           \/ LoadApproved \/ (\E s \in Step : StreamResult(s)) \/ FinishExecute
           \/ Replan \/ LeaveRegistry
    <2>1. UNCHANGED <<state, next>> /\ task \notin {"leaving", "idle"}
        BY <1>5 DEF PassThrough, node_plan, node_policy, Park, Proceed, LoadApproved,
           StreamResult, FinishExecute, Replan, LeaveRegistry
    <2> QED
        BY <1>2, <2>1 DEF OverInv, CompletedIsOver
<1>6. CASE node_report
    BY <1>2, <1>6 DEF node_report, OverInv, CompletedIsOver
<1>7. CASE LeaveNode
    <2>1. next \in Node
        BY <1>0, <1>7 DEF LeaveNode, InNode
    <2>2. state = "completed" => next = "report"
        BY <1>7, <2>1, NoNodeIsOver DEF LeaveNode, AgreeInv, RowPlaced
    <2>3. state' = "completed" => next' = "none"
        BY <1>7, <2>1, <2>2, Edges DEF LeaveNode, Checkpoint
    <2> QED
        BY <1>2, <2>3 DEF OverInv, CompletedIsOver
<1>8. CASE EndFailed \/ RefuseAuthorization
    BY <1>2, <1>8 DEF EndFailed, RefuseAuthorization, Checkpoint, OverInv,
       CompletedIsOver
<1>9. CASE _finish_cancelled \/ MarkFailed \/ CheckpointerFails
    BY <1>2, <1>9 DEF _finish_cancelled, MarkFailed, CheckpointerFails, OverInv,
       CompletedIsOver
<1> QED
    BY <1>3, <1>4, <1>5, <1>6, <1>7, <1>8, <1>9 DEF Engine, Mishap

\* A request in flight was loaded before the crash is gone with it; one that is
\* loaded afterwards has seen the completed state and launches nothing.
LEMMA OverOthers ==
    ASSUME TypeInv, HostQuiet, OverInv,
           \/ Operator \/ Crash \/ Host \/ UNCHANGED vars
           \/ \E r \in Request : Commit(r)
           \/ \E s \in Step : EndApprovedStep(s)
    PROVE  OverInv'
<1> USE DEF rows, thread, driver, rest
<1>0. req \in [Request -> FlagRequest \cup Decision \cup {NoRequest}]
    BY DEF TypeInv, TypeOK
<1>1. CASE UNCHANGED <<state, next, task, req, boot>>
    BY <1>1 DEF OverInv, CompletedIsOver, CanLaunch
<1>2. CASE Operator
    <2>1. CASE ChatStart
        BY <2>1 DEF ChatStart, OverInv, CompletedIsOver
    <2>2. ASSUME NEW r \in Request, LoadStart(r) \/ LoadCancel(r) PROVE OverInv'
        <3>1. state # "completed" /\ UNCHANGED <<state, boot>>
            BY <2>2 DEF LoadStart, LoadCancel, Load, TerminalStates
        <3> QED
            BY <3>1 DEF OverInv, CompletedIsOver
    <2>3. ASSUME NEW r \in Request, LoadHeldStep(r) PROVE OverInv'
        <3>1. PICK s \in held_step_ids, op \in {"approve", "deny"} :
                 Load(r, [op |-> op, step |-> s, state |-> state])
            BY <2>3 DEF LoadHeldStep
        <3>2. \A q \in Request : q # r => req'[q] = req[q]
            BY <1>0, <3>1 DEF Load
        <3>3. req'[r].op = op /\ req'[r].state = state
            BY <1>0, <3>1 DEF Load
        <3> QED
            BY <3>1, <3>2, <3>3 DEF Load, OverInv, CompletedIsOver, CanLaunch
    <2> QED
        BY <1>2, <2>1, <2>2, <2>3 DEF Operator
<1>3. ASSUME NEW r \in Request, Commit(r) PROVE OverInv'
    <2>0. boot = "serving" /\ boot' = boot /\ UNCHANGED next
        BY <1>3 DEF HostQuiet, NoRequest, Commit, CommitStart, CommitCancel,
           CommitApprove, CommitDeny, _resume_if_parked
    <2>1. \A q \in Request : CanLaunch(q)' => CanLaunch(q)
        <3>1. \A q \in Request : q # r => req'[q] = req[q]
            BY <1>0, <1>3 DEF Commit, CommitStart, CommitCancel, CommitApprove,
               CommitDeny, _resume_if_parked, Respond, LeaveResume
        <3>2. CASE Respond(r)
            <4>1. req'[r].op = "none"
                BY <1>0, <3>2 DEF Respond, NoRequest
            <4> QED
                BY <3>1, <4>1 DEF CanLaunch
        <3>3. CASE LeaveResume(r) /\ req[r].op \in {"approve", "deny"}
            <4>1. req[r] \in Decision
                BY <3>3, LoadedDecision DEF TypeInv
            <4>2. req'[r] = [req[r] EXCEPT !.op = "resume"]
                BY <1>0, <3>3 DEF LeaveResume
            <4>3. req'[r].state = req[r].state /\ req'[r].op = "resume"
                BY <4>1, <4>2 DEF Decision
            <4> QED
                BY <3>1, <3>3, <4>3 DEF CanLaunch
        <3> QED
            BY <1>3, <3>2, <3>3 DEF Commit, CommitStart, CommitCancel, CommitApprove,
               CommitDeny, _resume_if_parked
    <2>2. CASE CommitCancel(r)
        BY <2>0, <2>1, <2>2 DEF CommitCancel, OverInv, CompletedIsOver
    <2>3. CASE UNCHANGED <<state, task>>
        BY <2>0, <2>1, <2>3 DEF OverInv, CompletedIsOver
    <2>4. CASE start_assessment /\ CanLaunch(r) /\ UNCHANGED state
        BY <2>0, <2>4 DEF start_assessment, is_running, OverInv, CompletedIsOver
    <2> QED
        BY <1>3, <2>2, <2>3, <2>4 DEF Commit, CommitStart, CommitApprove,
           CommitDeny, _resume_if_parked, CanLaunch
<1>4. CASE Crash
    BY <1>4 DEF Crash, NoRequest, OverInv, CompletedIsOver, CanLaunch
<1>5. CASE Host
    <2>1. CASE SweepContinue
        BY <2>1 DEF SweepContinue, Interrupted, TerminalStates, OverInv, CompletedIsOver
    <2>2. CASE SweepReset
        BY <2>2 DEF SweepReset, OverInv, CompletedIsOver
    <2>3. CASE SweepLaunch
        BY <2>3 DEF SweepLaunch, OverInv, CompletedIsOver
    <2>4. CASE SweepNothing
        BY <2>4 DEF SweepNothing, OverInv, CompletedIsOver, CanLaunch
    <2> QED
        BY <1>5, <2>1, <2>2, <2>3, <2>4 DEF Host
<1>6. CASE \E s \in Step : EndApprovedStep(s)
    BY <1>6, <1>1 DEF EndApprovedStep
<1>7. CASE UNCHANGED vars
    BY <1>7, <1>1 DEF vars
<1> QED
    BY <1>2, <1>3, <1>4, <1>5, <1>6, <1>7

\* The invariant that the refinement rests on.
DurableInv == TypeInv /\ HostQuiet /\ AgreeInv /\ OverInv

\* It holds in every reachable state.
LEMMA DurableInvariant == Spec => []DurableInv
<1>1. Init => OverInv
    BY DEF Init, OverInv, CompletedIsOver
<1>2. TypeInv /\ HostQuiet /\ AgreeInv /\ OverInv /\ [Next]_vars => OverInv'
    BY OverEngine, OverOthers DEF Next
<1> QED
    BY <1>1, <1>2, AgreeInvariant, PTL DEF Spec, DurableInv

\* The states of the nodes are those of the phases, and along an edge of the graph
\* the phase has its successor.
LEMMA Phases ==
    /\ D!ActiveStates = {"authorized", "discovering", "planning", "policy_check",
                         "executing", "validating", "scoring", "reporting"}
    /\ \A n \in Node \ {"report"} :
          StateOf[After[n]] = D!Successor[StateOf[n]]
    /\ D!Successor["reporting"] = "completed"
<1>1. D!ActiveStates = {"authorized", "discovering", "planning", "policy_check",
                        "executing", "validating", "scoring", "reporting"}
    BY DEF D!ActiveStates, D!Successor
<1>2. \A n \in Node \ {"report"} : StateOf[After[n]] = D!Successor[StateOf[n]]
    BY Nodes DEF StateOf, After, D!Successor
<1>3. D!Successor["reporting"] = "completed"
    BY DEF D!Successor
<1> QED
    BY <1>1, <1>2, <1>3

\* Where the row is expected on the way into a node, it shows the phase already or
\* the one before.
LEMMA Arrival ==
    ASSUME NEW n \in Node, NEW s \in Expected(n)
    PROVE  s = StateOf[n] \/ D!Successor[s] = StateOf[n]
<1>1. CASE s = StateOf[n]
    BY <1>1
<1>2. CASE \E m \in Node : After[m] = n /\ s = StateOf[m]
    <2>1. PICK m \in Node : After[m] = n /\ s = StateOf[m]
        BY <1>2
    <2>2. m # "report"
        BY <2>1, Nodes DEF After
    <2> QED
        BY <2>1, <2>2, Phases
<1> QED
    BY <1>1, <1>2 DEF Expected

\* No node is pending in a new assessment.
LEMMA DurableInit == Init => D!Init
    BY DEF Init, D!Init, Driver

\* What starts a task is a launch, or leaves the task that runs alone.
LEMMA DurableLaunch ==
    ASSUME AgreeInv, start_assessment, UNCHANGED <<state, boot>>, boot = "serving"
    PROVE  [D!Next]_<<state, Driver, boot # "serving">>
<1>1. CASE is_running
    BY <1>1 DEF start_assessment, Driver
<1>2. CASE ~is_running
    <2>1. Driver = "none" /\ Driver' = "driving"
        BY <1>2 DEF start_assessment, is_running, Driver
    <2>2. state \in D!ActiveStates => state \in D!Resting
        BY <1>2, Actives, Phases DEF AgreeInv, RowPlaced, AtRest, is_running,
           D!Resting
    <2> QED
        BY <2>1, <2>2 DEF D!Next, D!Launch
<1> QED
    BY <1>1, <1>2

\* Every step of the driving task is one of the abstract run or leaves it as it is.
LEMMA DurableEngine ==
    ASSUME DurableInv, Engine \/ Mishap \/ Replan
    PROVE  [D!Next]_<<state, Driver, boot # "serving">>
<1> USE DEF rows, thread, driver, rest
<1>0. /\ TypeOK /\ Placed /\ HostQuiet /\ AgreeInv /\ OverInv
      /\ task \in InNode => next \in Node
    BY DEF DurableInv, TypeInv, Placed
<1>1. UNCHANGED boot
    BY DEF Engine, Mishap, Replan, run_via_langgraph, _guard_cancel, EnterNode,
       PassThrough, node_plan, node_policy, Park, Proceed, LoadApproved,
       StreamResult, FinishExecute, node_report, LeaveNode, EndFailed,
       _finish_cancelled, LeaveRegistry, RefuseAuthorization, MarkFailed,
       CheckpointerFails
<1>2. CASE run_via_langgraph \/ _guard_cancel \/ PassThrough \/ node_plan
           \/ node_policy \/ Proceed \/ LoadApproved
           \/ (\E s \in Step : StreamResult(s)) \/ FinishExecute \/ Replan
    <2>1. /\ UNCHANGED state
          /\ task \notin {"idle", "ending"} /\ task' \notin {"idle", "ending"}
        BY <1>2 DEF run_via_langgraph, _guard_cancel, PassThrough, node_plan,
           node_policy, Proceed, LoadApproved, StreamResult, FinishExecute, Replan
    <2> QED
        BY <1>1, <2>1 DEF Driver
<1>3. CASE EnterNode
    <2>1. /\ next \in Node /\ state' = StateOf[next]
          /\ Driver = "driving" /\ Driver' = "driving"
        BY <1>0, <1>3 DEF EnterNode, InNode, Driver
    <2>2. StateOf[next] \in D!ActiveStates
        BY <2>1, NodeState, Actives, Phases
    <2>3. CASE state \in ActiveStates
        <3>1. state \in Expected(next)
            BY <1>0, <2>1, <2>3, Nodes DEF AgreeInv, ThreadAndRowAgree
        <3>2. state' = state \/ state' = D!Successor[state]
            BY <2>1, <3>1, Arrival
        <3> QED
            BY <1>1, <2>1, <2>3, <3>2, Actives, Phases DEF D!Next, D!Advance
    <2>4. CASE state \in {"created", "completed"}
        <3>1. next = "authorize"
            BY <1>0, <1>3, <2>1, <2>4, Nodes DEF EnterNode, AgreeInv,
               ThreadAndRowAgree, OverInv, CompletedIsOver
        <3>2. state' = "authorized"
            BY <2>1, <3>1, Ends
        <3> QED
            BY <1>1, <2>1, <2>4, <3>2 DEF D!Next, D!Begin
    <2>5. CASE state \in {"failed", "cancelled"}
        BY <1>1, <2>1, <2>2, <2>5 DEF D!Next, D!Begin
    <2> QED
        BY <1>0, <2>3, <2>4, <2>5 DEF TypeOK, AssessmentState, TerminalStates
<1>4. CASE node_report
    <2>1. state = "reporting" /\ state' = "completed"
        BY <1>0, <1>4 DEF node_report, AgreeInv, RowPlaced, StateOf
    <2>2. Driver = "driving" /\ Driver' = "driving"
        BY <1>4 DEF node_report, Driver
    <2> QED
        BY <1>1, <2>1, <2>2, Phases DEF D!Next, D!Advance
<1>5. CASE LeaveNode
    <2>1. Driver = "driving" /\ UNCHANGED state
        BY <1>5 DEF LeaveNode, Driver
    <2>2. CASE After[next] = "none"
        <3>1. state = "completed" /\ Driver' = "done"
            BY <1>0, <1>5, <2>2, Edges DEF LeaveNode, InNode, AgreeInv, RowPlaced,
               Driver
        <3> QED
            BY <1>1, <2>1, <3>1 DEF D!Next, D!LetGo
    <2>3. CASE After[next] # "none"
        BY <1>1, <1>5, <2>1, <2>3 DEF LeaveNode, Driver
    <2> QED
        BY <2>2, <2>3
<1>6. CASE EndFailed \/ Park \/ RefuseAuthorization
    <2>1. state \in {"failed", "policy_check", "authorized"} /\ UNCHANGED state
        BY <1>0, <1>6, Ends DEF EndFailed, Park, RefuseAuthorization, Placed,
           AgreeInv, RowPlaced
    <2>2. Driver = "driving" /\ Driver' = "done"
        BY <1>6 DEF EndFailed, Park, RefuseAuthorization, Driver
    <2> QED
        BY <1>1, <2>1, <2>2 DEF D!Next, D!LetGo, D!Resting
<1>7. CASE MarkFailed \/ CheckpointerFails
    <2>1. /\ Driver = "driving" /\ Driver' \in {"driving", "done"}
          /\ state' = "failed"
        BY <1>7 DEF MarkFailed, CheckpointerFails, Driver
    <2> QED
        BY <1>1, <2>1 DEF D!Next, D!Fail
<1>8. CASE _finish_cancelled
    <2>1. Driver = "driving" /\ Driver' = "done" /\ state' = "cancelled"
        BY <1>8 DEF _finish_cancelled, Driver
    <2> QED
        BY <1>1, <2>1 DEF D!Next, D!Cancel
<1>9. CASE LeaveRegistry
    <2>1. Driver = "done" /\ Driver' = "none" /\ UNCHANGED state
        BY <1>9 DEF LeaveRegistry, Driver
    <2> QED
        BY <1>1, <2>1 DEF D!Next, D!Release
<1> QED
    BY <1>2, <1>3, <1>4, <1>5, <1>6, <1>7, <1>8, <1>9 DEF Engine, Mishap

\* So is every step of an operator, of a crash and of the sweep.
LEMMA DurableOthers ==
    ASSUME DurableInv,
           \/ Operator \/ Crash \/ Host \/ UNCHANGED vars
           \/ \E r \in Request : Commit(r)
           \/ \E s \in Step : EndApprovedStep(s)
    PROVE  [D!Next]_<<state, Driver, boot # "serving">>
<1> USE DEF rows, thread, driver, rest
<1>0. TypeOK /\ HostQuiet /\ AgreeInv /\ OverInv
    BY DEF DurableInv, TypeInv
<1>1. CASE UNCHANGED <<state, task, boot>>
    BY <1>1 DEF Driver
<1>2. CASE Operator
    BY <1>0, <1>1, <1>2, DurableLaunch DEF Operator, ChatStart, LoadStart,
       LoadCancel, LoadHeldStep, Load
<1>3. ASSUME NEW r \in Request, Commit(r)
      PROVE  [D!Next]_<<state, Driver, boot # "serving">>
    <2>0. boot = "serving"
        BY <1>0, <1>3 DEF HostQuiet, NoRequest, Commit, CommitStart, CommitCancel,
           CommitApprove, CommitDeny, _resume_if_parked
    <2>1. CASE CommitCancel(r)
        <3>1. CASE state' = state
            BY <1>1, <2>1, <3>1 DEF CommitCancel
        <3>2. CASE state' = "cancelled" /\ task = "idle"
            <4>1. state \in D!ActiveStates => state \in D!Resting
                BY <1>0, <2>0, <3>2, Actives, Phases DEF AgreeInv, RowPlaced,
                   AtRest, D!Resting
            <4>2. UNCHANGED <<task, boot>>
                BY <2>1 DEF CommitCancel
            <4>3. Driver = "none" /\ UNCHANGED Driver
                BY <3>2, <4>2 DEF Driver
            <4> QED
                BY <2>0, <3>2, <4>1, <4>2, <4>3 DEF D!Next, D!Withdraw
        <3> QED
            BY <2>1, <3>1, <3>2 DEF CommitCancel, is_running
    <2>2. CASE ~CommitCancel(r)
        BY <1>0, <1>1, <1>3, <2>0, <2>2, DurableLaunch DEF Commit, CommitStart,
           CommitApprove, CommitDeny, _resume_if_parked
    <2> QED
        BY <2>1, <2>2
<1>4. CASE Crash
    <2>1. Driver' = "none" /\ boot' # "serving" /\ UNCHANGED state
        BY <1>4 DEF Crash, Driver
    <2> QED
        BY <2>1 DEF D!Next, D!Crash
<1>5. CASE Host
    <2>0. boot # "serving" /\ task = "idle" /\ Driver = "none"
        BY <1>0, <1>5 DEF Host, SweepContinue, SweepReset, SweepLaunch,
           SweepNothing, HostQuiet, Driver
    <2>1. CASE SweepContinue \/ SweepLaunch
        <3>1. state \notin D!TerminalStates
            BY <1>0, <2>1 DEF SweepContinue, SweepLaunch, Interrupted,
               TerminalStates, D!TerminalStates, OverInv
        <3>2. Driver' = "driving" /\ boot' = "serving" /\ UNCHANGED state
            BY <2>0, <2>1 DEF SweepContinue, SweepLaunch, start_assessment,
               is_running, Driver
        <3> QED
            BY <2>0, <3>1, <3>2 DEF D!Next, D!Continue
    <2>2. CASE SweepReset
        <3>1. /\ state \notin D!TerminalStates /\ state' = "created"
              /\ UNCHANGED task /\ boot' # "serving"
            BY <2>2 DEF SweepReset, Interrupted, TerminalStates, D!TerminalStates
        <3> QED
            BY <2>0, <3>1 DEF Driver, D!Next, D!Reset
    <2>3. CASE SweepNothing
        <3>1. state \notin D!ActiveStates
            BY <1>0, <2>3, Actives, Phases DEF SweepNothing, Interrupted, AgreeInv,
               Begun, TerminalStates
        <3>2. boot' = "serving" /\ UNCHANGED <<state, task>>
            BY <2>3 DEF SweepNothing
        <3> QED
            BY <2>0, <3>1, <3>2 DEF Driver, D!Next, D!Ignore
    <2> QED
        BY <1>5, <2>1, <2>2, <2>3 DEF Host
<1>6. CASE \E s \in Step : EndApprovedStep(s)
    BY <1>1, <1>6 DEF EndApprovedStep
<1>7. CASE UNCHANGED vars
    BY <1>1, <1>7 DEF vars
<1> QED
    BY <1>2, <1>3, <1>4, <1>5, <1>6, <1>7

\* The graph workflow, with its two stores, its parks, its operators and its
\* crashes, has only the behaviours of one assessment that goes on where it stopped.
THEOREM GraphRunImplementsDurableAssessment == Spec => ImplementsDurableAssessment
<1>1. DurableInv /\ [Next]_vars => [D!Next]_<<state, Driver, boot # "serving">>
    BY DurableEngine, DurableOthers DEF Next
<1> QED
    BY <1>1, DurableInit, DurableInvariant, PTL
    DEF Spec, ImplementsDurableAssessment, D!Spec, D!vars
\* What the refinement means for the row alone: whatever parks, crashes, resumptions
\* and launches lie between, an active state is followed by its successor, by one
\* that is not active, or by itself; and only the report completes.
NoPhaseIsSkippedOrRepeated ==
    [][/\ state \in D!ActiveStates /\ state' \in D!ActiveStates
             => state' = D!Successor[state]
       /\ state' = "completed" => state = "reporting"]_state

\* An assessment that is continued in its thread goes through each phase once, which
\* the inline engine does not promise: that one starts over.
THEOREM PhasesComeOnce == Spec => NoPhaseIsSkippedOrRepeated
<1>1. [D!Next]_(D!vars)
        => [/\ state \in D!ActiveStates /\ state' \in D!ActiveStates
                  => state' = D!Successor[state]
            /\ state' = "completed" => state = "reporting"]_state
    BY Phases DEF D!vars, D!Next, D!Launch, D!Begin, D!Advance, D!Fail, D!Cancel,
       D!LetGo, D!Release, D!Withdraw, D!Crash, D!Continue, D!Reset, D!Ignore,
       D!TerminalStates, D!Successor
<1> QED
    BY <1>1, GraphRunImplementsDurableAssessment, PTL
    DEF ImplementsDurableAssessment, D!Spec, NoPhaseIsSkippedOrRepeated

(***************************************************************************)
(* A cancel that comes before the last node.  That it stops the run needs   *)
(* fairness; that the run does not slip past it does not.                   *)
(***************************************************************************)
\* The report has not been entered: a guard is still to be passed.
CancelAhead ==
    /\ state # "completed"
    /\ task \in {"entering", "working", "leaving"} => next # "report"

\* A cancel that comes before the last node is entered, and is not taken back,
\* keeps the run from being completed: now, after a park, or after a restart.
EarlyCancelNeverCompletes ==
    []((cancel_requested /\ CancelAhead) /\ []cancel_requested
          => [](state # "completed"))

\* With the flag up nobody passes the guard of another node.
LEMMA CancelStaysAhead ==
    TypeInv /\ CancelAhead /\ cancel_requested /\ [Next]_vars => CancelAhead'
<1> SUFFICES ASSUME TypeInv, CancelAhead, cancel_requested, [Next]_vars
             PROVE  CancelAhead'
    OBVIOUS
<1> USE DEF rows, thread, driver, rest
<1>0. /\ task \in InNode => next \in Node
      /\ task \in {"executing", "replanning"} => next = "execute"
      /\ task = "deciding" => next = "policy"
    BY DEF TypeInv, Placed
<1>1. CASE Engine \/ Mishap \/ Replan
    <2>1. CASE run_via_langgraph \/ _guard_cancel
        BY <2>1 DEF run_via_langgraph, _guard_cancel, Checkpoint, CancelAhead
    <2>2. CASE EnterNode
        BY <1>0, <2>2, NoNodeIsOver DEF EnterNode, InNode, CancelAhead
    <2>3. CASE PassThrough \/ node_plan \/ node_policy \/ node_report
        BY <2>3 DEF PassThrough, node_plan, node_policy, node_report, CancelAhead
    <2>4. CASE Park \/ Proceed \/ LoadApproved \/ FinishExecute \/ Replan
               \/ (\E s \in Step : StreamResult(s)) \/ LeaveRegistry
        BY <1>0, <2>4 DEF Park, Proceed, LoadApproved, FinishExecute, Replan,
           StreamResult, LeaveRegistry, CancelAhead
    <2>5. CASE LeaveNode \/ EndFailed \/ RefuseAuthorization
        BY <2>5 DEF LeaveNode, EndFailed, RefuseAuthorization, Checkpoint, CancelAhead
    <2>6. CASE _finish_cancelled \/ MarkFailed \/ CheckpointerFails
        BY <2>6 DEF _finish_cancelled, MarkFailed, CheckpointerFails, CancelAhead
    <2> QED
        BY <1>1, <2>1, <2>2, <2>3, <2>4, <2>5, <2>6 DEF Engine, Mishap
<1>2. ASSUME start_assessment, UNCHANGED <<state, next>> PROVE CancelAhead'
    BY <1>2 DEF start_assessment, CancelAhead
<1>3. CASE UNCHANGED <<state, next, task>>
    BY <1>3 DEF CancelAhead
<1>4. CASE Operator
    BY <1>2, <1>3, <1>4 DEF Operator, ChatStart, LoadStart, LoadCancel,
       LoadHeldStep, Load
<1>5. ASSUME NEW r \in Request, Commit(r) PROVE CancelAhead'
    <2>1. CASE CommitCancel(r)
        BY <2>1 DEF CommitCancel, CancelAhead
    <2> QED
        BY <1>2, <1>3, <1>5, <2>1 DEF Commit, CommitStart, CommitApprove,
           CommitDeny, _resume_if_parked
<1>6. CASE Crash
    BY <1>6 DEF Crash, CancelAhead
<1>7. CASE Host
    <2>1. CASE SweepReset
        BY <2>1 DEF SweepReset, CancelAhead
    <2> QED
        BY <1>2, <1>3, <1>7, <2>1 DEF Host, SweepContinue, SweepLaunch, SweepNothing
<1>8. CASE \E s \in Step : EndApprovedStep(s)
    BY <1>3, <1>8 DEF EndApprovedStep
<1>9. CASE UNCHANGED vars
    BY <1>3, <1>9 DEF vars
<1> QED
    BY <1>1, <1>4, <1>5, <1>6, <1>7, <1>8, <1>9 DEF Next

\* The safety half of CancelStops: no interleaving of the nodes, operators, crashes
\* and resumptions carries a run past a cancel that stays.
THEOREM EarlyCancelIsNotPassed == Spec => EarlyCancelNeverCompletes
<1>1. CancelAhead => state # "completed"
    BY DEF CancelAhead
<1>2. Spec => []TypeInv
    BY AgreeInvariant, PTL
<1> QED
    BY <1>1, <1>2, CancelStaysAhead, PTL DEF Spec, EarlyCancelNeverCompletes

(***************************************************************************)
(* Why the task ends.  What it has ahead of it is the way out of the graph, *)
(* then the nodes, then the places in a node, then the missing results.     *)
(***************************************************************************)
WayOut ==
    [launched |-> 4, guarding |-> 3, entering |-> 3, working |-> 3, deciding |-> 3,
     executing |-> 3, replanning |-> 3, leaving |-> 3, failing |-> 2, cancelling |-> 2,
     ending |-> 1, idle |-> 0]

NodesAhead ==
    [authorize |-> 8, discover |-> 7, plan |-> 6, policy |-> 5, execute |-> 4,
     validate |-> 3, score |-> 2, report |-> 1, none |-> 0]

PlacesAhead ==
    [launched |-> 0, guarding |-> 7, entering |-> 6, working |-> 5, deciding |-> 4,
     executing |-> 3, replanning |-> 2, leaving |-> 1, failing |-> 0, cancelling |-> 0,
     ending |-> 0, idle |-> 0]

\* The four numbers, compared from the left, have become smaller.
Nearer ==
    \/ WayOut[task'] < WayOut[task]
    \/ /\ WayOut[task'] = WayOut[task]
       /\ NodesAhead[next'] < NodesAhead[next]
    \/ /\ WayOut[task'] = WayOut[task]
       /\ UNCHANGED next
       /\ PlacesAhead[task'] < PlacesAhead[task]
    \/ UNCHANGED <<task, next>> /\ Cardinality(batch') < Cardinality(batch)

\* Each step of the task, a mishap included, brings it nearer to its end, and nobody
\* else, no decision, cancel, late step or sweep, moves it while it is registered.
TaskCountsDown ==
    [][/\ Engine \/ Mishap \/ Replan => Nearer
       /\ is_running => Nearer \/ UNCHANGED <<task, next, batch>>]_vars

\* The numbers have no infinite descent: they are natural ones.
TaskAheadIsNatural ==
    /\ WayOut[task] \in Nat
    /\ NodesAhead[next] \in Nat
    /\ PlacesAhead[task] \in Nat
    /\ Cardinality(batch) \in Nat

\* The task is at one of the places, and there are finitely many rows.
LEMMA TaskAheadTyped ==
    ASSUME IsFiniteSet(Step), TypeInv
    PROVE  TaskAheadIsNatural
<1>1. WayOut[task] \in Nat /\ PlacesAhead[task] \in Nat
    BY DEF TypeInv, TypeOK, WayOut, PlacesAhead
<1>2. NodesAhead[next] \in Nat
    BY Nodes DEF TypeInv, TypeOK, NodesAhead
<1>3. Cardinality(batch) \in Nat
    BY FS_Subset, FS_CardinalityType DEF TypeInv, TypeOK
<1> QED
    BY <1>1, <1>2, <1>3 DEF TaskAheadIsNatural

\* Every place leads out of the node, or to a later one in it.
LEMMA TaskComesNearer ==
    ASSUME IsFiniteSet(Step), TypeInv, Engine \/ Mishap \/ Replan
    PROVE  Nearer
<1> USE DEF rows, thread, driver, rest
<1>1. CASE run_via_langgraph \/ Park \/ EndFailed \/ _finish_cancelled \/ LeaveRegistry
           \/ Mishap
    <2>1. WayOut[task'] < WayOut[task]
        BY <1>1 DEF run_via_langgraph, Park, EndFailed, _finish_cancelled, LeaveRegistry,
           Mishap, RefuseAuthorization, MarkFailed, CheckpointerFails, WayOut
    <2> QED
        BY <2>1 DEF Nearer
<1>2. CASE _guard_cancel
    <2>1. CASE cancel_requested
        <3>1. WayOut[task'] < WayOut[task]
            BY <1>2, <2>1 DEF _guard_cancel, WayOut
        <3> QED
            BY <3>1 DEF Nearer
    <2>2. CASE ~cancel_requested
        BY <1>2, <2>2 DEF _guard_cancel, Nearer, WayOut, PlacesAhead
    <2> QED
        BY <2>1, <2>2
<1>3. CASE EnterNode \/ PassThrough \/ node_plan \/ node_policy \/ Proceed \/ LoadApproved
           \/ FinishExecute \/ node_report \/ Replan
    <2>1. /\ UNCHANGED next
          /\ WayOut[task'] = WayOut[task]
          /\ PlacesAhead[task'] < PlacesAhead[task]
        BY <1>3 DEF EnterNode, PassThrough, node_plan, node_policy, Proceed, LoadApproved,
           FinishExecute, node_report, Replan, WayOut, PlacesAhead
    <2> QED
        BY <2>1 DEF Nearer
<1>4. ASSUME NEW s \in Step, StreamResult(s) PROVE Nearer
    <2>1. /\ UNCHANGED <<task, next>>
          /\ s \in batch /\ batch' = batch \ {s}
        BY <1>4 DEF StreamResult
    <2>2. Cardinality(batch') < Cardinality(batch)
        <3>1. IsFiniteSet(batch)
            BY FS_Subset DEF TypeInv, TypeOK
        <3>2. Cardinality(batch) \in Nat /\ Cardinality(batch') = Cardinality(batch) - 1
            BY <2>1, <3>1, FS_RemoveElement, FS_CardinalityType
        <3> QED
            BY <3>2
    <2> QED
        BY <2>1, <2>2 DEF Nearer
<1>5. CASE LeaveNode
    <2>1. next \in Node /\ task = "leaving" /\ next' = After[next]
        BY <1>5 DEF LeaveNode, Checkpoint, TypeInv, Placed, TypeOK, InNode
    <2>2. CASE After[next] = "none"
        <3>1. WayOut[task'] < WayOut[task]
            BY <1>5, <2>1, <2>2 DEF LeaveNode, WayOut
        <3> QED
            BY <3>1 DEF Nearer
    <2>3. CASE After[next] # "none"
        <3>1. task' = "guarding"
            BY <1>5, <2>3 DEF LeaveNode
        <3>2. NodesAhead[next'] < NodesAhead[next]
            BY <2>1, <2>3, Nodes DEF After, NodesAhead
        <3> QED
            BY <2>1, <3>1, <3>2 DEF Nearer, WayOut
    <2> QED
        BY <2>2, <2>3
<1> QED
    BY <1>1, <1>2, <1>3, <1>4, <1>5 DEF Engine

\* Everybody else leaves a registered task where it is, or loses it in a crash.
LEMMA NobodyMovesTheTask ==
    ASSUME TypeInv, HostQuiet, is_running, [Next]_vars, ~(Engine \/ Mishap \/ Replan)
    PROVE  Nearer \/ UNCHANGED <<task, next, batch>>
<1> USE DEF rows, thread, driver, rest
<1>1. CASE Crash
    <2>1. task # "idle" /\ task' = "idle"
        BY <1>1 DEF Crash, is_running
    <2>2. WayOut[task'] < WayOut[task]
        BY <2>1 DEF TypeInv, TypeOK, WayOut
    <2> QED
        BY <2>2 DEF Nearer
<1>2. CASE (\E s \in Step : EndApprovedStep(s)) \/ Operator
    BY <1>2 DEF EndApprovedStep, Operator, ChatStart, LoadStart, LoadCancel,
       LoadHeldStep, Load, is_running
<1>3. CASE \E r \in Request : Commit(r)
    BY <1>3 DEF Commit, CommitStart, CommitCancel, CommitApprove, CommitDeny,
       _resume_if_parked, start_assessment, is_running
<1>4. CASE Host
    BY <1>4 DEF Host, SweepContinue, SweepReset, SweepLaunch, SweepNothing, HostQuiet,
       is_running
<1>5. CASE UNCHANGED vars
    BY <1>5 DEF vars
<1> QED
    BY <1>1, <1>2, <1>3, <1>4, <1>5 DEF Next

\* The ranking argument behind TaskEnds: no node waits for anybody, so that a launched
\* task has only finitely many steps to make until it leaves the registry.
THEOREM LaunchedTaskCountsDown ==
    ASSUME IsFiniteSet(Step)
    PROVE  Spec => TaskCountsDown /\ []TaskAheadIsNatural
<1>1. TypeInv /\ HostQuiet /\ [Next]_vars
        => [/\ Engine \/ Mishap \/ Replan => Nearer
            /\ is_running => Nearer \/ UNCHANGED <<task, next, batch>>]_vars
    BY TaskComesNearer, NobodyMovesTheTask
<1>2. TypeInv => TaskAheadIsNatural
    BY TaskAheadTyped
<1> QED
    BY <1>1, <1>2, AgreeInvariant, PTL DEF Spec, TaskCountsDown
=============================================================================
