------------------------------ MODULE Execution ------------------------------
(***************************************************************************)
(* The execution of steps by agents: the execute phase of a run, or a task  *)
(* of steps approved later (orchestration/engine.py), with the pools of     *)
(* agents/pool.py, the bounded loop of an agent in agents/base.py, and the  *)
(* ledger that every call of a language model is charged to                 *)
(* (agents/brain.py, agents/budget.py).                                     *)
(*                                                                          *)
(* The main pass streams the results of one pool; then steps that failed    *)
(* are retried one by one outside of it; then passes of replanning run gaps *)
(* of the coverage, each in a pool of its own.  A loop over results that is *)
(* left early leaves its pool's agents behind: they go on beside whatever   *)
(* comes next.                                                              *)
(***************************************************************************)
EXTENDS Naturals, FiniteSets

CONSTANTS
    Agent,           \* agents, one for each step that is executed
    Concurrency,     \* execution_concurrency
    MaxStepRetries,  \* max_step_retries
    MaxReplans,      \* max_replans
    MaxTokens,       \* max_llm_tokens_per_assessment, when it is set
    PerCall          \* tokens that one call may be charged with

NoAgent == "no agent"

ASSUME ExecutionAssumption ==
    /\ IsFiniteSet(Agent)
    /\ NoAgent \notin Agent
    /\ Concurrency \in Nat \ {0}
    /\ MaxStepRetries \in Nat
    /\ MaxReplans \in Nat
    /\ MaxTokens \in Nat \ {0}
    /\ PerCall \in Nat \ {0}

VARIABLES
    cancel_requested,  \* the column of the assessment
    late,              \* the deadline has passed
    unhealthy,         \* too many errors of the client in a row
    loop,              \* where the engine is
    pass,              \* 0 for the main pass, then the passes of replanning
    stopped,           \* controller.cancelled: the main pass has a stop_reason
    attempt,           \* the attempt that the retries have reached
    errored,           \* agents to retry in the next attempt
    retry_ids,         \* agents to retry in this one
    current,           \* the agent that is being retried
    place,             \* where an agent is
    pool,              \* the pass to whose pool it belongs
    revised,           \* it has used its second look
    tokens             \* the ledger's total

signals == <<cancel_requested, late, unhealthy>>
retries == <<attempt, errored, retry_ids, current>>
agents == <<place, pool, revised>>
vars == <<signals, loop, pass, stopped, retries, agents, tokens>>

\* The pass of a task of late steps, which nothing follows.
LastPass == IF MaxReplans = 0 THEN 1 ELSE MaxReplans

Passes == 0..LastPass

Busy == {"deciding", "asking", "acting"}

Returned == {"ok", "error"}

TypeOK ==
    /\ cancel_requested \in BOOLEAN
    /\ late \in BOOLEAN
    /\ unhealthy \in BOOLEAN
    /\ loop \in {"ready", "streaming", "retrying", "replanning", "asking", "gaps",
                 "batch", "over", "closed"}
    /\ pass \in Passes
    /\ stopped \in BOOLEAN
    /\ attempt \in 2..(MaxStepRetries + 2)
    /\ errored \subseteq Agent
    /\ retry_ids \subseteq Agent
    /\ current \in Agent \cup {NoAgent}
    /\ place \in [Agent -> {"none", "queued", "taken"} \cup Busy \cup Returned]
    /\ pool \in [Agent -> Passes]
    /\ revised \in [Agent -> BOOLEAN]
    /\ tokens \in Nat

Init ==
    /\ cancel_requested = FALSE
    /\ late = FALSE
    /\ unhealthy = FALSE
    /\ loop = "ready"
    /\ pass = 0
    /\ stopped = FALSE
    /\ attempt = 2
    /\ errored = {}
    /\ retry_ids = {}
    /\ current = NoAgent
    /\ place = [a \in Agent |-> "none"]
    /\ pool = [a \in Agent |-> 0]
    /\ revised = [a \in Agent |-> FALSE]
    /\ tokens \in 0..(MaxTokens + PerCall - 1)   \* what earlier phases were charged

\* Mistake: the controller is not told that the main pass was stopped.
should_stop_by_signal == late \/ unhealthy

should_stop == stopped \/ late \/ unhealthy

exceeded == tokens >= MaxTokens

UnderWay == {a \in Agent : place[a] \in Busy}

InPool(i) == {a \in UnderWay : pool[a] = i}

Unbuilt == {a \in Agent : place[a] = "none"}

\* Everything of a pool has been taken.
Drained(i) == \A a \in Agent : pool[a] = i => place[a] \in {"none", "taken"}

Move(a, p) == place' = [place EXCEPT ![a] = p]

(***************************************************************************)
(* Signals.                                                                 *)
(***************************************************************************)
\* An operator cancels, the deadline passes, and the target's answers to the
\* agents' requests make the client healthy or unhealthy.
Signal ==
    /\ loop \notin {"ready", "closed"}
    /\ \/ ~cancel_requested /\ cancel_requested' = TRUE /\ UNCHANGED <<late, unhealthy>>
       \/ ~late /\ late' = TRUE /\ UNCHANGED <<cancel_requested, unhealthy>>
       \/ /\ \E a \in Agent : place[a] = "acting"
          /\ unhealthy' = ~unhealthy
          /\ UNCHANGED <<cancel_requested, late>>
    /\ UNCHANGED <<loop, pass, stopped, retries, agents, tokens>>

(***************************************************************************)
(* An agent in its pool.                                                    *)
(***************************************************************************)
\* Mistake: a pool's slot is free again only when the result has been taken.
SlotFreeWhenTaken(a) ==
    Cardinality({b \in Agent : pool[b] = pool[a] /\ place[b] \in Busy \cup Returned})
        < Concurrency

SlotFree(a) == Cardinality(InPool(pool[a])) < Concurrency

\* With a slot of its pool an agent begins, unless the pool is to stop.
Start(a) ==
    /\ place[a] = "queued"
    /\ SlotFree(a)
    /\ Move(a, IF should_stop THEN "error" ELSE "deciding")
    /\ UNCHANGED <<signals, loop, pass, stopped, retries, pool, revised, tokens>>

\* The brain decides whether the agent acts or skips.
Decide(a) == \E p \in {"acting", "ok"} : Move(a, p)

\* Mistake: only an agent's first call looks at the ledger.
ConsultOnce(a) ==
    /\ place[a] = "deciding"
    /\ Decide(a) \/ ((revised[a] \/ ~exceeded) /\ Move(a, "asking"))
    /\ UNCHANGED <<signals, loop, pass, stopped, retries, pool, revised, tokens>>

\* A model is asked only while the ledger is not exceeded; a brain without a
\* model never asks.
Consult(a) ==
    /\ place[a] = "deciding"
    /\ Decide(a) \/ (~exceeded /\ Move(a, "asking"))
    /\ UNCHANGED <<signals, loop, pass, stopped, retries, pool, revised, tokens>>

\* The model answers and the call is charged; one that fails or whose answer
\* cannot be read is not.
Answer(a) ==
    /\ place[a] = "asking"
    /\ \E n \in 0..PerCall : tokens' = tokens + n
    /\ Decide(a)
    /\ UNCHANGED <<signals, loop, pass, stopped, retries, pool, revised>>

\* The check has run: with findings or nothing more to try, with an
\* exception, or with a second look to come.
Act(a) ==
    /\ place[a] = "acting"
    /\ \/ \E p \in Returned : Move(a, p) /\ UNCHANGED revised
       \/ ~revised[a] /\ Move(a, "deciding") /\ revised' = [revised EXCEPT ![a] = TRUE]
    /\ UNCHANGED <<signals, loop, pass, stopped, retries, pool, tokens>>

\* per_agent_timeout; an agent that is retried runs without it.
TimeOut(a) ==
    /\ place[a] \in Busy
    /\ a # current
    /\ Move(a, "error")
    /\ UNCHANGED <<signals, loop, pass, stopped, retries, pool, revised, tokens>>

RunAgent(a) == Start(a) \/ Consult(a) \/ Answer(a) \/ Act(a)

(***************************************************************************)
(* The engine.                                                              *)
(***************************************************************************)
\* Tasks for agents are created and wait for slots.
Build(B, i) ==
    /\ place' = [a \in Agent |-> IF a \in B THEN "queued" ELSE place[a]]
    /\ pool' = [a \in Agent |-> IF a \in B THEN i ELSE pool[a]]

StartAgents ==
    /\ loop = "ready"
    /\ \E B \in SUBSET Agent : Build(B, 0)
    /\ loop' = "streaming"
    /\ UNCHANGED <<signals, pass, stopped, retries, revised, tokens>>

\* execute_approved_steps enters the batch at once.
StartApprovedSteps ==
    /\ loop = "ready"
    /\ tokens = 0   \* its engine has a ledger of its own
    /\ \E B \in SUBSET Agent : Build(B, LastPass)
    /\ loop' = "batch"
    /\ pass' = LastPass
    /\ UNCHANGED <<signals, stopped, retries, revised, tokens>>

TakeResult(a) ==
    /\ loop = "streaming"
    /\ place[a] \in Returned /\ pool[a] = 0
    /\ \/ /\ cancel_requested \/ late \/ unhealthy
          /\ stopped' = TRUE
          /\ loop' = "retrying"
          /\ UNCHANGED <<place, errored>>
       \/ /\ ~(cancel_requested \/ late \/ unhealthy)
          /\ Move(a, "taken")
          /\ errored' = IF place[a] = "error" THEN errored \cup {a} ELSE errored
          /\ UNCHANGED <<stopped, loop>>
    /\ UNCHANGED <<signals, pass, attempt, retry_ids, current, pool, revised, tokens>>

EndStream ==
    /\ loop = "streaming"
    /\ Drained(0)
    /\ loop' = "retrying"
    /\ UNCHANGED <<signals, pass, stopped, retries, agents, tokens>>

\* Mistake: the retries do not ask whether the execution was stopped.
MayRetryAnyway == attempt <= MaxStepRetries + 1 /\ errored # {} /\ ~cancel_requested

MayRetry ==
    attempt <= MaxStepRetries + 1 /\ errored # {} /\ ~should_stop /\ ~cancel_requested

BetweenAttempts == loop = "retrying" /\ current = NoAgent /\ retry_ids = {}

\* Mistake: an attempt is not counted.
NextAttemptUncounted ==
    /\ BetweenAttempts
    /\ MayRetry
    /\ retry_ids' = errored
    /\ errored' = {}
    /\ UNCHANGED <<signals, loop, pass, stopped, attempt, current, agents, tokens>>

NextAttempt ==
    /\ BetweenAttempts
    /\ MayRetry
    /\ retry_ids' = errored
    /\ errored' = {}
    /\ attempt' = attempt + 1
    /\ UNCHANGED <<signals, loop, pass, stopped, current, agents, tokens>>

Retry(a) ==
    /\ loop = "retrying"
    /\ current = NoAgent
    /\ a \in retry_ids
    /\ current' = a
    /\ retry_ids' = retry_ids \ {a}
    /\ Move(a, "deciding")
    /\ revised' = [revised EXCEPT ![a] = FALSE]
    /\ UNCHANGED <<signals, loop, pass, stopped, attempt, errored, pool, tokens>>

TakeRetry(a) ==
    /\ current = a
    /\ place[a] \in Returned
    /\ Move(a, "taken")
    /\ errored' = IF place[a] = "error" THEN errored \cup {a} ELSE errored
    /\ current' = NoAgent
    /\ UNCHANGED <<signals, loop, pass, stopped, attempt, retry_ids, pool, revised, tokens>>

LeaveRetries ==
    /\ BetweenAttempts
    /\ ~MayRetry
    /\ loop' = IF stopped THEN "over" ELSE "replanning"
    /\ UNCHANGED <<signals, pass, stopped, retries, agents, tokens>>

\* Mistake: one pass more than the settings allow.
ConsultCoordinatorOnceMore ==
    /\ loop = "replanning"
    /\ pass <= MaxReplans
    /\ ~should_stop /\ ~cancel_requested
    /\ loop' = "gaps" \/ (~exceeded /\ loop' = "asking")
    /\ UNCHANGED <<signals, pass, stopped, retries, agents, tokens>>

\* The coordinator is asked about another pass, if there may be one.
ConsultCoordinator ==
    /\ loop = "replanning"
    /\ pass < MaxReplans
    /\ ~should_stop /\ ~cancel_requested
    /\ loop' = "gaps" \/ (~exceeded /\ loop' = "asking")
    /\ UNCHANGED <<signals, pass, stopped, retries, agents, tokens>>

CoordinatorAnswers ==
    /\ loop = "asking"
    /\ \E n \in 0..PerCall : tokens' = tokens + n
    /\ loop' = "gaps"
    /\ UNCHANGED <<signals, pass, stopped, retries, agents>>

\* The gaps get steps and agents, and a pool of their own.
PlanGaps ==
    /\ loop = "gaps"
    /\ pass' = pass + 1
    /\ \E B \in SUBSET Unbuilt : Build(B, pass + 1)
    /\ loop' = "batch"
    /\ UNCHANGED <<signals, stopped, retries, revised, tokens>>

TakeBatchResult(a) ==
    /\ loop = "batch"
    /\ place[a] \in Returned /\ pool[a] = pass
    /\ \/ (should_stop \/ cancel_requested) /\ loop' = "replanning" /\ UNCHANGED place
       \/ ~(should_stop \/ cancel_requested) /\ Move(a, "taken") /\ UNCHANGED loop
    /\ UNCHANGED <<signals, pass, stopped, retries, pool, revised, tokens>>

EndBatch ==
    /\ loop = "batch"
    /\ Drained(pass)
    /\ loop' = "replanning"
    /\ UNCHANGED <<signals, pass, stopped, retries, agents, tokens>>

\* Nothing to execute, no gaps, no budget, no more passes, a coordinator or a
\* signal that says stop.
LeaveExecution ==
    /\ loop \in {"ready", "replanning", "gaps"}
    /\ loop' = "over"
    /\ UNCHANGED <<signals, pass, stopped, retries, agents, tokens>>

\* A result cannot be stored, a row cannot be read: the run fails.
FailExecution ==
    /\ loop \notin {"over", "closed"}
    /\ current = NoAgent
    /\ loop' = "over"
    /\ UNCHANGED <<signals, pass, stopped, retries, agents, tokens>>

\* The later phases are over and the client is closed.
CloseClient ==
    /\ loop = "over"
    /\ loop' = "closed"
    /\ UNCHANGED <<signals, pass, stopped, retries, agents, tokens>>

Engine ==
    \/ StartAgents \/ StartApprovedSteps
    \/ \E a \in Agent : TakeResult(a) \/ Retry(a) \/ TakeRetry(a) \/ TakeBatchResult(a)
    \/ EndStream \/ NextAttempt \/ LeaveRetries
    \/ ConsultCoordinator \/ CoordinatorAnswers \/ PlanGaps \/ EndBatch
    \/ LeaveExecution \/ CloseClient

Next ==
    \/ Signal
    \/ \E a \in Agent : RunAgent(a) \/ TimeOut(a)
    \/ Engine
    \/ FailExecution

Spec == Init /\ [][Next]_vars

\* The event loop runs whoever can go on: the engine, and each agent, whose
\* calls to the target and to a model all have timeouts of their own.  Nothing
\* has to fail, and no agent has to run out of its time.
FairSpec == Spec /\ WF_vars(Engine) /\ \A a \in Agent : WF_vars(RunAgent(a))

(***************************************************************************)
(* Properties.                                                              *)
(***************************************************************************)
\* Agents that a loop has left behind may still run when the next pass begins.
\* But the main pass leaves none to the passes of replanning, so no more than
\* one pool for each of those is at work, and no pool exceeds its slots.
AgentsAreBounded ==
    /\ \A i \in Passes : Cardinality(InPool(i)) <= Concurrency
    /\ InPool(0) # {} => UnderWay = InPool(0)

\* A retry has neither a slot nor a timeout nor the pool's look at the stop
\* signals; it runs only when nobody else does.
RetriesRunAlone == current # NoAgent => UnderWay \subseteq {current}

\* The ledger is looked at before a call and charged after it, by agents of
\* all the pools at work and by the coordinator; it exceeds its ceiling by less
\* than what that many calls may cost.
LedgerOvershootIsBounded == tokens < MaxTokens + PerCall * (Concurrency * LastPass + 1)

\* Whatever agents, signals and the coordinator do, the execution ends.
ExecutionEnds == <>(loop = "closed")

\* Agents that were left behind do not stay: those that wait for a slot get one
\* and see the signal, or run to their end.
NobodyIsLeftBehind == loop = "closed" ~> \A a \in Agent : place[a] \notin Busy \cup {"queued"}
=============================================================================
