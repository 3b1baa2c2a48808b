--------------------------- MODULE ExecutionProofs ---------------------------
(* Theorems about Execution for any agents, slots, retries, passes and prices. *)
EXTENDS Execution, FiniteSetTheorems, TLAPS

USE DEF Busy, Returned, Passes

\* The last pass is not the main one.
LEMMA LastPassIsLater == LastPass \in Nat \ {0} /\ MaxReplans <= LastPass
BY ExecutionAssumption DEF LastPass

(***************************************************************************)
(* Types.                                                                   *)
(***************************************************************************)
\* Another pass is only planned within the bound.
PassInv == loop \in {"asking", "gaps"} => pass < MaxReplans

\* What an agent does keeps the types.
LEMMA AgentKeepsTypes ==
    ASSUME TypeOK, NEW a \in Agent, RunAgent(a) \/ TimeOut(a)
    PROVE  TypeOK'
<1> USE DEF TypeOK, Move, signals, retries, agents
<1>1. CASE Start(a)
    BY <1>1 DEF Start
<1>2. CASE Consult(a)
    BY <1>2 DEF Consult, Decide
<1>3. CASE Answer(a)
    BY <1>3, ExecutionAssumption DEF Answer, Decide
<1>4. CASE Act(a)
    <2>1. CASE \E p \in Returned : Move(a, p) /\ UNCHANGED revised
        BY <1>4, <2>1 DEF Act
    <2>2. CASE Move(a, "deciding") /\ revised' = [revised EXCEPT ![a] = TRUE]
        BY <1>4, <2>2 DEF Act
    <2> QED
        BY <1>4, <2>1, <2>2 DEF Act
<1>5. CASE TimeOut(a)
    BY <1>5 DEF TimeOut
<1> QED
    BY <1>1, <1>2, <1>3, <1>4, <1>5 DEF RunAgent

\* What the engine does with an agent keeps the types.
LEMMA ResultKeepsTypes ==
    ASSUME TypeOK, NEW a \in Agent,
           TakeResult(a) \/ Retry(a) \/ TakeRetry(a) \/ TakeBatchResult(a)
    PROVE  TypeOK'
<1> USE DEF TypeOK, Move, signals, retries, agents
<1>1. CASE TakeResult(a)
    BY <1>1 DEF TakeResult
<1>2. CASE Retry(a)
    BY <1>2 DEF Retry
<1>3. CASE TakeRetry(a)
    BY <1>3 DEF TakeRetry
<1>4. CASE TakeBatchResult(a)
    BY <1>4 DEF TakeBatchResult
<1> QED
    BY <1>1, <1>2, <1>3, <1>4

\* Whatever the engine does by itself keeps the types.
LEMMA EngineKeepsTypes ==
    ASSUME TypeOK, PassInv,
           \/ StartAgents \/ StartApprovedSteps \/ EndStream \/ NextAttempt \/ LeaveRetries
           \/ ConsultCoordinator \/ CoordinatorAnswers \/ PlanGaps \/ EndBatch
           \/ LeaveExecution \/ FailExecution \/ CloseClient
    PROVE  TypeOK'
<1> USE DEF TypeOK, signals, retries, agents
<1>1. CASE StartAgents
    BY <1>1, LastPassIsLater DEF StartAgents, Build
<1>2. CASE StartApprovedSteps
    BY <1>2, LastPassIsLater DEF StartApprovedSteps, Build
<1>3. CASE NextAttempt
    <2>1. attempt' = attempt + 1 /\ attempt <= MaxStepRetries + 1
        BY <1>3 DEF NextAttempt, MayRetry
    <2>2. attempt' \in 2..(MaxStepRetries + 2)
        BY <2>1, ExecutionAssumption
    <2> QED
        BY <1>3, <2>2 DEF NextAttempt
<1>4. CASE CoordinatorAnswers
    BY <1>4, ExecutionAssumption DEF CoordinatorAnswers
<1>5. CASE PlanGaps
    <2>1. pass + 1 \in 0..LastPass
        BY <1>5, LastPassIsLater, ExecutionAssumption DEF PlanGaps, PassInv
    <2> QED
        BY <1>5, <2>1 DEF PlanGaps, Build
<1>6. CASE EndStream \/ LeaveRetries \/ ConsultCoordinator \/ EndBatch \/ LeaveExecution
            \/ FailExecution \/ CloseClient
    BY <1>6 DEF EndStream, LeaveRetries, ConsultCoordinator, EndBatch, LeaveExecution,
        FailExecution, CloseClient
<1> QED
    BY <1>1, <1>2, <1>3, <1>4, <1>5, <1>6

\* A signal keeps the types.
LEMMA SignalKeepsTypes == ASSUME TypeOK, Signal PROVE TypeOK'
BY DEF TypeOK, Signal, retries, agents

\* A pass is planned only behind the look at the number of passes.
LEMMA PassIsBounded == TypeOK /\ PassInv /\ [Next]_vars => PassInv'
<1> SUFFICES ASSUME TypeOK, PassInv, [Next]_vars PROVE PassInv'
    OBVIOUS
<1>1. CASE Signal
    BY <1>1 DEF Signal, PassInv
<1>2. ASSUME NEW a \in Agent, RunAgent(a) \/ TimeOut(a)
      PROVE  PassInv'
    BY <1>2 DEF RunAgent, TimeOut, Start, Consult, Answer, Act, PassInv
<1>3. ASSUME NEW a \in Agent,
             TakeResult(a) \/ Retry(a) \/ TakeRetry(a) \/ TakeBatchResult(a)
      PROVE  PassInv'
    BY <1>3 DEF TakeResult, Retry, TakeRetry, TakeBatchResult, PassInv
<1>4. CASE StartAgents \/ StartApprovedSteps \/ EndStream \/ NextAttempt \/ LeaveRetries
    BY <1>4 DEF StartAgents, StartApprovedSteps, EndStream, NextAttempt, LeaveRetries, PassInv
<1>5. CASE \/ ConsultCoordinator \/ CoordinatorAnswers \/ PlanGaps \/ EndBatch
           \/ LeaveExecution \/ FailExecution \/ CloseClient
    BY <1>5 DEF ConsultCoordinator, CoordinatorAnswers, PlanGaps, EndBatch, LeaveExecution,
        FailExecution, CloseClient, PassInv
<1>6. CASE UNCHANGED vars
    BY <1>6 DEF vars, PassInv
<1> QED
    BY <1>1, <1>2, <1>3, <1>4, <1>5, <1>6 DEF Next, Engine

\* Every variable keeps its type.  The type of pass needs the bound on passes.
LEMMA TypeStep == TypeOK /\ PassInv /\ [Next]_vars => TypeOK'
<1> SUFFICES ASSUME TypeOK, PassInv, [Next]_vars PROVE TypeOK'
    OBVIOUS
<1>1. CASE UNCHANGED vars
    BY <1>1 DEF vars, signals, retries, agents, TypeOK
<1>2. CASE Next
    BY <1>2, SignalKeepsTypes, AgentKeepsTypes, ResultKeepsTypes, EngineKeepsTypes
    DEF Next, Engine
<1> QED
    BY <1>1, <1>2

\* Initially as well.
LEMMA TypeInit == Init => TypeOK /\ PassInv
<1>1. 2 \in 2..(MaxStepRetries + 2) /\ 0..(MaxTokens + PerCall - 1) \subseteq Nat /\ 0 \in Passes
    BY ExecutionAssumption, LastPassIsLater
<1> QED
    BY <1>1 DEF Init, TypeOK, PassInv

\* In every reachable state the variables have their types, and the passes
\* stay within their number.
THEOREM TypeCorrect == Spec => []TypeOK
<1>1. Spec => [](TypeOK /\ PassInv)
    BY TypeInit, TypeStep, PassIsBounded, PTL DEF Spec
<1> QED
    BY <1>1, PTL

(***************************************************************************)
(* Where agents are.                                                        *)
(***************************************************************************)
AtRest(a) == place[a] \in {"none", "taken"}

\* What the engine has behind it when it is where it is.  The main pass may
\* leave agents behind, but then it is stopped, and nothing is retried or
\* planned anew; passes of replanning leave theirs in pools other than 0.
PlaceInv ==
    /\ loop = "ready" => \A a \in Agent : place[a] = "none"
    /\ loop \in {"ready", "streaming", "retrying"} => pass = 0
    /\ pass = 0 => \A a \in Agent : pool[a] = 0
    /\ pass # 0 \/ loop \in {"replanning", "asking", "gaps", "batch"} => Drained(0)
    /\ loop = "retrying" /\ ~stopped => \A a \in Agent : AtRest(a) \/ a = current
    /\ current # NoAgent => loop = "retrying" /\ ~stopped
    /\ retry_ids # {} => loop \in {"retrying", "over", "closed"} /\ ~stopped

\* No pool exceeds its slots.
SlotInv == \A i \in Passes : Cardinality(InPool(i)) <= Concurrency

\* Initially nobody is anywhere.
LEMMA PlacesInit == Init => PlaceInv /\ SlotInv
<1> SUFFICES ASSUME Init PROVE PlaceInv /\ SlotInv
    OBVIOUS
<1>1. PlaceInv
    BY DEF Init, PlaceInv, Drained
<1>2. \A i \in Passes : InPool(i) = {}
    BY DEF Init, InPool, UnderWay
<1>3. SlotInv
    BY <1>2, FS_EmptySet, ExecutionAssumption DEF SlotInv
<1> QED
    BY <1>1, <1>3

\* Who is at rest stays there until the engine moves it.
LEMMA AgentKeepsPlaces ==
    ASSUME TypeOK, PlaceInv, NEW a \in Agent, RunAgent(a) \/ TimeOut(a)
    PROVE  PlaceInv'
<1>1. /\ place[a] \in {"queued"} \cup Busy
      /\ \E p \in Busy \cup Returned : place' = [place EXCEPT ![a] = p]
      /\ UNCHANGED <<loop, pass, stopped, retries, pool>>
    <2> USE DEF Move, Decide
    <2>1. CASE Start(a)
        BY <2>1 DEF Start
    <2>2. CASE Consult(a)
        BY <2>2 DEF Consult
    <2>3. CASE Answer(a)
        BY <2>3 DEF Answer
    <2>4. CASE Act(a)
        BY <2>4 DEF Act
    <2>5. CASE TimeOut(a)
        BY <2>5 DEF TimeOut
    <2> QED
        BY <2>1, <2>2, <2>3, <2>4, <2>5 DEF RunAgent
<1>2. ~AtRest(a) /\ place[a] # "none"
    BY <1>1 DEF AtRest
<1>3. \A b \in Agent : b # a => place'[b] = place[b]
    BY <1>1 DEF TypeOK
<1> QED
    BY <1>1, <1>2, <1>3 DEF PlaceInv, Drained, AtRest, retries

\* Taking results and starting retries.
LEMMA ResultKeepsPlaces ==
    ASSUME TypeOK, PlaceInv, NEW a \in Agent,
           TakeResult(a) \/ Retry(a) \/ TakeRetry(a) \/ TakeBatchResult(a)
    PROVE  PlaceInv'
<1> USE DEF TypeOK, PlaceInv, Move, Drained, AtRest, signals, retries, agents
<1>1. CASE TakeResult(a)
    BY <1>1 DEF TakeResult
<1>2. CASE Retry(a)
    BY <1>2, ExecutionAssumption DEF Retry
<1>3. CASE TakeRetry(a)
    BY <1>3, ExecutionAssumption DEF TakeRetry
<1>4. CASE TakeBatchResult(a)
    BY <1>4 DEF TakeBatchResult
<1> QED
    BY <1>1, <1>2, <1>3, <1>4

\* The engine moves on only from what it has behind it.
LEMMA EngineKeepsPlaces ==
    ASSUME TypeOK, PlaceInv,
           \/ StartAgents \/ StartApprovedSteps \/ EndStream \/ NextAttempt \/ LeaveRetries
           \/ ConsultCoordinator \/ CoordinatorAnswers \/ PlanGaps \/ EndBatch
           \/ LeaveExecution \/ FailExecution \/ CloseClient
    PROVE  PlaceInv'
<1> USE DEF TypeOK, PlaceInv, Drained, AtRest, signals, retries, agents
<1>1. CASE StartAgents
    BY <1>1 DEF StartAgents, Build
<1>2. CASE StartApprovedSteps
    BY <1>2, LastPassIsLater DEF StartApprovedSteps, Build
<1>3. CASE NextAttempt
    BY <1>3 DEF NextAttempt, MayRetry, should_stop, BetweenAttempts
<1>4. CASE LeaveRetries
    BY <1>4, ExecutionAssumption DEF LeaveRetries, BetweenAttempts
<1>5. CASE PlanGaps
    BY <1>5 DEF PlanGaps, Build, Unbuilt
<1>6. CASE EndStream
    BY <1>6 DEF EndStream
<1>7. CASE \/ ConsultCoordinator \/ CoordinatorAnswers \/ EndBatch \/ LeaveExecution
           \/ FailExecution \/ CloseClient
    BY <1>7 DEF ConsultCoordinator, CoordinatorAnswers, EndBatch, LeaveExecution,
        FailExecution, CloseClient
<1> QED
    BY <1>1, <1>2, <1>3, <1>4, <1>5, <1>6, <1>7

\* Every step keeps PlaceInv.
LEMMA PlaceStep == TypeOK /\ PlaceInv /\ [Next]_vars => PlaceInv'
<1> SUFFICES ASSUME TypeOK, PlaceInv, [Next]_vars PROVE PlaceInv'
    OBVIOUS
<1>1. CASE UNCHANGED vars
    BY <1>1 DEF vars, signals, retries, agents, PlaceInv, Drained, AtRest
<1>2. CASE Signal
    BY <1>2 DEF Signal, retries, agents, PlaceInv, Drained, AtRest
<1>3. CASE Next
    BY <1>2, <1>3, AgentKeepsPlaces, ResultKeepsPlaces, EngineKeepsPlaces DEF Next, Engine
<1> QED
    BY <1>1, <1>3

\* Sets of agents are finite.
LEMMA AgentsAreFinite ==
    ASSUME NEW S \in SUBSET Agent
    PROVE  IsFiniteSet(S) /\ Cardinality(S) \in Nat
BY FS_Subset, FS_CardinalityType, ExecutionAssumption

\* Pools that only lose agents exceed nothing.
LEMMA LosingPools ==
    ASSUME SlotInv, \A i \in Passes : InPool(i)' \subseteq InPool(i)
    PROVE  SlotInv'
<1> SUFFICES ASSUME NEW i \in Passes PROVE Cardinality(InPool(i)') <= Concurrency
    BY LastPassIsLater DEF SlotInv
<1>1. InPool(i)' \in SUBSET InPool(i) /\ InPool(i) \in SUBSET Agent
    BY DEF InPool, UnderWay
<1>2. Cardinality(InPool(i)') <= Cardinality(InPool(i))
    BY <1>1, AgentsAreFinite, FS_Subset
<1>3. Cardinality(InPool(i)') \in Nat /\ Cardinality(InPool(i)) \in Nat
    BY <1>1, AgentsAreFinite DEF InPool, UnderWay
<1> QED
    BY <1>2, <1>3, ExecutionAssumption DEF SlotInv

\* An element more is at most one more.
LEMMA OneMore ==
    ASSUME NEW S, IsFiniteSet(S), NEW x
    PROVE  /\ IsFiniteSet(S \cup {x})
           /\ Cardinality(S \cup {x}) <= Cardinality(S) + 1
           /\ Cardinality(S \cup {x}) \in Nat
<1>1. IsFiniteSet(S \cup {x}) /\ Cardinality(S) \in Nat
    BY FS_AddElement, FS_CardinalityType
<1>2. Cardinality(S \cup {x}) \in {Cardinality(S), Cardinality(S) + 1}
    <2>1. CASE x \in S
        <3>1. S \cup {x} = S
            BY <2>1
        <3> QED
            BY <3>1
    <2>2. CASE x \notin S
        BY <2>2, FS_AddElement
    <2> QED
        BY <2>1, <2>2
<1> QED
    BY <1>1, <1>2

\* An agent begins only when its pool has a slot.
LEMMA StartKeepsSlots ==
    ASSUME TypeOK, SlotInv, NEW a \in Agent, Start(a)
    PROVE  SlotInv'
<1> SUFFICES ASSUME NEW i \in Passes PROVE Cardinality(InPool(i)') <= Concurrency
    BY LastPassIsLater DEF SlotInv
<1>1. \A b \in Agent : b # a => place'[b] = place[b]
    BY DEF Start, Move, TypeOK
<1>2. pool' = pool
    BY DEF Start
<1>3. InPool(i) \in SUBSET Agent /\ InPool(i)' \in SUBSET Agent
    BY DEF InPool, UnderWay
<1>4. IsFiniteSet(InPool(i)) /\ Cardinality(InPool(i)) \in Nat /\ Cardinality(InPool(i)') \in Nat
    BY <1>3, AgentsAreFinite
<1>5. CASE pool[a] = i
    <2>1. InPool(i)' \in SUBSET (InPool(i) \cup {a})
        BY <1>1, <1>2 DEF InPool, UnderWay
    <2>2. /\ IsFiniteSet(InPool(i) \cup {a})
          /\ Cardinality(InPool(i) \cup {a}) <= Cardinality(InPool(i)) + 1
          /\ Cardinality(InPool(i) \cup {a}) \in Nat
        BY <1>4, OneMore
    <2>3. Cardinality(InPool(i)') <= Cardinality(InPool(i) \cup {a})
        BY <2>1, <2>2, FS_Subset
    <2>4. Cardinality(InPool(i)) < Concurrency
        BY <1>5 DEF Start, SlotFree
    <2> QED
        BY <1>4, <2>2, <2>3, <2>4, ExecutionAssumption
<1>6. CASE pool[a] # i
    <2>1. InPool(i)' \in SUBSET InPool(i)
        BY <1>1, <1>2, <1>6 DEF InPool, UnderWay
    <2>2. Cardinality(InPool(i)') <= Cardinality(InPool(i))
        BY <2>1, <1>4, FS_Subset
    <2> QED
        BY <1>4, <2>2, ExecutionAssumption DEF SlotInv
<1> QED
    BY <1>5, <1>6

\* A retry takes no slot, but finds all of them free.
LEMMA RetryKeepsSlots ==
    ASSUME TypeOK, PlaceInv, NEW a \in Agent, Retry(a)
    PROVE  SlotInv'
<1> SUFFICES ASSUME NEW i \in Passes PROVE Cardinality(InPool(i)') <= Concurrency
    BY LastPassIsLater DEF SlotInv
<1>1. \A b \in Agent : b # a => place'[b] \in {"none", "taken"}
    BY ExecutionAssumption DEF Retry, Move, TypeOK, PlaceInv, AtRest
<1>2. InPool(i)' \in SUBSET {a}
    BY <1>1 DEF InPool, UnderWay
<1>3. IsFiniteSet({a}) /\ Cardinality({a}) = 1
    BY FS_Singleton
<1>4. Cardinality(InPool(i)') <= 1
    BY <1>2, <1>3, FS_Subset
<1>5. Cardinality(InPool(i)') \in Nat
    BY <1>2, AgentsAreFinite
<1> QED
    BY <1>4, <1>5, ExecutionAssumption

\* Every step keeps the slots.
LEMMA SlotStep == TypeOK /\ PlaceInv /\ SlotInv /\ [Next]_vars => SlotInv'
<1> SUFFICES ASSUME TypeOK, PlaceInv, SlotInv, [Next]_vars PROVE SlotInv'
    OBVIOUS
<1> USE DEF TypeOK, InPool, UnderWay, Move
<1>1. CASE Signal \/ UNCHANGED vars
    <2>1. UNCHANGED <<place, pool>>
        BY <1>1 DEF Signal, vars, agents
    <2> QED
        BY <2>1, LosingPools
<1>2. ASSUME NEW a \in Agent, Start(a)
      PROVE  SlotInv'
    BY <1>2, StartKeepsSlots
<1>3. ASSUME NEW a \in Agent, Consult(a) \/ Answer(a) \/ Act(a) \/ TimeOut(a)
      PROVE  SlotInv'
    <2>1. /\ place[a] \in Busy
          /\ \E p \in Busy \cup Returned : place' = [place EXCEPT ![a] = p]
          /\ pool' = pool
        BY <1>3 DEF Consult, Answer, Act, TimeOut, Decide
    <2>2. \A i \in Passes : InPool(i)' \subseteq InPool(i)
        BY <2>1
    <2> QED
        BY <2>2, LosingPools
<1>4. ASSUME NEW a \in Agent, TakeResult(a) \/ TakeRetry(a) \/ TakeBatchResult(a)
      PROVE  SlotInv'
    <2>1. (place' = place \/ place' = [place EXCEPT ![a] = "taken"]) /\ pool' = pool
        BY <1>4 DEF TakeResult, TakeRetry, TakeBatchResult
    <2>2. \A i \in Passes : InPool(i)' \subseteq InPool(i)
        BY <2>1
    <2> QED
        BY <2>2, LosingPools
<1>5. ASSUME NEW a \in Agent, Retry(a)
      PROVE  SlotInv'
    BY <1>5, RetryKeepsSlots
<1>6. CASE StartAgents \/ StartApprovedSteps \/ PlanGaps
    <2>1. PICK B \in SUBSET Agent, i \in Nat : Build(B, i)
        BY <1>6, LastPassIsLater DEF StartAgents, StartApprovedSteps, PlanGaps, Unbuilt
    <2>2. \A j \in Passes : InPool(j)' \subseteq InPool(j)
        BY <2>1 DEF Build
    <2> QED
        BY <2>2, LosingPools
<1>7. CASE \/ EndStream \/ NextAttempt \/ LeaveRetries \/ ConsultCoordinator
           \/ CoordinatorAnswers \/ EndBatch \/ LeaveExecution \/ FailExecution \/ CloseClient
    <2>1. UNCHANGED <<place, pool>>
        BY <1>7 DEF EndStream, NextAttempt, LeaveRetries, ConsultCoordinator,
            CoordinatorAnswers, EndBatch, LeaveExecution, FailExecution, CloseClient, agents
    <2> QED
        BY <2>1, LosingPools
<1> QED
    BY <1>1, <1>2, <1>3, <1>4, <1>5, <1>6, <1>7 DEF Next, Engine, RunAgent

\* The invariant of the places.
Inv == TypeOK /\ PassInv /\ PlaceInv /\ SlotInv

\* It holds in every reachable state.
LEMMA InvHolds == Spec => []Inv
<1>1. Init => Inv
    BY TypeInit, PlacesInit DEF Inv
<1>2. Inv /\ [Next]_vars => Inv'
    BY TypeStep, PassIsBounded, PlaceStep, SlotStep DEF Inv
<1> QED
    BY <1>1, <1>2, PTL DEF Spec

\* Whoever left whom behind, no pool exceeds its slots, and agents of the main
\* pass never work beside those of a later one.
THEOREM PoolsAreBounded == Spec => []AgentsAreBounded
<1>1. Inv => AgentsAreBounded
    <2> SUFFICES ASSUME Inv, InPool(0) # {} PROVE UnderWay = InPool(0)
        BY DEF Inv, SlotInv, AgentsAreBounded
    <2>1. pass = 0
        BY DEF Inv, PlaceInv, Drained, InPool, UnderWay
    <2> QED
        BY <2>1 DEF Inv, PlaceInv, InPool, UnderWay
<1> QED
    BY <1>1, InvHolds, PTL

\* An agent that is retried without a slot works alone.
THEOREM RetriesAreAlone == Spec => []RetriesRunAlone
<1>1. Inv => RetriesRunAlone
    BY DEF Inv, PlaceInv, AtRest, RetriesRunAlone, UnderWay
<1> QED
    BY <1>1, InvHolds, PTL

(***************************************************************************)
(* The ledger.                                                              *)
(***************************************************************************)
Slots == (1..Concurrency) \X (1..LastPass)

\* As many as the slots of the passes of replanning are at work at a time.  No
\* induction over the passes is needed: numbering the agents of each pool maps
\* the slots onto everybody at work.
LEMMA WorkersFitTheSlots ==
    ASSUME Inv
    PROVE  Cardinality(UnderWay) <= Concurrency * LastPass
<1>1. UnderWay \in SUBSET Agent /\ \A i \in Passes : InPool(i) \in SUBSET Agent
    BY DEF UnderWay, InPool
<1>2. /\ IsFiniteSet(Slots)
      /\ Cardinality(Slots) = Concurrency * LastPass
      /\ Cardinality(Slots) \in Nat
    <2>1. Concurrency \in Nat \ {0} /\ LastPass \in Nat \ {0}
        BY ExecutionAssumption, LastPassIsLater
    <2>2. /\ IsFiniteSet(1..Concurrency) /\ Cardinality(1..Concurrency) = Concurrency
          /\ IsFiniteSet(1..LastPass) /\ Cardinality(1..LastPass) = LastPass
        BY <2>1, FS_Interval
    <2> DEFINE C == 1..Concurrency
               L == 1..LastPass
    <2>3. IsFiniteSet(C \X L) /\ Cardinality(C \X L) = Cardinality(C) * Cardinality(L)
        <3> HIDE DEF C, L
        <3> QED
            BY <2>2, FS_Product DEF C, L
    <2>4. Cardinality(C \X L) \in Nat
        <3> HIDE DEF C, L
        <3> QED
            BY <2>3, FS_CardinalityType
    <2> QED
        BY <2>2, <2>3, <2>4 DEF Slots
<1>3. CASE UnderWay = {}
    BY <1>2, <1>3, FS_EmptySet
<1>4. CASE UnderWay # {} /\ InPool(0) # {}
    <2>1. UnderWay = InPool(0)
        BY <1>4 DEF Inv, PlaceInv, Drained, InPool, UnderWay
    <2>2. Cardinality(UnderWay) <= Concurrency
        BY <2>1, LastPassIsLater DEF Inv, SlotInv
    <2>3. Concurrency <= Concurrency * LastPass
        BY ExecutionAssumption, LastPassIsLater
    <2>4. Concurrency * LastPass \in Nat /\ Cardinality(UnderWay) \in Nat
        BY <1>1, <1>2, AgentsAreFinite
    <2> QED
        BY <2>2, <2>3, <2>4, ExecutionAssumption
<1>5. CASE UnderWay # {} /\ InPool(0) = {}
    <2> DEFINE Nth(i) == CHOOSE f : f \in Bijection(1..Cardinality(InPool(i)), InPool(i))
               Spare == CHOOSE a : a \in UnderWay
               Worker == [s \in Slots |-> IF s[1] <= Cardinality(InPool(s[2]))
                                          THEN Nth(s[2])[s[1]]
                                          ELSE Spare]
    <2>1. \A i \in Passes : /\ Nth(i) \in Bijection(1..Cardinality(InPool(i)), InPool(i))
                            /\ Cardinality(InPool(i)) \in Nat
        BY <1>1, AgentsAreFinite, FS_CardinalityType DEF ExistsBijection
    <2>2. \A i \in Passes : InPool(i) \subseteq UnderWay
        BY DEF InPool
    <2>3. \A s \in Slots : s[1] \in 1..Concurrency /\ s[2] \in 1..LastPass /\ s[2] \in Passes
        BY LastPassIsLater DEF Slots
    <2>4. \A s \in Slots : Worker[s] \in UnderWay
        <3> SUFFICES ASSUME NEW s \in Slots PROVE Worker[s] \in UnderWay
            OBVIOUS
        <3>1. Spare \in UnderWay
            BY <1>5
        <3>2. s[1] <= Cardinality(InPool(s[2])) => Nth(s[2])[s[1]] \in InPool(s[2])
            <4> HIDE DEF Nth
            <4>1. Nth(s[2]) \in [1..Cardinality(InPool(s[2])) -> InPool(s[2])]
                BY <2>1, <2>3 DEF Bijection, Surjection
            <4>2. s[1] <= Cardinality(InPool(s[2])) => s[1] \in 1..Cardinality(InPool(s[2]))
                BY <2>1, <2>3
            <4> QED
                BY <4>1, <4>2
        <3> HIDE DEF Nth, Spare
        <3> QED
            BY <3>1, <3>2, <2>2, <2>3
    <2>5. \A a \in UnderWay : \E s \in Slots : Worker[s] = a
        <3> SUFFICES ASSUME NEW a \in UnderWay PROVE \E s \in Slots : Worker[s] = a
            OBVIOUS
        <3> DEFINE i == pool[a]
        <3>1. i \in Passes /\ a \in InPool(i) /\ i # 0
            BY <1>5 DEF Inv, TypeOK, InPool, UnderWay
        <3> HIDE DEF i, Nth, Spare
        <3>2. PICK n \in 1..Cardinality(InPool(i)) : Nth(i)[n] = a
            BY <2>1, <3>1 DEF Bijection, Surjection
        <3>3. Cardinality(InPool(i)) <= Concurrency
            BY <3>1 DEF Inv, SlotInv
        <3>4. <<n, i>> \in Slots
            BY <2>1, <3>1, <3>2, <3>3, ExecutionAssumption, LastPassIsLater DEF Slots
        <3>5. Worker[<<n, i>>] = a
            BY <2>1, <3>1, <3>2, <3>4
        <3> QED
            BY <3>4, <3>5
    <2>6. Worker \in Surjection(Slots, UnderWay)
        <3> HIDE DEF Nth, Spare
        <3>1. Worker \in [Slots -> UnderWay]
            BY <2>4
        <3> QED
            BY <3>1, <2>5 DEF Surjection
    <2> HIDE DEF Worker
    <2> QED
        BY <2>6, <1>2, FS_Surjection
<1> QED
    BY <1>3, <1>4, <1>5

\* The agents that have asked a model and have no answer yet.
Askers == {a \in Agent : place[a] = "asking"}

\* Calls that are not charged yet.
Uncharged == Cardinality(Askers) + (IF loop = "asking" THEN 1 ELSE 0)

MostCalls == Concurrency * LastPass + 1

\* What is charged together with what may be.
LedgerInv == tokens + PerCall * Uncharged < MaxTokens + PerCall * MostCalls

\* Calls under way are counted.
LEMMA CallsAreCounted ==
    /\ IsFiniteSet(Askers) /\ Cardinality(Askers) \in Nat
    /\ Uncharged \in Nat
    /\ MostCalls \in Nat
<1>1. Concurrency \in Nat /\ LastPass \in Nat
    BY ExecutionAssumption, LastPassIsLater
<1>2. Concurrency * LastPass \in Nat
    BY <1>1
<1>3. IsFiniteSet(Askers) /\ Cardinality(Askers) \in Nat
    BY AgentsAreFinite DEF Askers
<1> QED
    BY <1>2, <1>3 DEF Uncharged, MostCalls

\* In the next state as well.
LEMMA CallsAreCountedNext == (Uncharged \in Nat /\ Cardinality(Askers) \in Nat)'
<1>1. Uncharged \in Nat /\ Cardinality(Askers) \in Nat
    BY CallsAreCounted
<1> QED
    BY <1>1, PTL

\* Agents that ask are at work, so no more ask than there are slots.
LEMMA CallsAreBounded == Inv => Uncharged <= MostCalls
<1> SUFFICES ASSUME Inv PROVE Uncharged <= MostCalls
    OBVIOUS
<1>1. Cardinality(UnderWay) <= Concurrency * LastPass
    BY WorkersFitTheSlots
<1>2. Askers \in SUBSET UnderWay /\ UnderWay \in SUBSET Agent
    BY DEF Askers, UnderWay
<1>3. Cardinality(Askers) <= Cardinality(UnderWay)
    BY <1>2, AgentsAreFinite, FS_Subset
<1>4. Concurrency * LastPass \in Nat /\ Cardinality(UnderWay) \in Nat
    BY <1>2, AgentsAreFinite, ExecutionAssumption, LastPassIsLater
<1> QED
    BY <1>1, <1>3, <1>4, CallsAreCounted DEF Uncharged, MostCalls

\* In the next state as well.
LEMMA CallsAreBoundedNext == Inv' => Uncharged' <= MostCalls
<1>1. Inv' => (Uncharged <= MostCalls)'
    BY CallsAreBounded, PTL
<1>2. MostCalls' = MostCalls
    BY DEF MostCalls, LastPass
<1> QED
    BY <1>1, <1>2

\* What fewer calls may cost is less, and one call costs PerCall.
LEMMA Prices ==
    /\ \A m, n \in Nat : m <= n => PerCall * m <= PerCall * n
    /\ \A m, n \in Nat : m + 1 <= n => PerCall * m + PerCall <= PerCall * n
    /\ \A n \in Nat : PerCall * n \in Nat
BY ExecutionAssumption

\* When nothing is charged and there are no more calls, the ledger is as good
\* as before.
LEMMA FewerCalls ==
    ASSUME TypeOK, LedgerInv, tokens' = tokens, Uncharged' <= Uncharged
    PROVE  LedgerInv'
<1>1. PerCall * Uncharged' <= PerCall * Uncharged
    BY Prices, CallsAreCounted, CallsAreCountedNext
<1>2. PerCall * Uncharged' \in Nat /\ PerCall * Uncharged \in Nat /\ PerCall * MostCalls \in Nat
    BY Prices, CallsAreCounted, CallsAreCountedNext
<1>3. MostCalls' = MostCalls
    BY DEF MostCalls, LastPass
<1> QED
    BY <1>1, <1>2, <1>3, ExecutionAssumption DEF LedgerInv, TypeOK

\* A call begins only below the ceiling.
LEMMA CallBelowTheCeiling ==
    ASSUME TypeOK, Inv', tokens' = tokens, ~exceeded
    PROVE  LedgerInv'
<1>1. PerCall * Uncharged' <= PerCall * MostCalls
    BY CallsAreBoundedNext, CallsAreCounted, CallsAreCountedNext, Prices
<1>2. PerCall * Uncharged' \in Nat /\ PerCall * MostCalls \in Nat
    BY Prices, CallsAreCounted, CallsAreCountedNext
<1>3. MostCalls' = MostCalls
    BY DEF MostCalls, LastPass
<1> QED
    BY <1>1, <1>2, <1>3, ExecutionAssumption DEF LedgerInv, TypeOK, exceeded

\* An answer is charged no more than its call was counted with.
LEMMA AnswerIsCharged ==
    ASSUME TypeOK, LedgerInv, NEW n \in 0..PerCall, tokens' = tokens + n,
           Uncharged' + 1 <= Uncharged
    PROVE  LedgerInv'
<1>1. PerCall * Uncharged' + PerCall <= PerCall * Uncharged
    BY Prices, CallsAreCounted, CallsAreCountedNext
<1>2. PerCall * Uncharged' \in Nat /\ PerCall * Uncharged \in Nat /\ PerCall * MostCalls \in Nat
    BY Prices, CallsAreCounted, CallsAreCountedNext
<1>3. MostCalls' = MostCalls
    BY DEF MostCalls, LastPass
<1> QED
    BY <1>1, <1>2, <1>3, ExecutionAssumption DEF LedgerInv, TypeOK

\* Nobody else asks when an agent that does not ask goes on.
LEMMA AskersShrink ==
    ASSUME Askers' \subseteq Askers
    PROVE  Cardinality(Askers') <= Cardinality(Askers)
BY CallsAreCounted, FS_Subset

\* Initially no call is under way.
LEMMA LedgerInit == Init => LedgerInv
<1> SUFFICES ASSUME Init PROVE LedgerInv
    OBVIOUS
<1>1. Askers = {} /\ loop # "asking"
    BY DEF Init, Askers
<1>2. Uncharged = 0
    BY <1>1, FS_EmptySet DEF Uncharged
<1>3. 1 <= MostCalls /\ MostCalls \in Nat
    BY CallsAreCounted, ExecutionAssumption, LastPassIsLater DEF MostCalls
<1>4. PerCall <= PerCall * MostCalls /\ PerCall * Uncharged = 0 /\ PerCall * MostCalls \in Nat
    BY <1>2, <1>3, ExecutionAssumption
<1> QED
    BY <1>4, ExecutionAssumption DEF LedgerInv, Init

\* Every step keeps what is charged, and may still be, within the ceiling.
LEMMA LedgerStep == Inv /\ Inv' /\ LedgerInv /\ [Next]_vars => LedgerInv'
<1> SUFFICES ASSUME Inv, Inv', LedgerInv, [Next]_vars PROVE LedgerInv'
    OBVIOUS
<1>1. TypeOK
    BY DEF Inv
<1> USE DEF Askers, Move
<1>2. CASE Signal \/ UNCHANGED vars
    <2>1. UNCHANGED <<place, loop, tokens>>
        BY <1>2 DEF Signal, vars, agents
    <2>2. Uncharged' = Uncharged
        BY <2>1 DEF Uncharged
    <2> QED
        BY <1>1, <2>1, <2>2, CallsAreCounted, FewerCalls
<1>3. ASSUME NEW a \in Agent, place'[a] # "asking", UNCHANGED <<loop, tokens>>,
             \E p \in Busy \cup Returned \cup {"taken"} : place' = [place EXCEPT ![a] = p]
      PROVE  LedgerInv'
    <2>1. Askers' \subseteq Askers
        BY <1>1, <1>3 DEF TypeOK
    <2>2. Uncharged' <= Uncharged
        BY <1>3, <2>1, AskersShrink, CallsAreCounted, CallsAreCountedNext DEF Uncharged
    <2> QED
        BY <1>1, <1>3, <2>2, FewerCalls
<1>4. ASSUME NEW a \in Agent, Consult(a)
      PROVE  LedgerInv'
    <2>1. CASE ~exceeded
        BY <1>1, <1>4, <2>1, CallBelowTheCeiling DEF Consult
    <2>2. CASE exceeded
        BY <1>1, <1>3, <1>4, <2>2 DEF Consult, Decide, TypeOK
    <2> QED
        BY <2>1, <2>2
<1>5. ASSUME NEW a \in Agent, Answer(a)
      PROVE  LedgerInv'
    <2>1. a \in Askers /\ Askers' = Askers \ {a} /\ loop' = loop
        BY <1>1, <1>5 DEF Answer, Decide, TypeOK
    <2>2. Cardinality(Askers') = Cardinality(Askers) - 1
        BY <2>1, CallsAreCounted, FS_RemoveElement
    <2>3. Uncharged' + 1 <= Uncharged
        BY <2>1, <2>2, CallsAreCounted, CallsAreCountedNext DEF Uncharged
    <2> QED
        BY <1>1, <1>5, <2>3, AnswerIsCharged DEF Answer
<1>6. ASSUME NEW a \in Agent, Start(a) \/ Act(a) \/ TimeOut(a)
      PROVE  LedgerInv'
    BY <1>1, <1>3, <1>6 DEF Start, Act, TimeOut, TypeOK
<1>7. ASSUME NEW a \in Agent, TakeResult(a) \/ Retry(a) \/ TakeRetry(a) \/ TakeBatchResult(a)
      PROVE  LedgerInv'
    <2>1. Askers' \subseteq Askers /\ tokens' = tokens
        BY <1>1, <1>7 DEF TakeResult, Retry, TakeRetry, TakeBatchResult, TypeOK
    <2>2. loop' # "asking"
        BY <1>7, ExecutionAssumption DEF TakeResult, Retry, TakeRetry, TakeBatchResult, Inv, PlaceInv
    <2>3. Uncharged' <= Uncharged
        BY <2>1, <2>2, AskersShrink, CallsAreCounted, CallsAreCountedNext DEF Uncharged
    <2> QED
        BY <1>1, <2>1, <2>3, FewerCalls
<1>8. CASE ConsultCoordinator
    <2>1. CASE ~exceeded
        BY <1>1, <1>8, <2>1, CallBelowTheCeiling DEF ConsultCoordinator
    <2>2. CASE exceeded
        <3>1. UNCHANGED <<place, tokens>> /\ loop' # "asking"
            BY <1>8, <2>2 DEF ConsultCoordinator, agents
        <3>2. Uncharged' <= Uncharged
            BY <3>1, CallsAreCounted DEF Uncharged
        <3> QED
            BY <1>1, <3>1, <3>2, FewerCalls
    <2> QED
        BY <2>1, <2>2
<1>9. CASE CoordinatorAnswers
    <2>1. loop = "asking" /\ loop' # "asking" /\ UNCHANGED place
        BY <1>9 DEF CoordinatorAnswers, agents
    <2>2. Uncharged' + 1 <= Uncharged
        BY <2>1, CallsAreCounted DEF Uncharged
    <2> QED
        BY <1>1, <1>9, <2>2, AnswerIsCharged DEF CoordinatorAnswers
<1>10. CASE \/ StartAgents \/ StartApprovedSteps \/ EndStream \/ NextAttempt \/ LeaveRetries
            \/ PlanGaps \/ EndBatch \/ LeaveExecution \/ FailExecution \/ CloseClient
    <2>1. Askers' \subseteq Askers
        BY <1>10 DEF StartAgents, StartApprovedSteps, EndStream, NextAttempt, LeaveRetries,
            PlanGaps, EndBatch, LeaveExecution, FailExecution, CloseClient, Build, agents
    <2>2. tokens' = tokens /\ (loop' = "asking" => loop = "asking")
        BY <1>10 DEF StartAgents, StartApprovedSteps, EndStream, NextAttempt, LeaveRetries,
            PlanGaps, EndBatch, LeaveExecution, FailExecution, CloseClient
    <2>3. Uncharged' <= Uncharged
        BY <2>1, <2>2, AskersShrink, CallsAreCounted, CallsAreCountedNext DEF Uncharged
    <2> QED
        BY <1>1, <2>2, <2>3, FewerCalls
<1> QED
    BY <1>2, <1>4, <1>5, <1>6, <1>7, <1>8, <1>9, <1>10 DEF Next, Engine, RunAgent

\* However many agents of however many pools look at the ledger at once, it
\* exceeds its ceiling by less than the calls of the slots of all passes of
\* replanning, and one of the coordinator, may cost.
THEOREM LedgerIsBounded == Spec => []LedgerOvershootIsBounded
<1>1. Spec => []LedgerInv
    <2>1. Inv /\ LedgerInv /\ [Next]_vars /\ Inv' => LedgerInv'
        BY LedgerStep
    <2> QED
        BY <2>1, LedgerInit, InvHolds, PTL DEF Spec
<1>2. Inv /\ LedgerInv => LedgerOvershootIsBounded
    <2> SUFFICES ASSUME Inv, LedgerInv PROVE LedgerOvershootIsBounded
        OBVIOUS
    <2>1. PerCall * Uncharged \in Nat /\ PerCall * MostCalls \in Nat
        BY Prices, CallsAreCounted
    <2> QED
        BY <2>1, ExecutionAssumption DEF Inv, TypeOK, LedgerInv, LedgerOvershootIsBounded, MostCalls
<1> QED
    BY <1>1, <1>2, InvHolds, PTL
(***************************************************************************)
(* Why an execution ends.  What the engine still has ahead of it is a tuple *)
(* of numbers, compared from the left, and what an agent has ahead of it is *)
(* one number.                                                              *)
(***************************************************************************)
StageOf ==
    [ready |-> 5, streaming |-> 4, retrying |-> 3, replanning |-> 2, asking |-> 2,
     gaps |-> 2, batch |-> 2, over |-> 1, closed |-> 0]

\* A pass of replanning, up to the look at whether there is another.
TurnOf ==
    [ready |-> 0, streaming |-> 0, retrying |-> 0, replanning |-> 2, asking |-> 1,
     gaps |-> 0, batch |-> 3, over |-> 0, closed |-> 0]

\* Of the present pass, whose result the engine has still to take.
Untaken == {a \in Agent : pool[a] = pass /\ ~AtRest(a)}

Ahead ==
    <<StageOf[loop],
      LastPass - pass,
      TurnOf[loop],
      MaxStepRetries + 2 - attempt,
      Cardinality(retry_ids),
      IF current = NoAgent THEN 0 ELSE 1,
      Cardinality(Untaken)>>

\* The leftmost number in which they differ is the smaller one.
Below(x, y) == \E i \in 1..7 : x[i] < y[i] /\ \A j \in 1..(i - 1) : x[j] = y[j]

BusyAhead == [deciding |-> 3, asking |-> 2, acting |-> 1]

\* What an agent has ahead of it: a slot, and twice three steps at the most.
AgentAhead(a) ==
    IF place[a] = "queued" THEN 7
    ELSE IF place[a] \in Busy THEN BusyAhead[place[a]] + (IF revised[a] THEN 0 ELSE 3)
    ELSE 0

\* Every step but a signal uses something up: the engine comes nearer to its end,
\* or, while it stays where it is, exactly one agent does.
EverythingIsUsedUp ==
    [][\/ Signal
       \/ Below(Ahead', Ahead)
       \/ /\ Ahead' = Ahead
          /\ \E a \in Agent :
                /\ AgentAhead(a)' < AgentAhead(a)
                /\ \A b \in Agent \ {a} : AgentAhead(b)' = AgentAhead(b)]_vars

\* The numbers have no infinite descent: they are natural ones.
AheadIsNatural ==
    /\ \A i \in 1..7 : Ahead[i] \in Nat
    /\ \A a \in Agent : AgentAhead(a) \in Nat

\* The places are known.
LEMMA Stages ==
    ASSUME TypeOK
    PROVE  StageOf[loop] \in Nat /\ TurnOf[loop] \in Nat
BY DEF TypeOK, StageOf, TurnOf

\* The numbers by themselves.
LEMMA AheadParts ==
    /\ Ahead[1] = StageOf[loop]
    /\ Ahead[2] = LastPass - pass
    /\ Ahead[3] = TurnOf[loop]
    /\ Ahead[4] = MaxStepRetries + 2 - attempt
    /\ Ahead[5] = Cardinality(retry_ids)
    /\ Ahead[6] = IF current = NoAgent THEN 0 ELSE 1
    /\ Ahead[7] = Cardinality(Untaken)
BY DEF Ahead

\* Well typed, the numbers are natural.
LEMMA AheadTyped == TypeOK => AheadIsNatural
<1> SUFFICES ASSUME TypeOK PROVE AheadIsNatural
    OBVIOUS
<1>1. LastPass - pass \in Nat /\ MaxStepRetries + 2 - attempt \in Nat
    BY ExecutionAssumption, LastPassIsLater DEF TypeOK
<1>2. Cardinality(retry_ids) \in Nat /\ Cardinality(Untaken) \in Nat
    BY AgentsAreFinite DEF TypeOK, Untaken
<1>3. \A i \in 1..7 : Ahead[i] \in Nat
    <2>1. \A i \in 1..7 : i = 1 \/ i = 2 \/ i = 3 \/ i = 4 \/ i = 5 \/ i = 6 \/ i = 7
        OBVIOUS
    <2> QED
        BY <1>1, <1>2, <2>1, Stages, AheadParts
<1>4. \A a \in Agent : AgentAhead(a) \in Nat
    BY DEF AgentAhead, BusyAhead
<1> QED
    BY <1>3, <1>4 DEF AheadIsNatural
\* One number that falls, with those to its left as they were.
LEMMA BelowAt ==
    ASSUME NEW x, NEW y, NEW i \in 1..7, x[i] < y[i],
           \A j \in 1..(i - 1) : x[j] = y[j]
    PROVE  Below(x, y)
BY DEF Below

\* The numbers of the next state.
LEMMA AheadPartsNext ==
    /\ Ahead'[1] = StageOf[loop']
    /\ Ahead'[2] = LastPass - pass'
    /\ Ahead'[3] = TurnOf[loop']
    /\ Ahead'[4] = MaxStepRetries + 2 - attempt'
    /\ Ahead'[5] = Cardinality(retry_ids')
    /\ Ahead'[6] = IF current' = NoAgent THEN 0 ELSE 1
    /\ Ahead'[7] = Cardinality(Untaken')
BY DEF Ahead, StageOf, TurnOf, LastPass

\* The engine leaves a stage of the execution for a later one.
LEMMA StageFalls ==
    ASSUME StageOf[loop'] < StageOf[loop]
    PROVE  Below(Ahead', Ahead)
<1>1. Ahead'[1] < Ahead[1] /\ \A j \in 1..(1 - 1) : Ahead'[j] = Ahead[j]
    BY AheadParts, AheadPartsNext
<1> QED
    BY <1>1, BelowAt

\* It leaves a place in a pass of replanning for a later one.
LEMMA TurnFalls ==
    ASSUME StageOf[loop'] = StageOf[loop], UNCHANGED pass, TurnOf[loop'] < TurnOf[loop]
    PROVE  Below(Ahead', Ahead)
<1>1. Ahead'[1] = Ahead[1] /\ Ahead'[2] = Ahead[2] /\ Ahead'[3] < Ahead[3]
    BY AheadParts, AheadPartsNext
<1>2. \A j \in 1..(3 - 1) : Ahead'[j] = Ahead[j]
    <2>1. \A j \in 1..(3 - 1) : j = 1 \/ j = 2
        OBVIOUS
    <2> QED
        BY <1>1, <2>1
<1> QED
    BY <1>1, <1>2, BelowAt

\* One result more is taken, or one place of the engine left.
LEMMA EngineComesNearer ==
    ASSUME Inv, Engine \/ FailExecution
    PROVE  Below(Ahead', Ahead)
<1> USE DEF retries, agents, signals
<1>0. TypeOK /\ PassInv /\ PlaceInv
    BY DEF Inv
<1>1. CASE \/ StartAgents \/ StartApprovedSteps \/ EndStream \/ LeaveRetries
           \/ LeaveExecution \/ FailExecution \/ CloseClient
    <2>1. StageOf[loop'] < StageOf[loop]
        BY <1>0, <1>1 DEF StartAgents, StartApprovedSteps, EndStream, LeaveRetries,
           LeaveExecution, FailExecution, CloseClient, BetweenAttempts, TypeOK, StageOf
    <2> QED
        BY <2>1, StageFalls
<1>2. CASE ConsultCoordinator \/ CoordinatorAnswers \/ EndBatch
    <2>1. StageOf[loop'] = StageOf[loop] /\ TurnOf[loop'] < TurnOf[loop]
        BY <1>2 DEF ConsultCoordinator, CoordinatorAnswers, EndBatch, StageOf, TurnOf
    <2>2. UNCHANGED pass
        BY <1>2 DEF ConsultCoordinator, CoordinatorAnswers, EndBatch
    <2> QED
        BY <2>1, <2>2, TurnFalls
<1>3. CASE PlanGaps
    <2>1. Ahead'[1] = Ahead[1]
        BY <1>3, AheadParts, AheadPartsNext DEF PlanGaps, StageOf
    <2>2. LastPass - pass' < LastPass - pass
        BY <1>0, <1>3, LastPassIsLater DEF PlanGaps, TypeOK
    <2>3. Ahead'[2] < Ahead[2]
        BY <2>2, AheadParts, AheadPartsNext
    <2>4. \A j \in 1..(2 - 1) : Ahead'[j] = Ahead[j]
        BY <2>1
    <2> QED
        BY <2>3, <2>4, BelowAt
<1>4. CASE NextAttempt
    <2>1. UNCHANGED <<loop, pass>> /\ attempt' = attempt + 1
        BY <1>4 DEF NextAttempt
    <2>2. Ahead'[1] = Ahead[1] /\ Ahead'[2] = Ahead[2] /\ Ahead'[3] = Ahead[3]
        BY <2>1, AheadParts, AheadPartsNext
    <2>3. MaxStepRetries + 2 - attempt' < MaxStepRetries + 2 - attempt
        BY <1>0, <2>1, ExecutionAssumption DEF TypeOK
    <2>4. Ahead'[4] < Ahead[4]
        BY <2>3, AheadParts, AheadPartsNext
    <2>5. \A j \in 1..(4 - 1) : j = 1 \/ j = 2 \/ j = 3
        OBVIOUS
    <2>6. \A j \in 1..(4 - 1) : Ahead'[j] = Ahead[j]
        BY <2>2, <2>5
    <2> QED
        BY <2>4, <2>6, BelowAt
<1>5. ASSUME NEW a \in Agent, Retry(a)
      PROVE  Below(Ahead', Ahead)
    <2>1. /\ UNCHANGED <<loop, pass, attempt>>
          /\ a \in retry_ids /\ retry_ids' = retry_ids \ {a}
        BY <1>5 DEF Retry
    <2>2. /\ Ahead'[1] = Ahead[1] /\ Ahead'[2] = Ahead[2] /\ Ahead'[3] = Ahead[3]
          /\ Ahead'[4] = Ahead[4]
        BY <2>1, AheadParts, AheadPartsNext
    <2>3. Cardinality(retry_ids') < Cardinality(retry_ids)
        BY <1>0, <2>1, AgentsAreFinite, FS_RemoveElement DEF TypeOK
    <2>4. Ahead'[5] < Ahead[5]
        BY <2>3, AheadParts, AheadPartsNext
    <2>5. \A j \in 1..(5 - 1) : j = 1 \/ j = 2 \/ j = 3 \/ j = 4
        OBVIOUS
    <2>6. \A j \in 1..(5 - 1) : Ahead'[j] = Ahead[j]
        BY <2>2, <2>5
    <2> QED
        BY <2>4, <2>6, BelowAt
<1>6. ASSUME NEW a \in Agent, TakeRetry(a)
      PROVE  Below(Ahead', Ahead)
    <2>1. /\ UNCHANGED <<loop, pass, attempt, retry_ids>>
          /\ current # NoAgent /\ current' = NoAgent
        BY <1>6, ExecutionAssumption DEF TakeRetry
    <2>2. /\ Ahead'[1] = Ahead[1] /\ Ahead'[2] = Ahead[2] /\ Ahead'[3] = Ahead[3]
          /\ Ahead'[4] = Ahead[4] /\ Ahead'[5] = Ahead[5]
        BY <2>1, AheadParts, AheadPartsNext
    <2>3. Ahead'[6] < Ahead[6]
        BY <2>1, AheadParts, AheadPartsNext
    <2>4. \A j \in 1..(6 - 1) : j = 1 \/ j = 2 \/ j = 3 \/ j = 4 \/ j = 5
        OBVIOUS
    <2>5. \A j \in 1..(6 - 1) : Ahead'[j] = Ahead[j]
        BY <2>2, <2>4
    <2> QED
        BY <2>3, <2>5, BelowAt
<1>7. ASSUME NEW a \in Agent, TakeResult(a) \/ TakeBatchResult(a)
      PROVE  Below(Ahead', Ahead)
    <2>1. CASE loop' # loop
        <3>1. CASE TakeResult(a)
            <4>1. StageOf[loop'] < StageOf[loop]
                BY <2>1, <3>1 DEF TakeResult, StageOf
            <4> QED
                BY <4>1, StageFalls
        <3>2. CASE TakeBatchResult(a)
            <4>1. /\ StageOf[loop'] = StageOf[loop] /\ TurnOf[loop'] < TurnOf[loop]
                  /\ UNCHANGED pass
                BY <2>1, <3>2 DEF TakeBatchResult, StageOf, TurnOf
            <4> QED
                BY <4>1, TurnFalls
        <3> QED
            BY <1>7, <3>1, <3>2
    <2>2. CASE loop' = loop
        <3>1. /\ UNCHANGED <<loop, pass, attempt, retry_ids, current, pool>>
              /\ place[a] \in Returned /\ pool[a] = pass /\ place' = [place EXCEPT ![a] = "taken"]
            BY <1>0, <1>7, <2>2 DEF TakeResult, TakeBatchResult, Move, PlaceInv
        <3>2. a \in Untaken /\ Untaken' = Untaken \ {a}
            BY <1>0, <3>1 DEF Untaken, AtRest, TypeOK
        <3>3. Cardinality(Untaken') < Cardinality(Untaken)
            <4>1. Untaken \in SUBSET Agent
                BY DEF Untaken
            <4> QED
                BY <3>2, <4>1, AgentsAreFinite, FS_RemoveElement
        <3>4. /\ Ahead'[1] = Ahead[1] /\ Ahead'[2] = Ahead[2] /\ Ahead'[3] = Ahead[3]
              /\ Ahead'[4] = Ahead[4] /\ Ahead'[5] = Ahead[5] /\ Ahead'[6] = Ahead[6]
            BY <3>1, AheadParts, AheadPartsNext
        <3>5. Ahead'[7] < Ahead[7]
            BY <3>3, AheadParts, AheadPartsNext
        <3>6. \A j \in 1..(7 - 1) : j = 1 \/ j = 2 \/ j = 3 \/ j = 4 \/ j = 5 \/ j = 6
            OBVIOUS
        <3>7. \A j \in 1..(7 - 1) : Ahead'[j] = Ahead[j]
            BY <3>4, <3>6
        <3> QED
            BY <3>5, <3>7, BelowAt
    <2> QED
        BY <2>1, <2>2
<1> QED
    BY <1>1, <1>2, <1>3, <1>4, <1>5, <1>6, <1>7 DEF Engine

\* An agent makes one of its steps, and the engine has as much ahead of it as before.
LEMMA AgentComesNearer ==
    ASSUME Inv, NEW a \in Agent, RunAgent(a) \/ TimeOut(a)
    PROVE  /\ Ahead' = Ahead
           /\ AgentAhead(a)' < AgentAhead(a)
           /\ \A b \in Agent \ {a} : AgentAhead(b)' = AgentAhead(b)
<1> USE DEF Move, Decide, retries, agents, signals
<1>0. TypeOK
    BY DEF Inv
<1>1. /\ UNCHANGED <<loop, pass, attempt, retry_ids, current, pool>>
      /\ place[a] \in {"queued"} \cup Busy
      /\ \E p \in Busy \cup Returned : place' = [place EXCEPT ![a] = p]
    BY DEF RunAgent, Start, Consult, Answer, Act, TimeOut
<1>2. Untaken' = Untaken
    BY <1>0, <1>1 DEF Untaken, AtRest, TypeOK
<1>3. Ahead' = Ahead
    BY <1>1, <1>2 DEF Ahead, LastPass
<1>4. \A b \in Agent \ {a} : place'[b] = place[b] /\ revised'[b] = revised[b]
    BY <1>0 DEF RunAgent, Start, Consult, Answer, Act, TimeOut, TypeOK
<1>5. \A b \in Agent \ {a} : AgentAhead(b)' = AgentAhead(b)
    BY <1>4 DEF AgentAhead, BusyAhead
<1>6. AgentAhead(a)' < AgentAhead(a)
    BY <1>0 DEF RunAgent, Start, Consult, Answer, Act, TimeOut, TypeOK, AgentAhead, BusyAhead
<1> QED
    BY <1>3, <1>5, <1>6

\* The ranking argument behind ExecutionEnds and NobodyIsLeftBehind: retries, passes
\* of replanning and second looks all count down, so that an execution cannot go on
\* for ever unless signals do.
THEOREM ExecutionCountsDown == Spec => EverythingIsUsedUp /\ []AheadIsNatural
<1>1. Inv /\ [Next]_vars
        => [\/ Signal
            \/ Below(Ahead', Ahead)
            \/ /\ Ahead' = Ahead
               /\ \E a \in Agent :
                     /\ AgentAhead(a)' < AgentAhead(a)
                     /\ \A b \in Agent \ {a} : AgentAhead(b)' = AgentAhead(b)]_vars
    BY EngineComesNearer, AgentComesNearer DEF Next
<1>2. Inv => AheadIsNatural
    BY AheadTyped DEF Inv
<1> QED
    BY <1>1, <1>2, InvHolds, PTL DEF Spec, EverythingIsUsedUp
\* However passes are left and others begun, no more agents are at work than all
\* passes of replanning have slots.  An agent sends one request at a time, so this
\* is the number of callers that RequestBudget has for a client of the engine.
WorkersAreBounded == Cardinality(UnderWay) <= Concurrency * LastPass

\* The slots of all pools bound everybody who is at work.
THEOREM WorkersStayBounded == Spec => []WorkersAreBounded
<1>1. Inv => WorkersAreBounded
    BY WorkersFitTheSlots DEF WorkersAreBounded
<1> QED
    BY <1>1, InvHolds, PTL
=============================================================================
