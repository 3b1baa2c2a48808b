-------------------------- MODULE DurableAssessment --------------------------
(***************************************************************************)
(* What an assessment under the graph workflow promises, where Assessment   *)
(* has a run start over: a run that is parked, refused or interrupted goes  *)
(* on where it stopped.  The phases come in their order across parks,       *)
(* crashes and restarts of the process, none is skipped, and none comes     *)
(* again unless the run fails, is cancelled or is reset; the driver lets go *)
(* where somebody can take over; without a driver the state changes only by *)
(* withdrawal or by the recovery of an interrupted process.                 *)
(***************************************************************************)

VARIABLES
    state,        \* the assessment's state
    driver,       \* the run that moves it: "none", "driving", "done"
    interrupted   \* the process has stopped and has not yet recovered

vars == <<state, driver, interrupted>>

TerminalStates == {"completed", "failed", "cancelled"}

Successor ==
    [authorized   |-> "discovering",
     discovering  |-> "planning",
     planning     |-> "policy_check",
     policy_check |-> "executing",
     executing    |-> "validating",
     validating   |-> "scoring",
     scoring      |-> "reporting",
     reporting    |-> "completed"]

ActiveStates == DOMAIN Successor

\* Where a run waits without a driver: for a decision, or after a refusal.
Resting == {"policy_check", "authorized"}

Init ==
    /\ state = "created"
    /\ driver = "none"
    /\ interrupted = FALSE

Launch ==
    /\ driver = "none"
    /\ ~interrupted
    /\ state \in ActiveStates => state \in Resting
    /\ driver' = "driving"
    /\ UNCHANGED <<state, interrupted>>

\* A run that is over starts from the beginning, one that broke off in its thread.
Begin ==
    /\ driver = "driving"
    /\ \/ state \in {"created", "completed"} /\ state' = "authorized"
       \/ state \in {"failed", "cancelled"} /\ state' \in ActiveStates
    /\ UNCHANGED <<driver, interrupted>>

Advance ==
    /\ driver = "driving"
    /\ state \in ActiveStates
    /\ state' = Successor[state]
    /\ UNCHANGED <<driver, interrupted>>

\* A phase raises, or what holds the phases together does.
Fail ==
    /\ driver = "driving"
    /\ state' = "failed"
    /\ driver' \in {"driving", "done"}
    /\ UNCHANGED interrupted

Cancel ==
    /\ driver = "driving"
    /\ state' = "cancelled"
    /\ driver' = "done"
    /\ UNCHANGED interrupted

LetGo ==
    /\ driver = "driving"
    /\ state \in {"completed", "failed"} \cup Resting
    /\ driver' = "done"
    /\ UNCHANGED <<state, interrupted>>

Release ==
    /\ driver = "done"
    /\ driver' = "none"
    /\ UNCHANGED <<state, interrupted>>

\* An operator cancels what nothing drives.
Withdraw ==
    /\ driver = "none"
    /\ ~interrupted
    /\ state \in ActiveStates => state \in Resting
    /\ state' = "cancelled"
    /\ UNCHANGED <<driver, interrupted>>

Crash ==
    /\ driver' = "none"
    /\ interrupted' = TRUE
    /\ UNCHANGED state

\* The recovery continues an interrupted run, or has it begin again.
Continue ==
    /\ interrupted
    /\ driver = "none"
    /\ state \notin TerminalStates
    /\ driver' = "driving"
    /\ interrupted' = FALSE
    /\ UNCHANGED state

Reset ==
    /\ interrupted
    /\ driver = "none"
    /\ state \notin TerminalStates
    /\ state' = "created"
    /\ UNCHANGED <<driver, interrupted>>

\* Nothing is under way.
Ignore ==
    /\ interrupted
    /\ driver = "none"
    /\ state \notin ActiveStates
    /\ interrupted' = FALSE
    /\ UNCHANGED <<state, driver>>

Next ==
    \/ Launch
    \/ Begin
    \/ Advance
    \/ Fail
    \/ Cancel
    \/ LetGo
    \/ Release
    \/ Withdraw
    \/ Crash
    \/ Continue
    \/ Reset
    \/ Ignore

Spec == Init /\ [][Next]_vars
=============================================================================
