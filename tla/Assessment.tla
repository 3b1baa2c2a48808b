----------------------------- MODULE Assessment -----------------------------
(***************************************************************************)
(* What an assessment promises its readers, without the operators, the      *)
(* plan or the process: the phases come in the order of the engine's        *)
(* documentation, one driver at a time moves the state, the driver lets go  *)
(* only in a terminal state, and without a driver the state changes only    *)
(* by withdrawal or by the recovery of an interrupted run.                  *)
(***************************************************************************)

VARIABLES
    state,   \* the assessment's state
    driver   \* the run that moves it: "none", "launched", "driving", "done"

vars == <<state, driver>>

TerminalStates == {"completed", "failed", "cancelled"}

\* The states a driver moves through, each with the one that follows it.
Successor ==
    [authorized   |-> "discovering",
     discovering  |-> "planning",
     planning     |-> "policy_check",
     policy_check |-> "executing",
     executing    |-> "validating",
     validating   |-> "scoring",
     scoring      |-> "reporting",
     reporting    |-> "completed"]

ActiveStates == DOMAIN Successor

\* A run is not cancelled any more once its findings are being validated.
Cancellable == {"authorized", "discovering", "planning", "policy_check",
                "executing"}

Init ==
    /\ state = "created"
    /\ driver = "none"

Launch ==
    /\ driver = "none"
    /\ state \notin ActiveStates
    /\ driver' = "launched"
    /\ UNCHANGED state

Authorize ==
    /\ driver = "launched"
    /\ driver' = "driving"
    /\ state' = "authorized"

\* A run that is launched may fail before it has moved the state.
Break ==
    /\ driver = "launched"
    /\ driver' = "done"
    /\ state' = "failed"

Advance ==
    /\ driver = "driving"
    /\ state \in ActiveStates \ {"reporting"}
    /\ state' = Successor[state]
    /\ UNCHANGED driver

Conclude ==
    /\ driver = "driving"
    /\ \/ state = "reporting" /\ state' = "completed"
       \/ state \in ActiveStates /\ state' = "failed"
       \/ state \in Cancellable /\ state' = "cancelled"
    /\ driver' = "done"

Release ==
    /\ driver = "done"
    /\ driver' = "none"
    /\ UNCHANGED state

\* An operator cancels what nothing drives.
Withdraw ==
    /\ driver = "none"
    /\ state \notin ActiveStates
    /\ state' = "cancelled"
    /\ UNCHANGED driver

Crash ==
    /\ driver' = "none"
    /\ UNCHANGED state

Recover ==
    /\ driver = "none"
    /\ state \in ActiveStates
    /\ state' = "created"
    /\ UNCHANGED driver

Next ==
    \/ Launch
    \/ Authorize
    \/ Break
    \/ Advance
    \/ Conclude
    \/ Release
    \/ Withdraw
    \/ Crash
    \/ Recover

Spec == Init /\ [][Next]_vars
=============================================================================
