----------------------------- MODULE MCExecution -----------------------------
(* Values of the constants for the run of Execution.                          *)
EXTENDS Execution, TLC

CONSTANTS a1, a2, a3

MCAgent == {a1, a2, a3}
=============================================================================
