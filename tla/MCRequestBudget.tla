--------------------------- MODULE MCRequestBudget ---------------------------
(* Values of the constants for the runs of RequestBudget.                     *)
EXTENDS RequestBudget, TLC

CONSTANTS run, late, a1, a2

MCClient == {run, late}
MCGraphClient == {run}
MCNoClient == {}
MCCaller == {a1, a2}
MCOneCaller == {a1}

Callers == Permutations(MCCaller)
=============================================================================
