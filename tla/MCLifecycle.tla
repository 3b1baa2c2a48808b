----------------------------- MODULE MCLifecycle -----------------------------
(* Instances of Lifecycle for TLC: one step that needs approval and one that  *)
(* does not, and two operator requests in flight together.                    *)
EXTENDS Lifecycle, TLC

CONSTANTS probe, invasive   \* the two plan steps
CONSTANTS r1, r2            \* the two requests

MCStep == {probe, invasive}
MCNeedsApproval == {invasive}
MCRequest == {r1, r2}
MCOneRequest == {r1}
MCOneStep == {invasive}

Requests == Permutations(MCRequest)
==============================================================================
