------------------------------ MODULE MCGraphRun ------------------------------
(* Instances of GraphRun for TLC: one row that needs approval and one that    *)
(* does not, and up to two operator requests in flight together.              *)
EXTENDS GraphRun, TLC

CONSTANTS probe, invasive   \* the two rows
CONSTANTS r1, r2            \* the two requests

MCStep == {probe, invasive}
MCNeedsApproval == {invasive}
MCRequest == {r1, r2}
MCOneRequest == {r1}
==============================================================================
