------------------------------- MODULE Scoring -------------------------------
(***************************************************************************)
(* The risk scores of services/scoring.py, and the share of the surface     *)
(* that the engine counts as tested.                                        *)
(*                                                                          *)
(* Scores are in hundredths of a point, as the code rounds them to two      *)
(* digits; the factors are in percent.                                      *)
(***************************************************************************)
EXTENDS Naturals, Sequences, SequencesExt, FiniteSetsExt

SeverityBase == [info |-> 5, low |-> 25, medium |-> 50, high |-> 75, critical |-> 95]

ConfidenceFactor == [low |-> 55, medium |-> 75, high |-> 90, certain |-> 100]

StatusFactor ==
    [confirmed |-> 100, suspected |-> 80, inconclusive |-> 50, rejected |-> 0,
     fixed |-> 0, regressed |-> 100]

\* The bounds 70 and 130 of the code are never met.
Exposure(auth_required, exposure_env) ==
    100 + (IF auth_required THEN 0 ELSE 15) + (IF exposure_env = "production" THEN 10 ELSE 0)
        - (IF exposure_env \in {"lab", "development"} THEN 10 ELSE 0)

AtMost(bound, x) == IF x > bound THEN bound ELSE x

Rounded(x, unit) == (x + unit \div 2) \div unit

score_finding(severity, confidence, status, auth_required, exposure_env) ==
    AtMost(10000,
           Rounded(SeverityBase[severity] * ConfidenceFactor[confidence]
                     * StatusFactor[status] * Exposure(auth_required, exposure_env),
                   10000))

\* The statuses whose scores make up the overall score.
OpenStatus == {"confirmed", "suspected", "regressed"}

\* The mean of the five highest of a sequence of scores.
OverallScore(scores) ==
    LET top == SubSeq(SortSeq(scores, >), 1, AtMost(5, Len(scores)))
    IN  IF scores = <<>> THEN 0
        ELSE Rounded(FoldSeq(LAMBDA x, total : x + total, 0, top), Len(top))

\* `statuses` are those of all findings, `scores` those of the open ones.
score_assessment(scores, statuses, tested_endpoints, total_endpoints) ==
    LET overall == OverallScore(scores)
    IN  IF total_endpoints = 0 THEN "unknown"
        ELSE IF 2 * tested_endpoints < total_endpoints THEN "insufficient-coverage"
        ELSE IF overall >= 7500 THEN "critical"
        ELSE IF overall >= 5000 THEN "at-risk"
        ELSE IF overall >= 2500 THEN "needs-attention"
        ELSE IF statuses \cap {"confirmed", "suspected"} = {} THEN "no-confirmed-issues"
        ELSE "low-risk"
=============================================================================
