---------------------------- MODULE ScoringProofs ----------------------------
(* Theorems about the scores of single findings and the grade, for every      *)
(* combination of factors.                                                    *)
EXTENDS Scoring, TLAPS

\* The code bounds the exposure by 70 and 130 percent (services/scoring.py:72).
\* It never gets there, so Scoring leaves the bounds out.
THEOREM ExposureIsNeverClamped ==
    ASSUME NEW auth_required \in BOOLEAN, NEW exposure_env
    PROVE  Exposure(auth_required, exposure_env) \in 90..125
BY DEF Exposure

\* The factors are percentages.
LEMMA Factors ==
    /\ \A s \in DOMAIN SeverityBase : SeverityBase[s] \in 5..95
    /\ \A c \in DOMAIN ConfidenceFactor : ConfidenceFactor[c] \in 55..100
    /\ \A f \in DOMAIN StatusFactor : StatusFactor[f] \in 0..100
    /\ \A f \in OpenStatus : f \in DOMAIN StatusFactor /\ StatusFactor[f] \in 80..100
BY DEF SeverityBase, ConfidenceFactor, StatusFactor, OpenStatus

\* Products of natural numbers grow with their factors.
LEMMA ProductsGrow ==
    ASSUME NEW a \in Nat, NEW b \in Nat, NEW c \in Nat, NEW d \in Nat, a <= c, b <= d
    PROVE  a * b \in Nat /\ c * d \in Nat /\ a * b <= c * d
<1>1. a * b <= c * b
    OBVIOUS
<1>2. c * b <= c * d
    OBVIOUS
<1> QED
    BY <1>1, <1>2

\* So do those of four.
LEMMA ScoresGrow ==
    ASSUME NEW a \in Nat, NEW b \in Nat, NEW c \in Nat, NEW d \in Nat,
           NEW e \in Nat, NEW f \in Nat, NEW g \in Nat, NEW h \in Nat,
           a <= e, b <= f, c <= g, d <= h
    PROVE  a * b * c * d \in Nat /\ e * f * g * h \in Nat /\ a * b * c * d <= e * f * g * h
<1>1. a * b \in Nat /\ e * f \in Nat /\ a * b <= e * f
    BY ProductsGrow
<1>2. a * b * c \in Nat /\ e * f * g \in Nat /\ a * b * c <= e * f * g
    BY <1>1, ProductsGrow
<1> QED
    BY <1>2, ProductsGrow

\* The scores that a finding may have, and the score that a product of factors stands for.
MaxScore == 10000

Scores == 0..MaxScore

Points(product) == AtMost(MaxScore, Rounded(product, 10000))

\* An upper bound keeps the order of what it bounds.
LEMMA BoundsKeepOrder ==
    ASSUME NEW bound \in Nat, NEW a \in Nat, NEW b \in Nat, a <= b
    PROVE  /\ AtMost(bound, a) \in 0..bound
           /\ AtMost(bound, a) <= AtMost(bound, b)
<1>1. CASE b <= bound
    BY <1>1 DEF AtMost
<1>2. CASE a <= bound /\ bound < b
    BY <1>2 DEF AtMost
<1>3. CASE bound < a
    BY <1>3 DEF AtMost
<1> QED
    BY <1>1, <1>2, <1>3

\* Rounding and the upper bound keep the order of the products.
LEMMA PointsGrow ==
    ASSUME NEW x \in Nat, NEW y \in Nat, x <= y
    PROVE  Points(x) \in Scores /\ Points(x) <= Points(y)
<1> DEFINE a == Rounded(x, 10000)
           b == Rounded(y, 10000)
<1>1. a \in Nat /\ b \in Nat
    BY DEF Rounded
<1>2. a <= b
    <2>1. 10000 * a <= x + 5000
        BY DEF Rounded
    <2>2. y + 5000 < 10000 * b + 10000
        BY DEF Rounded
    <2> HIDE DEF a, b
    <2> QED
        BY <1>1, <2>1, <2>2
<1>3. Points(x) = AtMost(MaxScore, a) /\ Points(y) = AtMost(MaxScore, b)
    BY DEF Points
<1> HIDE DEF a, b
<1>4. MaxScore \in Nat
    BY DEF MaxScore
<1>5. AtMost(MaxScore, a) \in 0..MaxScore /\ AtMost(MaxScore, a) <= AtMost(MaxScore, b)
    BY Zenon, <1>1, <1>2, <1>4, BoundsKeepOrder
<1> QED
    BY Zenon, <1>3, <1>5 DEF Scores

\* A score is the one its product of factors stands for.
LEMMA ScoreOfProduct ==
    ASSUME NEW s, NEW c, NEW f, NEW auth, NEW env
    PROVE  score_finding(s, c, f, auth, env)
             = Points(SeverityBase[s] * ConfidenceFactor[c] * StatusFactor[f] * Exposure(auth, env))
BY DEF score_finding, Points, MaxScore

\* A finding that is not less severe, certain, confirmed and exposed than another
\* does not score less, wherever rounding and the upper bound cut in.
THEOREM ScoreFollowsTheFactors ==
    ASSUME NEW s \in DOMAIN SeverityBase, NEW s2 \in DOMAIN SeverityBase,
           NEW c \in DOMAIN ConfidenceFactor, NEW c2 \in DOMAIN ConfidenceFactor,
           NEW f \in DOMAIN StatusFactor, NEW f2 \in DOMAIN StatusFactor,
           NEW auth \in BOOLEAN, NEW auth2 \in BOOLEAN, NEW env, NEW env2,
           SeverityBase[s] <= SeverityBase[s2],
           ConfidenceFactor[c] <= ConfidenceFactor[c2],
           StatusFactor[f] <= StatusFactor[f2],
           Exposure(auth, env) <= Exposure(auth2, env2)
    PROVE  /\ score_finding(s, c, f, auth, env) \in Scores
           /\ score_finding(s, c, f, auth, env) <= score_finding(s2, c2, f2, auth2, env2)
<1> DEFINE x == SeverityBase[s] * ConfidenceFactor[c] * StatusFactor[f] * Exposure(auth, env)
           y == SeverityBase[s2] * ConfidenceFactor[c2] * StatusFactor[f2] * Exposure(auth2, env2)
<1>1. x \in Nat /\ y \in Nat /\ x <= y
    <2>1. Exposure(auth, env) \in Nat /\ Exposure(auth2, env2) \in Nat
        BY ExposureIsNeverClamped
    <2>2. /\ SeverityBase[s] \in Nat /\ SeverityBase[s2] \in Nat
          /\ ConfidenceFactor[c] \in Nat /\ ConfidenceFactor[c2] \in Nat
          /\ StatusFactor[f] \in Nat /\ StatusFactor[f2] \in Nat
        BY Factors
    <2> QED
        BY <2>1, <2>2, ScoresGrow
<1> HIDE DEF x, y
<1>2. Points(x) \in Scores /\ Points(x) <= Points(y)
    BY <1>1, PointsGrow
<1>3. score_finding(s, c, f, auth, env) = Points(x)
    BY Zenon, ScoreOfProduct DEF x
<1>4. score_finding(s2, c2, f2, auth2, env2) = Points(y)
    BY Zenon, ScoreOfProduct DEF y
<1> QED
    BY Zenon, <1>2, <1>3, <1>4

\* An open finding never rounds down to nothing, so that the sum of the open scores
\* shows that there is one; a rejected or fixed finding never counts.
THEOREM OnlyOpenFindingsScore ==
    ASSUME NEW s \in DOMAIN SeverityBase, NEW c \in DOMAIN ConfidenceFactor,
           NEW f \in DOMAIN StatusFactor, NEW auth \in BOOLEAN, NEW env
    PROVE  /\ f \in OpenStatus => score_finding(s, c, f, auth, env) >= 198
           /\ f \in {"rejected", "fixed"} => score_finding(s, c, f, auth, env) = 0
<1> DEFINE x == SeverityBase[s] * ConfidenceFactor[c] * StatusFactor[f] * Exposure(auth, env)
<1>0. /\ Exposure(auth, env) \in Nat /\ 90 <= Exposure(auth, env)
      /\ SeverityBase[s] \in Nat /\ 5 <= SeverityBase[s]
      /\ ConfidenceFactor[c] \in Nat /\ 55 <= ConfidenceFactor[c]
      /\ StatusFactor[f] \in Nat
    BY ExposureIsNeverClamped, Factors
<1>1. ASSUME f \in OpenStatus PROVE score_finding(s, c, f, auth, env) >= 198
    <2>1. 80 <= StatusFactor[f]
        BY <1>1, Factors
    <2>2. x \in Nat /\ 5 * 55 * 80 * 90 <= x
        BY <1>0, <2>1, ScoresGrow
    <2> HIDE DEF x
    <2>3. Points(x) >= 198
        BY <2>2 DEF Points, MaxScore, AtMost, Rounded
    <2>4. score_finding(s, c, f, auth, env) = Points(x)
        BY Zenon, ScoreOfProduct DEF x
    <2> QED
        BY <2>3, <2>4
<1>2. ASSUME f \in {"rejected", "fixed"} PROVE score_finding(s, c, f, auth, env) = 0
    <2>1. StatusFactor[f] = 0
        BY <1>2 DEF StatusFactor
    <2>2. SeverityBase[s] * ConfidenceFactor[c] \in Nat
        BY <1>0, ProductsGrow
    <2>3. x = 0
        BY <1>0, <2>1, <2>2
    <2> HIDE DEF x
    <2>4. Points(x) = 0
        BY <2>3 DEF Points, MaxScore, AtMost, Rounded
    <2>5. score_finding(s, c, f, auth, env) = Points(x)
        BY Zenon, ScoreOfProduct DEF x
    <2> QED
        BY <2>4, <2>5
<1> QED
    BY <1>1, <1>2
=============================================================================
