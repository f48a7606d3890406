------------------------------- MODULE Insights ------------------------------
(***************************************************************************)
(* Automated insights (src/src/behavioral/auto_insights.py) over a metric  *)
(* that is observed period after period, behind the route /insights        *)
(* (src/src/services/analytics.py).                                        *)
(*                                                                         *)
(* The z-score (x - mean) / stdev of the code is compared with the         *)
(* threshold in whole numbers, squared and multiplied out.  Where the two  *)
(* are equal the code's floating-point division falls on either side:      *)
(* `above` holds the values for which it comes out at the threshold.       *)
(***************************************************************************)
EXTENDS Integers, Sequences, FiniteSets

(* Values: what a period may measure, Thresholds: what z_threshold may be.  *)
CONSTANTS Values, Thresholds, MaxPeriods

ASSUME InsightsAssumption ==
    Values \subseteq Int /\ Thresholds \subseteq Nat \ {0} /\ MaxPeriods \in Nat

VARIABLES series, found, threshold, answer
insightVars == <<series, found, threshold, answer>>

InsightInit == series = <<>> /\ found = {} /\ threshold = 2 /\ answer = "none"

SumUpTo(s) ==
    LET sum[n \in 0..Len(s)] == IF n = 0 THEN 0 ELSE sum[n - 1] + s[n]
    IN  sum
Sum(s) == SumUpTo(s)[Len(s)]
Squares(s) == [i \in DOMAIN s |-> s[i] * s[i]]

(* n times the deviation from the mean, and n * n times the variance.       *)
Deviation(x, s) == Len(s) * x - Sum(s)
Scatter(s) == Len(s) * Sum(Squares(s)) - Sum(s) * Sum(s)

Square(k) == k * k
Beyond(x, s, t) == Square(Deviation(x, s)) > t * t * Scatter(s)
Boundary(s, t)  == {s[i] : i \in {j \in DOMAIN s : Square(Deviation(s[j], s)) = t * t * Scatter(s)}}

Sign(k) == IF k > 0 THEN "up" ELSE IF k < 0 THEN "down" ELSE "flat"
Insight(i, s) == [index |-> i, direction |-> Sign(Deviation(s[i], s))]

(* detect_insights: nothing for a flat series.                              *)
Detected(s, t, above) ==
    IF Scatter(s) = 0 THEN {}
    ELSE {Insight(i, s) : i \in {j \in DOMAIN s : Beyond(s[j], s, t) \/ s[j] \in above}}

Observe(x) ==
    /\ Len(series) < MaxPeriods
    /\ series' = Append(series, x)
    /\ found' = {} /\ answer' = "none"
    /\ UNCHANGED threshold

(* The route: an empty series, or labels of another length, is a 422.       *)
Ask(t, labels, above) ==
    /\ answer = "none"
    /\ threshold' = t
    /\ IF series # <<>> /\ labels \in {0, Len(series)}
       THEN answer' = "200" /\ found' = Detected(series, t, above)
       ELSE answer' = "422" /\ found' = {}
    /\ UNCHANGED series

InsightNext ==
    \/ \E x \in Values : Observe(x)
    \/ \E t \in Thresholds, labels \in {0, 2} : \E above \in SUBSET Boundary(series, t) :
           Ask(t, labels, above)
InsightSpec == InsightInit /\ [][InsightNext]_insightVars
-----------------------------------------------------------------------------
(* compare_periods, with the default of one fifth.                          *)

(* A bug to compare with: the change is relative to the later period.       *)
ComparedWithAfter(before, after) ==
    [direction |-> Sign(after - before), notable |-> Square(after - before) * 25 >= Square(after)]

Compare(before, after) ==
    IF before = 0
    THEN [direction |-> IF after > 0 THEN "up" ELSE "flat", notable |-> after # 0]
    ELSE [direction |-> Sign((after - before) * before),
          notable |-> Square(after - before) * 25 >= Square(before)]
-----------------------------------------------------------------------------
(* What stands out is an extreme of the series: every value at least as far *)
(* out on the same side is reported with it, in the same direction, and no  *)
(* reported point is called flat.                                           *)
ExtremesAreReported ==
    \A f \in found :
        /\ f.direction # "flat"
        /\ \A j \in DOMAIN series :
               \/ f.direction = "up"   /\ series[j] < series[f.index]
               \/ f.direction = "down" /\ series[j] > series[f.index]
               \/ [index |-> j, direction |-> f.direction] \in found

(* At a threshold of t at most one point in t * t can stand out: a series   *)
(* of fewer than four points has no insight by default, whatever it does,   *)
(* and a busy one is not buried in them.                                    *)
FewStandOut == Cardinality(found) * (threshold * threshold) <= Len(series)

(* The last two periods, read in either order: the directions are opposite, *)
(* and a drop that is notable is notable growth when read backwards.        *)
ReadBackwards ==
    Len(series) >= 2 =>
        LET x == series[Len(series) - 1]  y == series[Len(series)]
            there == Compare(x, y)  back == Compare(y, x)
        IN  /\ <<there.direction, back.direction>> \in
                   {<<"up", "down">>, <<"down", "up">>, <<"flat", "flat">>}
            /\ there.direction = "down" /\ there.notable => back.notable
            /\ back.notable \/ there.notable => x # y

(* Whatever stands out is an extreme, few points do, and two periods read   *)
(* backwards give the opposite direction.                                   *)
InsightsStandOut == ExtremesAreReported /\ FewStandOut /\ ReadBackwards

(* What detect_insights says of its threshold: a point at the threshold is  *)
(* reported.                                                                *)
ThresholdIsReached ==
    answer = "200" /\ Scatter(series) # 0 =>
        \A i \in DOMAIN series :
            series[i] \in Boundary(series, threshold) => \E f \in found : f.index = i
=============================================================================
