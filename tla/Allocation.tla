----------------------------- MODULE Allocation -----------------------------
(***************************************************************************)
(* The deterministic control hold-out and A/B/n split                      *)
(* (src/src/orchestration/allocator.py), on a line of Scale points instead *)
(* of the floats from 0 to 1: a user's stable_fraction is a point of the   *)
(* line, control_pct a number of points.  Bucket 0 is the control group,   *)
(* bucket i the i-th variant.                                              *)
(***************************************************************************)
EXTENDS Integers, Sequences, FiniteSets

CONSTANT Scale

ASSUME AllocationAssumption == Scale \in Nat \ {0}

Control == 0

(* stable_fraction: Scale itself stands for 1.0, which its rounding reaches. *)
Fraction == 0..Scale

(* control_pct, below 1                                                    *)
Share == 0..(Scale - 1)

(* _variant_cumulative, before the division by the total.                  *)
CumWeight(weights) ==
    LET cum[n \in 0..Len(weights)] == IF n = 0 THEN 0 ELSE cum[n - 1] + weights[n]
    IN  cum

TotalWeight(weights) == CumWeight(weights)[Len(weights)]

(* A bug to compare with: the control offset left in the rescaled fraction. *)
BelowUnshifted(frac, control, weights, i) ==
    frac * TotalWeight(weights) < CumWeight(weights)[i] * (Scale - control)

(* rel < upper, with rel = (frac - control) / (Scale - control) and        *)
(* upper = cum / total, without the divisions.                             *)
Below(frac, control, weights, i) ==
    (frac - control) * TotalWeight(weights) < CumWeight(weights)[i] * (Scale - control)

(* The variants but the last whose upper bound lies above the user's point; *)
(* the last variant's bound is 1.0 whatever the weights add up to.         *)
Candidates(frac, control, weights) ==
    {i \in 1..(Len(weights) - 1) : Below(frac, control, weights, i)}

Least(S) == CHOOSE i \in S : \A j \in S : i <= j

(* A bug to compare with: buckets numbered from the position after the last. *)
AssignOffByOne(frac, control, weights) ==
    IF frac < control THEN Control
    ELSE IF Candidates(frac, control, weights) = {} THEN Len(weights) + 1
    ELSE Least(Candidates(frac, control, weights))

(* allocator.assign                                                        *)
Assign(frac, control, weights) ==
    IF frac < control THEN Control
    ELSE IF Candidates(frac, control, weights) = {} THEN Len(weights)
    ELSE Least(Candidates(frac, control, weights))
=============================================================================
