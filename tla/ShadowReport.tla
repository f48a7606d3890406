---------------------------- MODULE ShadowReport ----------------------------
(***************************************************************************)
(* The acceptance gate (src/src/shadow/report.py): delivery records of the *)
(* two arms come in, and compare decides by the 95% confidence interval of *)
(* the difference of their conversion rates whether the new system may     *)
(* replace MoEngage.  Rates are fractions of small integers: the square    *)
(* roots and quotients are multiplied out, and the square of the critical  *)
(* value 1.959963985 is taken as 96/25, which decides every count within   *)
(* the bound alike.                                                        *)
(***************************************************************************)
EXTENDS Integers

(* MaxSent bounds an arm's sent records, Margins are tenths.  ViaRoute:    *)
(* the records come in over /shadow/report, not as DeliveryRecords.        *)
CONSTANTS MaxSent, Margins, ViaRoute

ASSUME ReportAssumption == Margins \subseteq Nat /\ MaxSent \in Nat

VARIABLES sent, conversions, margin,
          reported    (* history: the records that came in as sent         *)

reportVars == <<sent, conversions, margin, reported>>

ReportArms == {"control", "shadow"}
Other(arm) == IF arm = "control" THEN "shadow" ELSE "control"

ReportInit == /\ sent = [a \in ReportArms |-> 0] /\ conversions = [a \in ReportArms |-> 0]
              /\ margin \in Margins /\ reported = [a \in ReportArms |-> 0]

(* _records of the route makes every record it is given a sent one.        *)
IsSent(status) == ViaRoute \/ status = "sent"

Deliver(arm, status) ==
    reported' = [reported EXCEPT ![arm] = IF status = "sent" THEN @ + 1 ELSE @]

(* One record more for arm_metrics: only sent ones count, as sent and as   *)
(* converted.                                                              *)
Record(arm, status, converted) ==
    /\ IsSent(status) => sent[arm] < MaxSent
    /\ sent' = [sent EXCEPT ![arm] = IF IsSent(status) THEN @ + 1 ELSE @]
    /\ conversions' = [conversions EXCEPT ![arm] = IF IsSent(status) /\ converted THEN @ + 1 ELSE @]
    /\ Deliver(arm, status)
    /\ UNCHANGED margin

ReportNext == \E arm \in ReportArms, status \in {"sent", "failed"}, converted \in BOOLEAN :
                  Record(arm, status, converted)

ReportSpec == ReportInit /\ [][ReportNext]_reportVars
-----------------------------------------------------------------------------
(* compare, applied to either arm as the new system.                       *)
(* The variance of a rate, p (1 - p) / n, times n^3 ...                    *)
Spread(arm) == conversions[arm] * (sent[arm] - conversions[arm])

Cubed(n) == n * n * n

(* ... and of the difference of the rates, times the cubes of both.        *)
Variance(new) == Spread(new) * Cubed(sent[Other(new)]) + Spread(Other(new)) * Cubed(sent[new])

(* absolute_lift plus a margin, times 10 and both numbers of records.      *)
Lift(new, m) == 10 * (conversions[new] * sent[Other(new)] - conversions[Other(new)] * sent[new])
                  + m * sent["control"] * sent["shadow"]

(* Such a difference is more than, or at least, half the interval.         *)
MoreThanHalf(x, new) == x > 0 /\ 25 * x * x * sent["control"] * sent["shadow"] > 9600 * Variance(new)

AtLeastHalf(x, new) == x >= 0 /\ 25 * x * x * sent["control"] * sent["shadow"] >= 9600 * Variance(new)

Degenerate(new) == sent["control"] = 0 \/ sent["shadow"] = 0 \/ Variance(new) = 0

(* A bug to compare with: whatever does not pass is "worse".               *)
VerdictByLowerEnd(new, m) ==
    IF Degenerate(new) THEN "inconclusive"
    ELSE IF MoreThanHalf(Lift(new, 0), new) THEN "shadow_better"
    ELSE IF AtLeastHalf(Lift(new, m), new) THEN "not_worse"
    ELSE "worse"

Verdict(new, m) ==
    IF Degenerate(new) THEN "inconclusive"
    ELSE IF MoreThanHalf(Lift(new, 0), new) THEN "shadow_better"
    ELSE IF AtLeastHalf(Lift(new, m), new) THEN "not_worse"
    ELSE IF MoreThanHalf(-Lift(new, m), new) THEN "worse"
    ELSE "inconclusive"

Gate == Verdict("shadow", margin)
-----------------------------------------------------------------------------
(* An arm's denominator is the records that were sent: "conversion metrics  *)
(* over the sent records of one arm" (report.py).                           *)
OnlySentCounts == sent = reported

(* The comparison treats the arms alike: whenever shadow is better than     *)
(* control, control would be worse than shadow with no margin, and the      *)
(* other way round.                                                         *)
ArmsAreSymmetric ==
    \A a \in ReportArms : Verdict(a, 0) = "shadow_better" <=> Verdict(Other(a), 0) = "worse"

(* The gate only passes a shadow system whose measured rate is within the   *)
(* tolerance, and only calls worse one whose rate is outside it: however    *)
(* the interval falls, a verdict never contradicts the rates it reports.    *)
VerdictFollowsRates ==
    /\ Gate \in {"shadow_better", "not_worse"} => Lift("shadow", margin) >= 0
    /\ Gate = "worse" => Lift("shadow", margin) < 0

VerdictIsFair == OnlySentCounts /\ ArmsAreSymmetric /\ VerdictFollowsRates
=============================================================================
