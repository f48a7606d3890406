------------------------------ MODULE Reports ------------------------------
(***************************************************************************)
(* The reports and the scores of M9 (src/src/behavioral/reports.py and     *)
(* metrics.py) over one log of events, asked for as time goes by: the log  *)
(* may hold events later than now, and events may arrive late.             *)
(***************************************************************************)
EXTENDS Integers, Sequences, FiniteSets, FiniteSetsExt

(* Events: [customer_id, ts, amount], a ts is a time unit, PerDay of them  *)
(* a day.  WindowDays: the window every report is asked for.  Instants,    *)
(* the times at which one is asked for, and MaxEvents bound the instance.  *)
CONSTANTS Events, PerDay, WindowDays, Instants, MaxEvents

VARIABLES events, now

behaviourVars == <<events, now>>

ASSUME ReportsAssumption ==
    /\ PerDay \in Nat \ {0} /\ WindowDays \in Nat \ {0} /\ 0 \in Instants /\ Instants \subseteq Nat
    /\ \A ev \in Events : ev.ts \in Nat

Window == WindowDays * PerDay
KnownUsers == {ev.customer_id : ev \in events}
Of(u) == {ev \in events : ev.customer_id = u}
ActiveIn(u, from, to) == \E ev \in Of(u) : from <= ev.ts /\ ev.ts <= to
-----------------------------------------------------------------------------
(* active_users, new_vs_returning and retention_lite, each with windows of *)
(* WindowDays.                                                             *)
ActiveUsers == {u \in KnownUsers : ActiveIn(u, now - Window, now)}

HadPrior(u) == \E ev \in Of(u) : ev.ts < now - Window

ReturningUsers == {u \in ActiveUsers : HadPrior(u)}
NewUsers == {u \in ActiveUsers : ~HadPrior(u)}

RetentionCohort(days) ==
    {u \in KnownUsers : ActiveIn(u, now - (days + WindowDays) * PerDay, now - Window - 1)}

Returned == {u \in KnownUsers : ActiveIn(u, now - Window, now)}
Retained(days) == RetentionCohort(days) \cap Returned
-----------------------------------------------------------------------------
(* churn_risk: recency over the threshold, clamped to 0..1, as a label.    *)
LastTs(u) == Max({ev.ts : ev \in Of(u)})
Recency(u) == now - LastTs(u)

ChurnLabel(u) ==
    IF 2 * Recency(u) < Window THEN "low" ELSE IF Recency(u) < Window THEN "medium" ELSE "high"

(* a / b as round() gives it: to the nearest, a tie to the even neighbour. *)
Rounded(a, b) ==
    LET q == a \div b
        r == a % b
    IN  IF 2 * r > b \/ (2 * r = b /\ q % 2 = 1) THEN q + 1 ELSE q

(* engagement_score of the users active in the window, in hundredths of a  *)
(* point, for the code rounds to two decimals.                             *)
InWindow(u) == {ev \in Of(u) : ev.ts \in (now - Window)..now}
Frequency(u) == Cardinality(InWindow(u))
Busiest == Max({Frequency(u) : u \in ActiveUsers})
WindowRecency(u) == now - Max({ev.ts : ev \in InWindow(u)})

FullEngagement == 10000

(* A bug to compare with: the recency counts against, not for, a user.     *)
EngagementReversed(u) ==
    Rounded(FullEngagement * (WindowRecency(u) * Busiest + Frequency(u) * Window),
            2 * Window * Busiest)

Engagement(u) ==
    Rounded(FullEngagement * ((Window - WindowRecency(u)) * Busiest + Frequency(u) * Window),
            2 * Window * Busiest)
-----------------------------------------------------------------------------
(* rfm_scores.  _quintile_rank from a value's percentile position among n; *)
(* the percentile is truncated to a whole number first.                    *)
CeilDiv(a, b) == (a + b - 1) \div b

Quintile(below, n) == Min({5, Max({1, CeilDiv((below * 100) \div n, 20)})})

Money(u) == MapThenSumSet(LAMBDA ev : ev.amount, Of(u))

(* How many users have a value of at most u's.                             *)
Below(Value(_), u) == Cardinality({v \in KnownUsers : Value(v) <= Value(u)})

RScore(u) == 6 - Quintile(Below(Recency, u), Cardinality(KnownUsers))

Count(u) == Cardinality(Of(u))
FScore(u) == Quintile(Below(Count, u), Cardinality(KnownUsers))
MScore(u) == Quintile(Below(Money, u), Cardinality(KnownUsers))
-----------------------------------------------------------------------------
BehaviourInit == events = {} /\ now = 0

Arrive(ev) ==
    /\ Cardinality(events) < MaxEvents
    /\ ev \notin events
    /\ events' = events \cup {ev}
    /\ UNCHANGED now

TimePasses == \E t \in Instants : now < t /\ now' = t /\ UNCHANGED events

BehaviourNext == TimePasses \/ \E ev \in Events : Arrive(ev)

BehaviourSpec == BehaviourInit /\ [][BehaviourNext]_behaviourVars
-----------------------------------------------------------------------------
(* A customer that was reported as returning is never reported as new       *)
(* later, whatever time goes by and whatever arrives late.                  *)
ReturningStaysReturning == [][ReturningUsers \cap NewUsers' = {}]_behaviourVars

(* The retention report and the new-or-returning report draw the line       *)
(* between their windows at the same instant: who is retained is returning, *)
(* and every returning user is retained if the cohort reaches back enough.  *)
ReportsDrawOneLine ==
    /\ Retained(WindowDays) \subseteq ReturningUsers
    /\ Retained(now) = ReturningUsers

(* Silence only raises the risk of a customer, an event never does.         *)
Rank(label) == CASE label = "low" -> 0 [] label = "medium" -> 1 [] label = "high" -> 2

SilenceRaisesRisk ==
    [][\A u \in KnownUsers : IF now' > now THEN Rank(ChurnLabel(u)') >= Rank(ChurnLabel(u))
                        ELSE Rank(ChurnLabel(u)') <= Rank(ChurnLabel(u))]_behaviourVars

(* Who is at high risk is not active, but for a last event at the very      *)
(* start of the window; who is inactive and not in the future is at high.   *)
RiskMatchesActivity ==
    \A u \in KnownUsers :
        /\ ChurnLabel(u) = "high" /\ u \in ActiveUsers => LastTs(u) = now - Window
        /\ u \notin ActiveUsers /\ LastTs(u) <= now => ChurnLabel(u) = "high"

(* A customer at least as recent and as frequent in the window as another   *)
(* scores no less.  The score is full for the busiest user active right     *)
(* now; rounding makes it full for others too, but for none whose last      *)
(* event, or whose count, is off by more than a ten-thousandth.             *)
EngagementFollowsUse ==
    \A u, v \in ActiveUsers :
        /\ Engagement(u) \in 0..FullEngagement
        /\ WindowRecency(u) <= WindowRecency(v) /\ Frequency(u) >= Frequency(v)
              => Engagement(u) >= Engagement(v)
        /\ WindowRecency(u) = 0 /\ Frequency(u) = Busiest => Engagement(u) = FullEngagement
        /\ Engagement(u) = FullEngagement =>
              /\ FullEngagement * WindowRecency(u) <= Window
              /\ FullEngagement * (Busiest - Frequency(u)) <= Busiest

(* The scores follow their measure, equal measures score equally, and the   *)
(* most frequent and the best paying customer always score 5.               *)
ScoresFollowMeasures ==
    \A u, v \in KnownUsers :
        /\ Recency(u) <= Recency(v) => RScore(u) >= RScore(v)
        /\ Count(u) >= Count(v) => FScore(u) >= FScore(v)
        /\ (\A w \in KnownUsers : Count(w) <= Count(u)) => FScore(u) = 5
        /\ (\A w \in KnownUsers : Money(w) <= Money(u)) => MScore(u) = 5

(* The reports over one log draw their lines at the same instants, and the *)
(* scores follow what they measure.                                        *)
ReportsAreCoherent ==
    /\ ReportsDrawOneLine /\ RiskMatchesActivity
    /\ EngagementFollowsUse /\ ScoresFollowMeasures

(* Window 1 is [now - (w1 + w2), now - w2] and window 2 (now - w2, now]     *)
(* (reports.py): whose last event is at now - w2 did not return.            *)
RetentionWindowsAsDocumented ==
    \A u \in Retained(WindowDays) : ActiveIn(u, now - Window + 1, now)

(* "quintile 1..5 (5 = most recent)" (metrics.py).                          *)
MostRecentScoresFive ==
    \A u \in KnownUsers : (\A v \in KnownUsers : Recency(u) <= Recency(v)) => RScore(u) = 5
=============================================================================
