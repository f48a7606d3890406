------------------------------ MODULE Journeys ------------------------------
(***************************************************************************)
(* The analytics of M4 (src/src/analytics) over a log of events and a log  *)
(* of touches that grow, events arriving in any order of their times: the  *)
(* ordered funnel, the attribution of conversions to campaigns and, of M9, *)
(* the performance of campaigns.                                           *)
(*                                                                         *)
(* The code sorts the records of a user by time and takes the first, or    *)
(* the last, that will do.  Here that is the least time, or the extreme    *)
(* position by time and, a sort being stable, by order of arrival.         *)
(***************************************************************************)
EXTENDS Integers, Sequences, FiniteSets, FiniteSetsExt

(* Footprints: events [customer_id, event_name, ts].  Touches: delivery    *)
(* records [customer_id, campaign_id, ts, status, clicked, converted].     *)
(* Funnels: the sequences of steps asked for, Windows: within_days.        *)
(* Conversion: the event conversions are, Hours: the attribution window.   *)
CONSTANTS Footprints, Touches, Funnels, Windows, Conversion, Hours, MaxRecords

NoTime == -1

ASSUME JourneysAssumption ==
    /\ \A ev \in Footprints : ev.ts \in Nat
    /\ \A rec \in Touches : rec.ts \in Nat
    /\ \A steps \in Funnels : steps \in Seq(STRING) /\ steps # <<>>
    /\ Windows \subseteq Nat \cup {NoTime} /\ Hours \in Nat /\ MaxRecords \in Nat

VARIABLES journey, touches
journeyVars == <<journey, touches>>

Models == {"last_touch", "first_touch"}
-----------------------------------------------------------------------------
(* _events_by_user: where a user's events of one name are in the log.      *)
Occurrences(log, customer, name) ==
    {i \in DOMAIN log : log[i].customer_id = customer /\ log[i].event_name = name}
TimesOf(log, customer, name) == {log[i].ts : i \in Occurrences(log, customer, name)}
CustomersOf(log) == {log[i].customer_id : i \in DOMAIN log}

Earliest(times) == CHOOSE t \in times : \A u \in times : t <= u

(* The deadline of a user: the window from its first first step.           *)
Deadline(log, customer, steps, within) ==
    LET entries == TimesOf(log, customer, steps[1])
    IN  IF within = NoTime \/ entries = {} THEN NoTime ELSE Earliest(entries) + within

(* The inner loop of _deepest_step: the earliest occurrence of the step    *)
(* that is not before the one matched last, nor after the deadline.        *)
Match(times, prev, deadline) ==
    LET valid == {t \in times : t >= prev /\ (deadline = NoTime \/ t <= deadline)}
    IN  IF valid = {} THEN NoTime ELSE Earliest(valid)

(* _deepest_step: the steps matched one after the other, up to the first   *)
(* that cannot be.                                                         *)
MatchedSteps(log, customer, steps, deadline) ==
    LET matched[k \in 0..Len(steps)] ==
          IF k = 0 THEN 0
          ELSE IF matched[k - 1] = NoTime THEN NoTime
          ELSE Match(TimesOf(log, customer, steps[k]), matched[k - 1], deadline)
    IN  matched

Reached(log, customer, steps, within) ==
    LET matched == MatchedSteps(log, customer, steps, Deadline(log, customer, steps, within))
    IN  Cardinality({k \in 1..Len(steps) : matched[k] # NoTime})

(* compute_funnel: the users who reached each step.                        *)
ReachedBy(log, steps, within, k) ==
    {c \in CustomersOf(log) : Reached(log, c, steps, within) >= k}
StepCounts(log, steps, within) ==
    [k \in 1..Len(steps) |-> Cardinality(ReachedBy(log, steps, within, k))]
-----------------------------------------------------------------------------
(* Attribution, by the positions of touches and conversions in the logs.   *)
Sent(log) == {i \in DOMAIN log : log[i].status = "sent"}
Conversions(trail) == {i \in DOMAIN trail : trail[i].event_name = Conversion}

(* A bug to compare with: the touch may come after the conversion.         *)
EligibleAround(log, ev) ==
    {i \in Sent(log) : log[i].customer_id = ev.customer_id /\ ev.ts - log[i].ts <= Hours}

(* The touches a conversion may be credited to.                            *)
Eligible(log, ev) ==
    {i \in Sent(log) : /\ log[i].customer_id = ev.customer_id
                       /\ log[i].ts <= ev.ts /\ ev.ts - log[i].ts <= Hours}

Sorted(log, i, j) == \/ log[i].ts < log[j].ts
                     \/ log[i].ts = log[j].ts /\ i <= j

Chosen(log, eligible, model) ==
    CHOOSE i \in eligible : \A j \in eligible :
        IF model = "first_touch" THEN Sorted(log, i, j) ELSE Sorted(log, j, i)

(* attribute: the conversions of each campaign, and those without credit.  *)
Campaigns(log) == {log[i].campaign_id : i \in Sent(log)}

Credits(trail, log, campaign, model) ==
    {i \in Conversions(trail) :
        LET eligible == Eligible(log, trail[i])
        IN  eligible # {} /\ log[Chosen(log, eligible, model)].campaign_id = campaign}
Credited(trail, log, campaign, model) == Cardinality(Credits(trail, log, campaign, model))

TotalCredited(trail, log, model) ==
    MapThenSumSet(LAMBDA c : Credited(trail, log, c, model), Campaigns(log))
Unattributed(trail, log) == {i \in Conversions(trail) : Eligible(log, trail[i]) = {}}

Impressions(log, campaign) == {i \in Sent(log) : log[i].campaign_id = campaign}
SentUsers(log, campaign) == {log[i].customer_id : i \in Impressions(log, campaign)}

(* campaign_performance of M9: records, not users; only sent ones.         *)
Stats(log, campaign) ==
    LET mine == Impressions(log, campaign)
    IN  [sent |-> Cardinality(mine), clicks |-> Cardinality({i \in mine : log[i].clicked}),
         conversions |-> Cardinality({i \in mine : log[i].converted})]
-----------------------------------------------------------------------------
JourneyInit == journey = <<>> /\ touches = <<>>

Room == Len(journey) + Len(touches) < MaxRecords

Happen(ev) == Room /\ journey' = Append(journey, ev) /\ UNCHANGED touches
Touch(rec) == Room /\ touches' = Append(touches, rec) /\ UNCHANGED journey

JourneyNext == \/ \E ev \in Footprints : Happen(ev)
               \/ \E rec \in Touches : Touch(rec)

JourneySpec == JourneyInit /\ [][JourneyNext]_journeyVars
-----------------------------------------------------------------------------
(* A way through the first k steps: events of the user in order of time,   *)
(* none later than the window from any of its entries.  (One event may     *)
(* stand for two equal steps.)                                             *)
Walks(log, customer, steps, within, k) ==
    \E w \in [1..k -> DOMAIN log] : \A i \in 1..k :
        /\ w[i] \in Occurrences(log, customer, steps[i])
        /\ i > 1 => log[w[i - 1]].ts <= log[w[i]].ts
        /\ within # NoTime =>
              \A e \in Occurrences(log, customer, steps[1]) : log[w[i]].ts <= log[e].ts + within

(* Matching every step at its earliest reaches as far as any way to walk   *)
(* the steps through a user's events.                                      *)
GreedyIsDeepest ==
    \A c \in CustomersOf(journey), steps \in Funnels, within \in Windows :
        {k \in 1..Len(steps) : Walks(journey, c, steps, within, k)}
            = 1..Reached(journey, c, steps, within)

(* An event, however late it arrives, never takes a user back in a funnel  *)
(* that has no window.                                                     *)
FunnelOnlyGrows ==
    [][\A steps \in Funnels : \A k \in 1..Len(steps) :
          StepCounts(journey, steps, NoTime)[k] <= StepCounts(journey', steps, NoTime)[k]]_journeyVars

(* Every conversion is credited to exactly one campaign or counted as      *)
(* unattributed, by either model; only a campaign that reached the         *)
(* customer no more than the window before it gets the credit.             *)
Lasting(campaign, ev) ==
    \E i \in DOMAIN touches :
        /\ touches[i].campaign_id = campaign /\ touches[i].status = "sent"
        /\ touches[i].customer_id = ev.customer_id
        /\ touches[i].ts \in (ev.ts - Hours)..ev.ts

EveryConversionCounts ==
    \A m \in Models :
        /\ TotalCredited(journey, touches, m) + Cardinality(Unattributed(journey, touches))
              = Cardinality(Conversions(journey))
        /\ \A c \in Campaigns(touches) : Credited(journey, touches, c, m) <=
              Cardinality({i \in Conversions(journey) : Lasting(c, journey[i])})

(* An older touch than any of the customer's takes no credit away by last  *)
(* touch, and a younger one none by first touch.                           *)
ModelsAreMirrored ==
    [][\A c \in Campaigns(touches), r \in Touches :
          touches' = Append(touches, r) =>
             LET own == {i \in Sent(touches) : touches[i].customer_id = r.customer_id}
                 Kept(m) == Credited(journey, touches, c, m) <= Credited(journey', touches', c, m)
             IN  /\ (\A i \in own : r.ts < touches[i].ts) => Kept("last_touch")
                 /\ (\A i \in own : r.ts > touches[i].ts) => Kept("first_touch")]_journeyVars

(* The two reports of one log agree: a campaign's impressions are at least *)
(* its users, and as many when nobody was touched twice by it.             *)
ReportsAgree ==
    \A c \in Campaigns(touches) :
        LET sent == Stats(touches, c).sent
            users == Cardinality(SentUsers(touches, c))
        IN  /\ sent >= users
            /\ sent = users <=>
                  \A i, j \in Impressions(touches, c) :
                      i # j => touches[i].customer_id # touches[j].customer_id

(* A funnel reaches as deep as any way through a user's events; every      *)
(* conversion is credited once or counted as unattributed; the performance *)
(* report and attribution agree on their impressions.                      *)
JourneysAreCounted == GreedyIsDeepest /\ EveryConversionCounts /\ ReportsAgree
=============================================================================
