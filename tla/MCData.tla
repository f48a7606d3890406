------------------------------- MODULE MCData -------------------------------
(***************************************************************************)
(* The data platform, the edge in front of it and what is computed from    *)
(* it: parts that share no state.  A behaviour is a behaviour of one of    *)
(* them, the one in focus, while the others rest in an initial state, so   *)
(* that their state spaces add up and do not multiply.                     *)
(***************************************************************************)
EXTENDS ApiGateway, Identity, DataFoundation, Suppression, Shadow, ShadowReport, Reports,
        Journeys, Insights

CONSTANTS Nothing, d1

VARIABLE focus

dataPlatformVars == <<resolverVars, ingestionVars, suppressionVars, shadowVars, reportVars>>
-----------------------------------------------------------------------------
(* Identity: id 1 is a phone number, id 2 is the text "None", ids 3 and 4   *)
(* customers.  No identifier is null here.                                  *)
Asked(cid, phone, device) == [customer_id |-> cid, phone |-> phone, device_id |-> device]
Asks == {Asked(4, 0, 0), Asked(3, 1, 0), Asked(0, 1, d1), Asked(0, 0, d1)}

(* Ingestion: transfers of one customer, with and without an event id, two  *)
(* at the same second with different amounts, and invalid ones.             *)
Transfer(id, ts, amount) ==
    [event_id |-> id, customer_id |-> "w1", event_name |-> "Transfer", ts_utc |-> ts,
     amount |-> amount]
Event(id, name, ts) == [Transfer(id, ts, Nothing) EXCEPT !.event_name = name]

Raw == {Transfer(1, 10, "number"), Transfer(2, 10, "number"), Transfer(2, 10, "bool"),
        Transfer(Nothing, 10, "number"), Transfer(Nothing, Nothing, "number"),
        Event(3, "Opened", 30), Event(4, "Refund", 30), Transfer(1, 10, Nothing)}
RawBatches == UNION {[1..n -> Raw] : n \in 0..2} \cup
    [1..3 -> {Transfer(2, 10, "number"), Transfer(2, 10, "bool"), Transfer(Nothing, 10, "number"),
              Event(3, "Opened", 30)}]

RawUsers == {[customer_id |-> "w1", is_kyc |-> TRUE], [customer_id |-> "w2"],
             [customer_id |-> Nothing]}
Derived == {[w1 |-> [is_kyc |-> FALSE, dormant |-> TRUE], w2 |-> [is_kyc |-> TRUE]]}

(* Suppression: lists that name a customer twice, one with a blank id.      *)
Filtered == {<<"w1", "w2", "w1">>, <<"w3", "", "w1", "w3">>}

(* Shadow: three users spread over the line, two fires over two days, lists *)
(* that overlap and repeat.  Its report: enough records for every verdict   *)
(* at every margin.                                                         *)
Places == <<0, 2, 4>>
Fired == {<<>>, <<1, 2, 3>>, <<2, 2>>, <<3, 1>>}
-----------------------------------------------------------------------------
(* Funnels: three kinds of events and a repeated step, times a window apart *)
(* and equal times.  Attribution: purchases on the edge of the window, just  *)
(* outside it and at the time of a touch, touches of two campaigns.         *)
At(customer, name, ts) == [customer_id |-> customer, event_name |-> name, ts |-> ts]
SentAt(customer, campaign, ts, outcome) ==
    [customer_id |-> customer, campaign_id |-> campaign, ts |-> ts, status |-> outcome,
     clicked |-> FALSE, converted |-> FALSE]

Bought == {At("u1", "Remit", 2), At("u1", "Remit", 4), At("u2", "Remit", 4)}
FunnelEvents == {At("u1", n, t) : n \in {"Call", "Wallet"}, t \in 1..3}
                  \cup {At("u2", "Wallet", 1)} \cup Bought
Steps == {<<"Call", "Wallet", "Remit">>, <<"Wallet", "Wallet">>, <<"Call", "Remit">>}
WithinDays == {NoTime, 0, 1}

Touched == {SentAt("u1", c, t, "sent") : c \in {"c1", "c2"}, t \in {1, 2, 3}}
             \cup {SentAt("u2", "c1", 3, "sent"), SentAt("u2", "c2", 4, "failed")}

(* Behavioural reports: times on, just inside and just outside the windows  *)
(* of one day, and some so close to the instant of a report that rounding   *)
(* the score hides the difference.  An instant every half day.              *)
Paid(u, ts, amount) == [customer_id |-> u, ts |-> ts, amount |-> amount]

HalfDay == PerDay \div 2
HalfDays == {k * HalfDay : k \in 0..6}

Payments == {Paid("u1", k * HalfDay, k) : k \in 0..5}
              \cup {Paid("u2", t, 0) : t \in {HalfDay, 3 * HalfDay, 4 * HalfDay - 2}}
              \cup {Paid("u3", 2 * HalfDay - 1, 9)}
-----------------------------------------------------------------------------
InFocus(part) == focus = part

DataInit ==
    /\ focus \in {"edge", "identity", "ingestion", "suppression", "shadow", "report",
                  "journeys", "reports", "insights"}
    /\ Init /\ ResolverInit /\ IngestionInit
    /\ SuppressionInit /\ (InFocus("suppression") \/ converted = {})
    /\ ShadowInit /\ (InFocus("shadow") \/ pct = 0)
    /\ ReportInit /\ (InFocus("report") \/ margin = 0)
    /\ BehaviourInit /\ JourneyInit /\ InsightInit

Resting(others) == UNCHANGED <<focus, others>>

Edge == InFocus("edge") /\ Next /\
    Resting(<<dataPlatformVars, journeyVars, behaviourVars, insightVars>>)
ResolverStep == InFocus("identity") /\ ResolverNext /\
    Resting(<<vars, ingestionVars, suppressionVars, shadowVars, reportVars,
              journeyVars, behaviourVars, insightVars>>)
IngestionStep == InFocus("ingestion") /\ IngestionNext /\
    Resting(<<vars, resolverVars, suppressionVars, shadowVars, reportVars,
              journeyVars, behaviourVars, insightVars>>)
SuppressionStep == InFocus("suppression") /\ SuppressionNext /\
    Resting(<<vars, resolverVars, ingestionVars, shadowVars, reportVars,
              journeyVars, behaviourVars, insightVars>>)
ShadowStep == InFocus("shadow") /\ ShadowNext /\
    Resting(<<vars, resolverVars, ingestionVars, suppressionVars, reportVars,
              journeyVars, behaviourVars, insightVars>>)
ReportStep == InFocus("report") /\ ReportNext /\
    Resting(<<vars, resolverVars, ingestionVars, suppressionVars, shadowVars,
              journeyVars, behaviourVars, insightVars>>)
JourneyStep == InFocus("journeys") /\ JourneyNext /\
    Resting(<<vars, dataPlatformVars, behaviourVars, insightVars>>)
BehaviourStep == InFocus("reports") /\ BehaviourNext /\
    Resting(<<vars, dataPlatformVars, journeyVars, insightVars>>)
InsightStep == InFocus("insights") /\ InsightNext /\
    Resting(<<vars, dataPlatformVars, journeyVars, behaviourVars>>)

DataNext == \/ Edge \/ ResolverStep \/ IngestionStep \/ SuppressionStep \/ ShadowStep
            \/ ReportStep \/ JourneyStep \/ BehaviourStep \/ InsightStep

dataVars == <<focus, vars, dataPlatformVars, journeyVars, behaviourVars, insightVars>>

(* The threads that resolve identities keep running.                        *)
DataSpec == DataInit /\ [][DataNext]_dataVars /\ ResolverFairness
-----------------------------------------------------------------------------
(* What was not there before does no harm: late events and time never make  *)
(* a dataset stale, a funnel lose a user, a returning customer new or an    *)
(* active one less at risk; a touch takes no credit by the model that does  *)
(* not look at it; a ramp-up takes nobody out of the shadow arm.            *)
LateNewsIsHarmless ==
    /\ StaysFresh /\ RampUpKeepsArm
    /\ FunnelOnlyGrows /\ ModelsAreMirrored
    /\ ReturningStaysReturning /\ SilenceRaisesRisk
=============================================================================
