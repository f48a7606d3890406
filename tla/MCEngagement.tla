---------------------------- MODULE MCEngagement ----------------------------
(***************************************************************************)
(* What a user is shown and told: the touch budget, an edited campaign,    *)
(* personalized experiences, generated copy, its gate and its feedback.    *)
(* The parts share no state.  A behaviour is a behaviour of one of them,   *)
(* the one in focus, while the others rest in an initial state, so that    *)
(* their state spaces add up and do not multiply.                          *)
(***************************************************************************)
EXTENDS TouchBudget, CampaignDefinition, Personalization, Copywriting, ComplianceGate,
        CopyFeedback, TLC

CONSTANTS c1, c2

VARIABLE focus

AddressSymmetry == Permutations(Addresses)
-----------------------------------------------------------------------------
(* A home card for customer 1 and an offer for customer 2, or for both with *)
(* a hold-out that takes customer 1.  One fetch (fetches share nothing they *)
(* write), three registrations, and three addresses, so that one is used    *)
(* again.                                                                   *)
Draft(audience, heldOut, shares, locales) ==
    [audience |-> audience, control |-> heldOut, weights |-> shares, locales |-> locales]
TheirDrafts ==
    [home |-> {Draft({c1}, 0, <<1, 1>>, <<{"default", "ar"}, {"default"}>>)},
     offer |-> {Draft({c2}, 0, <<1>>, <<{"en"}>>), Draft({c1, c2}, 5, <<1>>, <<{"default"}>>)}]
Fractions == [home |-> (c1 :> 2 @@ c2 :> 7), offer |-> (c1 :> 2 @@ c2 :> 5)]

Ids(cid, mobile) == [customer_id |-> cid, u_mb |-> mobile, u_em |-> None]
Fetched ==
    {[ids |-> Ids(c1, None), keys |-> <<"home", "offer">>, locale |-> "ar"],
     [ids |-> Ids(None, c2), keys |-> <<"offer">>, locale |-> "default"],
     [ids |-> Ids(None, None), keys |-> <<"home">>, locale |-> "en"]}
-----------------------------------------------------------------------------
(* Copy: two locales, a goal with templates and one without; requests the   *)
(* route refuses, and one arm too many.  A channel takes a few characters   *)
(* more than the disclaimer's end of a text.                                *)
TheirLimits == [push |-> 6, sms |-> 9]
Locales == {"en", "ar"}
Templates ==
    [activate |-> [l \in Locales |-> <<[head |-> <<"W">>, mid |-> <<" ">>],
                                       [head |-> <<"w", "w">>, mid |-> <<"w", " ">>]>>],
     default  |-> [l \in Locales |-> <<[head |-> <<>>, mid |-> <<" ">>],
                                       [head |-> <<"W", " ">>, mid |-> <<" ">>]>>]]
Calls == [l \in Locales |-> <<<<"w">>, <<"w", "w", "w">>>>]
Tones == [urgent |-> [l \in Locales |-> <<"W", " ">>]]
Names == [Loan |-> <<"w">>, Wallet |-> <<"W">>]

Asked(item, ls, tone, by, max, n) ==
    [goal |-> IF tone = "formal" THEN "other" ELSE "activate", product |-> item,
     locales |-> ls, tone |-> tone, channel |-> by, max_len |-> max, n |-> n]
NoRoom == Asked("Wallet", <<"en", "en">>, "urgent", "email", Absent, 3)
Drawn == {"tpl", "cta"} \X Locales \X (0..2)
AskedCopies ==
    {Asked("Loan", <<"ar", "en">>, t, by, Absent, 2) : t \in {"urgent", "formal"}, by \in {Absent, "sms"}}
    \cup {Asked("Wallet", <<"en", "xx">>, "urgent", Absent, Absent, 1),
          NoRoom,
          Asked("Wallet", <<"en">>, "urgent", "email", 0, 1)}

TheirContent == {<<>>, <<"c1">>}
TheirWeights == {<<>>, <<3, 1, 2>>}

(* The gate: texts of up to seven characters, the channel that takes six    *)
(* and one without a limit, a product with a disclaimer and one without.    *)
GateChannels == {"push", Absent}
Vocabulary == {<<"w">>, <<"W">>, <<" ">>, <<"g", "u">>, <<"G", "u">>, <<"T", "c">>}
-----------------------------------------------------------------------------
InFocus(part) == focus = part

EngagementInit ==
    /\ focus \in {"budget", "campaign", "experiences", "copies", "gate", "feedback"}
    /\ BudgetInit /\ Init /\ FeedbackInit
    /\ InFocus("campaign") \/ (control = 0 /\ weights = <<1>>)
    /\ AllocInit
    /\ InFocus("copies") \/ (request = NoRoom /\ digest = [d \in Drawn |-> 0])
    /\ CopyInit
    /\ InFocus("gate") \/ (channel = Absent /\ product = "Loan")
    /\ GateInit

Resting(others) == UNCHANGED <<focus, others>>

BudgetStep == InFocus("budget") /\ BudgetNext /\ Resting(<<Definition, vars, copyVars, gateVars, log>>)
CampaignStep ==
    InFocus("campaign") /\ Redefine /\ Resting(<<budgetVars, vars, copyVars, gateVars, log>>)
ExperienceStep ==
    InFocus("experiences") /\ Next /\ Resting(<<budgetVars, Definition, copyVars, gateVars, log>>)
CopyStep == InFocus("copies") /\ CopyNext /\ Resting(<<budgetVars, Definition, vars, gateVars, log>>)
GateStep == InFocus("gate") /\ GateNext /\ Resting(<<budgetVars, Definition, vars, copyVars, log>>)
FeedbackStep ==
    InFocus("feedback") /\ FeedbackNext /\ Resting(<<budgetVars, Definition, vars, copyVars, gateVars>>)

EngagementNext == \/ BudgetStep \/ CampaignStep \/ ExperienceStep
                  \/ CopyStep \/ GateStep \/ FeedbackStep

EngagementSpec == EngagementInit /\
    [][EngagementNext]_<<focus, budgetVars, Definition, vars, copyVars, gateVars, log>>
=============================================================================
