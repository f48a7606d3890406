------------------------------ MODULE MCConsole ------------------------------
(***************************************************************************)
(* Three pages of the console: the audience page, the campaign wizard and  *)
(* the experiences with the store behind them.  The pages share no state.  *)
(* A behaviour is a behaviour of one of them, the one in focus, while the  *)
(* others rest, so that their state spaces add up and do not multiply.     *)
(***************************************************************************)
EXTENDS AudiencePage, CampaignWizard, ExperiencePage, TLC

VARIABLE focus

(* Two rules that select different numbers of users.                       *)
TwoMatches == {"kyc", "dormant"}
TheirSizes == ("kyc" :> 3) @@ ("dormant" :> 5)

(* Tables of variants that pass and fail each check.                       *)
Table(names) == [i \in DOMAIN names |-> [name |-> names[i], weight |-> 1]]

Trims == [n \in {"A", "B", "A ", " ", "", "control", "control "} |->
            CASE n = "A " -> "A" [] n = " " -> "" [] n = "control " -> "control" [] OTHER -> n]

Tables == {<<>>, Table(<<"A">>), Table(<<"A", "B">>), Table(<<"A", "A ">>), Table(<<"A", "A">>),
           Table(<<" ">>), Table(<<"">>), Table(<<"control ">>), Table(<<"control">>),
           <<[name |-> "A", weight |-> 1], [name |-> "B", weight |-> 0]>>}
-----------------------------------------------------------------------------
InFocus(page) == focus = page

ConsoleInit == /\ focus \in {"audience", "wizard", "experiences"}
               /\ Init /\ WizardInit /\ ExperienceInit

AudienceStep == InFocus("audience") /\ Next /\ UNCHANGED <<focus, wizardVars, experienceVars>>
WizardStep == InFocus("wizard") /\ WizardNext /\ UNCHANGED <<focus, vars, experienceVars>>
ExperienceStep == InFocus("experiences") /\ ExperienceNext /\ UNCHANGED <<focus, vars, wizardVars>>

ConsoleNext == AudienceStep \/ WizardStep \/ ExperienceStep

ConsoleSpec == ConsoleInit /\ [][ConsoleNext]_<<focus, vars, wizardVars, experienceVars>>
=============================================================================
