--------------------------- MODULE CampaignWizard ---------------------------
(***************************************************************************)
(* The console's campaign wizard (src/frontend/src/features/campaign/      *)
(* CampaignPage.tsx, wizardTypes.ts): three steps of one form that stays   *)
(* open to edits while a run is under way, and the list of what was        *)
(* launched.  A click on a button that is loading does nothing.            *)
(***************************************************************************)
EXTENDS Integers, Sequences, FiniteSets, SequencesExt

CONSTANTS VariantLists,    \* the tables of variants, sequences of [name, weight]
          Trim,            \* a name without the blanks around it
          MaxRuns

VARIABLES open,            \* is the wizard open?
          step,            \* 0: audience, 1: content, 2: schedule
          form,            \* [audience |-> is it an object with a match?, variants]
          running,         \* the request of this wizard's run (<<>>: none)
          orphans,         \* the runs of wizards that were closed meanwhile
          finished,        \* has this wizard a result?
          campaigns,       \* the list: [request, variants] of each row
          served,          \* the requests that the service has run
          runs             \* how many were sent

wizardVars == <<open, step, form, running, orphans, finished, campaigns, served, runs>>

ASSUME WizardAssumption ==
    /\ {"A", "B"} \subseteq DOMAIN Trim
    /\ VariantLists \subseteq Seq([name : DOMAIN Trim, weight : Int])

Default == [audience |-> TRUE,
            variants |-> <<[name |-> "A", weight |-> 1], [name |-> "B", weight |-> 1]>>]

WizardInit ==
    /\ open = FALSE /\ step = 0 /\ form = Default
    /\ running = <<>> /\ orphans = {} /\ finished = FALSE
    /\ campaigns = <<>> /\ served = {} /\ runs = 0
-----------------------------------------------------------------------------
VariantNames(variants) == {variants[i].name : i \in DOMAIN variants}
Trimmed(variants) == [i \in DOMAIN variants |-> [variants[i] EXCEPT !.name = Trim[@]]]

ValidateVariants(variants) ==
    /\ variants # <<>>
    /\ "" \notin VariantNames(Trimmed(variants))
    /\ Cardinality(VariantNames(Trimmed(variants))) = Len(variants)
    /\ "control" \notin VariantNames(Trimmed(variants))
    /\ \A i \in DOMAIN variants : variants[i].weight > 0

(* buildRunRequest; the id is the time of the click.                       *)
Request(n) == [id |-> n, variants |-> Trimmed(form.variants)]
-----------------------------------------------------------------------------
OpenWizard ==
    /\ ~open
    /\ open' = TRUE
    /\ step' = 0 /\ form' = Default /\ running' = <<>> /\ finished' = FALSE
    /\ UNCHANGED <<orphans, campaigns, served, runs>>

(* Closing does not stop a run: its answer still finds the list.           *)
Close ==
    /\ open
    /\ open' = FALSE
    /\ orphans' = orphans \cup Range(running)
    /\ running' = <<>>
    /\ UNCHANGED <<step, form, finished, campaigns, served, runs>>

EditForm ==
    /\ open
    /\ \/ step = 0 /\ \E a \in BOOLEAN : form' = [form EXCEPT !.audience = a]
       \/ step = 1 /\ \E v \in VariantLists : form' = [form EXCEPT !.variants = v]
    /\ UNCHANGED <<open, step, running, orphans, finished, campaigns, served, runs>>

GoNext ==
    /\ open /\ ~finished
    /\ \/ step = 0 /\ form.audience
       \/ step = 1 /\ ValidateVariants(form.variants)
    /\ step' = step + 1
    /\ UNCHANGED <<open, form, running, orphans, finished, campaigns, served, runs>>

GoPrev ==
    /\ open /\ ~finished /\ step > 0
    /\ step' = step - 1
    /\ UNCHANGED <<open, form, running, orphans, finished, campaigns, served, runs>>

(* run(): validates again, since the steps can be walked in any order.     *)
Run ==
    /\ open /\ ~finished /\ step = 2 /\ running = <<>>
    /\ runs < MaxRuns
    /\ ValidateVariants(form.variants) /\ form.audience
    /\ running' = <<Request(runs + 1)>> /\ runs' = runs + 1
    /\ UNCHANGED <<open, step, form, orphans, finished, campaigns, served>>

(* A bug to compare with: the row describes the form.                      *)
RowOfForm(request) == [request |-> request.id, variants |-> Len(form.variants)]

Row(request) == [request |-> request.id, variants |-> Len(request.variants)]

Answered(request) ==
    /\ campaigns' = <<Row(request)>> \o campaigns
    /\ served' = served \cup {request}

(* The answer of the wizard's own run, a failure of it (the service may    *)
(* have run the campaign all the same), or either for a closed wizard.     *)
RunReturns ==
    /\ running # <<>>
    /\ Answered(running[1])
    /\ finished' = TRUE /\ running' = <<>>
    /\ UNCHANGED <<open, step, form, orphans, runs>>

RunFails ==
    /\ running # <<>>
    /\ running' = <<>>
    /\ served' \in {served, served \cup {running[1]}}
    /\ UNCHANGED <<open, step, form, orphans, finished, campaigns, runs>>

OrphanReturns ==
    \E request \in orphans :
       /\ \/ Answered(request)
          \/ served' \in {served, served \cup {request}} /\ UNCHANGED campaigns
       /\ orphans' = orphans \ {request}
       /\ UNCHANGED <<open, step, form, running, finished, runs>>

WizardNext ==
    \/ OpenWizard \/ Close \/ EditForm \/ GoNext \/ GoPrev
    \/ Run \/ RunReturns \/ RunFails \/ OrphanReturns

WizardSpec == WizardInit /\ [][WizardNext]_wizardVars
-----------------------------------------------------------------------------
(* What Campaign and Variant (src/src/orchestration/models.py) demand.     *)
Demanded(variants) ==
    /\ variants # <<>>
    /\ VariantNames(variants) \cap {"", "control"} = {}
    /\ Cardinality(VariantNames(variants)) = Len(variants)
    /\ \A i \in DOMAIN variants : variants[i].weight > 0

RequestsAreAccepted ==
    \A request \in orphans \cup Range(running) : Demanded(request.variants)

RowsDescribeRequests ==
    \A i \in DOMAIN campaigns : \E request \in served :
        /\ request.id = campaigns[i].request
        /\ Len(request.variants) = campaigns[i].variants

(* Whatever is edited, in whichever order the steps are walked, the        *)
(* service never refuses a variant that the console has let through (the   *)
(* two validate in two languages, and only one of them trims), and a row   *)
(* describes the campaign that was sent, also when the form was edited or  *)
(* the wizard closed before its answer came.                               *)
LaunchesAreTrue == RequestsAreAccepted /\ RowsDescribeRequests
=============================================================================
