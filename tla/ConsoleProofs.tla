---------------------------- MODULE ConsoleProofs ----------------------------
(***************************************************************************)
(* What three pages of the console show: the theorems of AudiencePage (for *)
(* any rules, templates and sizes), of CampaignWizard (any tables of       *)
(* variants and any number of runs) and of ExperiencePage (any keys and    *)
(* any number of calls).                                                   *)
(***************************************************************************)
EXTENDS AudiencePage, CampaignWizard, ExperiencePage, TLAPS

Specs == [name : Names, match : Matches \cup {EmptyMatch}]
Sized == {s \in Specs : s.match # EmptyMatch}

(* An estimate is only made of a rule that is not empty.                   *)
Typed ==
    /\ spec \in Specs
    /\ effectDue \in BOOLEAN /\ sizeError \in BOOLEAN /\ sizeLoading \in BOOLEAN
    /\ timer \in Sized \cup {None}
    /\ calls \subseteq [spec : Specs, alive : BOOLEAN]
    /\ \A c \in Alive : c.spec \in Sized
    /\ size \in Nat \cup {NoSize}

(* Sending an estimate clears the error of the one before, and nothing     *)
(* sets it until that estimate is answered.                                *)
ErrorsAreOfAnswers == Alive # {} => ~sizeError

IInv == Typed /\ OneEstimateAwaited /\ ErrorsAreOfAnswers /\ SettledShowsCurrent
-----------------------------------------------------------------------------
LEMMA SizedIsNotNone == None \notin Sized
  BY AudienceAssumption DEF Sized, Specs, None, EmptyMatch

LEMMA InitialIInv == Init => IInv
<1> SUFFICES ASSUME Init PROVE IInv
  OBVIOUS
<1>1. spec \in Specs /\ spec.match = EmptyMatch
  BY AudienceAssumption DEF Init, Specs
<1>2. Alive = {}
  BY DEF Init, Alive
<1>3. QED
  BY <1>1, <1>2
  DEF Init, IInv, Typed, OneEstimateAwaited, ErrorsAreOfAnswers, SettledShowsCurrent

(* The effect of a change: nothing that was under way is waited for.       *)
LEMMA EffectKeepsIInv ==
    ASSUME IInv, NEW s \in Specs, spec' = s, RunEffect(s)
    PROVE  IInv'
<1>1. Alive' = {} /\ calls' \subseteq [spec : Specs, alive : BOOLEAN]
  BY DEF RunEffect, Cleaned, Alive, IInv, Typed
<1>2. CASE s.match = EmptyMatch
  BY <1>1, <1>2
  DEF IInv, Typed, OneEstimateAwaited, ErrorsAreOfAnswers, SettledShowsCurrent,
      AtRest, RunEffect
<1>3. CASE s.match # EmptyMatch
  BY <1>1, <1>3, SizedIsNotNone
  DEF IInv, Typed, OneEstimateAwaited, ErrorsAreOfAnswers, SettledShowsCurrent,
      AtRest, RunEffect, Sized
<1>4. QED BY <1>2, <1>3

LEMMA FireKeepsIInv == IInv /\ Fire => IInv'
<1> SUFFICES ASSUME IInv, Fire PROVE IInv'
  OBVIOUS
<1> DEFINE asked == [spec |-> timer, alive |-> TRUE]
<1>1. timer \in Sized /\ Alive = {}
  BY DEF IInv, Typed, OneEstimateAwaited, Fire
<1>2. Alive' = {asked}
  BY <1>1 DEF Fire, Alive
<1>3. Typed'
  <2>1. asked \in [spec : Specs, alive : BOOLEAN] /\ asked.spec = timer
    BY <1>1 DEF Sized
  <2>2. \A c \in Alive' : c.spec \in Sized
    BY <1>1, <1>2, <2>1
  <2>3. calls' \subseteq [spec : Specs, alive : BOOLEAN]
    BY <2>1 DEF IInv, Typed, Fire
  <2>4. QED BY <2>2, <2>3 DEF IInv, Typed, Fire
<1>4. OneEstimateAwaited' /\ ErrorsAreOfAnswers'
  BY <1>1, <1>2 DEF IInv, OneEstimateAwaited, ErrorsAreOfAnswers, Fire, Typed
<1>5. SettledShowsCurrent'
  BY <1>2 DEF SettledShowsCurrent, AtRest
<1>6. QED BY <1>3, <1>4, <1>5 DEF IInv

LEMMA AnswerKeepsIInv == IInv /\ Answer => IInv'
<1> SUFFICES ASSUME IInv, Answer PROVE IInv'
  OBVIOUS
<1>1. PICK c \in calls, ok \in BOOLEAN :
         /\ calls' = calls \ {c}
         /\ IF c.alive
            THEN /\ size' = IF ok THEN SizeOf[c.spec.match] ELSE NoSize
                 /\ sizeError' = (sizeError \/ ~ok)
                 /\ sizeLoading' = FALSE
            ELSE UNCHANGED <<size, sizeError, sizeLoading>>
         /\ UNCHANGED <<spec, effectDue, timer, translating, compiling, sql>>
  BY DEF Answer
<1>2. CASE ~c.alive
  <2>1. Alive' = Alive
    BY <1>1, <1>2 DEF Alive
  <2>2. QED
    BY <1>1, <1>2, <2>1
    DEF IInv, Typed, OneEstimateAwaited, ErrorsAreOfAnswers, SettledShowsCurrent, AtRest
<1>3. CASE c.alive
  <2>1. c \in Alive /\ c.spec \in Sized /\ ~sizeError /\ timer = None
    BY <1>1, <1>3 DEF Alive, IInv, Typed, ErrorsAreOfAnswers, OneEstimateAwaited
  <2>2. Alive' = {}
    BY <1>1, <2>1 DEF Alive, IInv, OneEstimateAwaited
  <2>3. SizeOf[c.spec.match] \in Nat
    BY <2>1, AudienceAssumption DEF Sized, Specs
  <2>4. Typed'
    BY <1>1, <1>3, <2>2, <2>3 DEF IInv, Typed
  <2>5. ~effectDue => c.spec = spec
    BY <2>1 DEF IInv, OneEstimateAwaited
  <2>6. SettledShowsCurrent'
    BY <1>1, <1>3, <2>1, <2>5 DEF SettledShowsCurrent, AtRest, Sized
  <2>7. QED
    BY <1>1, <1>3, <2>2, <2>4, <2>6 DEF IInv, OneEstimateAwaited, ErrorsAreOfAnswers, Typed
<1>4. QED BY <1>2, <1>3

(* A translation changes the spec, and its effect is still to run.         *)
LEMMA TranslationKeepsIInv == IInv /\ TranslateReturns => IInv'
<1> SUFFICES ASSUME IInv, TranslateReturns PROVE IInv'
  OBVIOUS
<1>1. spec' \in Specs /\ effectDue' = TRUE /\ UNCHANGED estimate
  BY DEF TranslateReturns, IInv, Typed, Specs
<1>2. QED
  BY <1>1
  DEF IInv, Typed, OneEstimateAwaited, ErrorsAreOfAnswers, SettledShowsCurrent,
      AtRest, Alive, estimate

LEMMA NextKeepsIInv == IInv /\ [Next]_vars => IInv'
<1> SUFFICES ASSUME IInv, [Next]_vars PROVE IInv'
  OBVIOUS
<1>1. CASE Edit
  <2>1. spec' \in Specs /\ RunEffect(spec')
    BY <1>1 DEF Edit, IInv, Typed, Specs
  <2>2. QED BY <2>1, EffectKeepsIInv
<1>2. CASE SelectTemplate
  <2>1. spec' \in Specs /\ RunEffect(spec')
    BY <1>2 DEF SelectTemplate, IInv, Typed, Specs
  <2>2. QED BY <2>1, EffectKeepsIInv
<1>3. CASE Effect
  BY <1>3, EffectKeepsIInv DEF Effect, IInv, Typed
<1>4. CASE Fire
  BY <1>4, FireKeepsIInv
<1>5. CASE Answer
  BY <1>5, AnswerKeepsIInv
<1>6. CASE TranslateReturns
  BY <1>6, TranslationKeepsIInv
<1>7. CASE Translate \/ TranslateFails \/ Compile \/ CompileReturns \/ UNCHANGED vars
  <2>1. UNCHANGED <<spec, effectDue, estimate>>
    BY <1>7 DEF Translate, TranslateFails, Compile, CompileReturns, vars
  <2>2. QED
    BY <2>1
    DEF IInv, Typed, OneEstimateAwaited, ErrorsAreOfAnswers, SettledShowsCurrent,
        AtRest, Alive, estimate
<1>8. QED
  BY <1>1, <1>2, <1>3, <1>4, <1>5, <1>6, <1>7 DEF Next, Browser
-----------------------------------------------------------------------------
(* The page settles on the size of the rule it shows, with no spinner over *)
(* it, whatever rules there are and in whatever order their estimates come *)
(* back (AudiencePage.tsx, the estimate's effect).                         *)
THEOREM PageSettles == Spec => []SettledShowsCurrent
<1>1. Spec => []IInv
  BY InitialIInv, NextKeepsIInv, PTL DEF Spec
<1>2. IInv => SettledShowsCurrent
  BY DEF IInv
<1>3. QED BY <1>1, <1>2, PTL

(* At most one estimate is waited for, that of the spec on screen (the     *)
(* effect's cleanup).                                                      *)
THEOREM PageAwaitsOne == Spec => []OneEstimateAwaited
<1>1. Spec => []IInv
  BY InitialIInv, NextKeepsIInv, PTL DEF Spec
<1>2. IInv => OneEstimateAwaited
  BY DEF IInv
<1>3. QED BY <1>1, <1>2, PTL
-----------------------------------------------------------------------------
(* The campaign wizard.                                                    *)

VariantTables == Seq([name : DOMAIN Trim, weight : Int])

(* What was let through is demanded no more of: the form may change or the *)
(* wizard close afterwards, and each row is that of a request served.      *)
WizardInv ==
    /\ form \in [audience : BOOLEAN, variants : VariantTables]
    /\ RequestsAreAccepted
    /\ campaigns \in Seq({Row(request) : request \in served})

LEMMA Entries ==
    ASSUME NEW S, NEW s \in Seq(S)
    PROVE  /\ DOMAIN s = 1..Len(s) /\ Len(s) \in Nat
           /\ \A i \in DOMAIN s : s[i] \in S
           /\ s # <<>> => Len(s) # 0
  OBVIOUS

(* The two validations agree: what the wizard accepts, the service accepts *)
(* once it is trimmed (validateVariants and Campaign.__post_init__).       *)
LEMMA ValidatedIsDemanded ==
    ASSUME NEW variants \in VariantTables, ValidateVariants(variants)
    PROVE  Demanded(Trimmed(variants))
<1>1. \A i \in DOMAIN variants :
         [variants[i] EXCEPT !.name = Trim[@]].weight = variants[i].weight
  <2>1. \A v \in [name : DOMAIN Trim, weight : Int] :
           [v EXCEPT !.name = Trim[@]].weight = v.weight
    OBVIOUS
  <2>2. \A i \in DOMAIN variants : variants[i] \in [name : DOMAIN Trim, weight : Int]
    BY Entries, Zenon DEF VariantTables
  <2>3. QED BY <2>1, <2>2, Zenon
<1>2. /\ DOMAIN Trimmed(variants) = DOMAIN variants
      /\ \A i \in DOMAIN variants :
            Trimmed(variants)[i] = [variants[i] EXCEPT !.name = Trim[@]]
  BY Zenon DEF Trimmed
<1>3. Trimmed(variants) # <<>>
  <2>1. DOMAIN variants = 1..Len(variants) /\ Len(variants) \in Nat \ {0}
    BY Entries, Zenon DEF ValidateVariants, VariantTables
  <2>2. 1 \in DOMAIN Trimmed(variants)
    <3>1. 1 \in 1..Len(variants)
      BY <2>1
    <3>2. QED BY <1>2, <2>1, <3>1, Zenon
  <2>3. QED BY <2>2
<1>4. Len(Trimmed(variants)) = Len(variants)
  BY <1>2 DEF VariantTables
<1>5. \A i \in DOMAIN Trimmed(variants) : Trimmed(variants)[i].weight > 0
  BY <1>1, <1>2, Zenon DEF ValidateVariants
<1>6. QED
  BY <1>3, <1>4, <1>5 DEF ValidateVariants, Demanded

LEMMA InitialWizardInv == WizardInit => WizardInv
<1> SUFFICES ASSUME WizardInit PROVE WizardInv
  OBVIOUS
<1>1. Default \in [audience : BOOLEAN, variants : VariantTables]
  BY WizardAssumption DEF Default, VariantTables
<1>2. RequestsAreAccepted
  BY DEF WizardInit, RequestsAreAccepted, Range
<1>3. QED BY <1>1, <1>2 DEF WizardInv, WizardInit

(* An answer puts the row of its request in front of the others.           *)
LEMMA AnswerAddsItsRow ==
    ASSUME NEW request, Answered(request), campaigns \in Seq({Row(r) : r \in served})
    PROVE  (campaigns \in Seq({Row(r) : r \in served}))'
<1>1. {Row(r) : r \in served} \subseteq {Row(r) : r \in served'}
      /\ Row(request) \in {Row(r) : r \in served'}
  BY DEF Answered
<1>2. campaigns \in Seq({Row(r) : r \in served'})
  BY <1>1
<1>3. campaigns' \in Seq({Row(r) : r \in served'})
  BY <1>1, <1>2 DEF Answered
<1>4. {Row(r) : r \in served'} = {Row(r) : r \in served}'
  BY DEF Row
<1>5. QED BY <1>3, <1>4

LEMMA ServedOnlyGrows ==
    ASSUME served \subseteq served', UNCHANGED campaigns,
           campaigns \in Seq({Row(r) : r \in served})
    PROVE  (campaigns \in Seq({Row(r) : r \in served}))'
<1>1. {Row(r) : r \in served} \subseteq {Row(r) : r \in served'}
  OBVIOUS
<1>2. campaigns' \in Seq({Row(r) : r \in served'})
  BY <1>1
<1>3. {Row(r) : r \in served'} = {Row(r) : r \in served}'
  BY DEF Row
<1>4. QED BY <1>2, <1>3

LEMMA NextKeepsWizardInv == WizardInv /\ [WizardNext]_wizardVars => WizardInv'
<1> SUFFICES ASSUME WizardInv, [WizardNext]_wizardVars PROVE WizardInv'
  OBVIOUS
<1> USE DEF WizardInv, RequestsAreAccepted, Range
<1>1. CASE OpenWizard
  <2>1. Default \in [audience : BOOLEAN, variants : VariantTables]
    BY WizardAssumption DEF Default, VariantTables
  <2>2. served \subseteq served' /\ UNCHANGED campaigns
    BY <1>1 DEF OpenWizard
  <2>3. (campaigns \in Seq({Row(r) : r \in served}))'
    BY <2>2, ServedOnlyGrows
  <2>4. QED BY <1>1, <2>1, <2>3 DEF OpenWizard
<1>2. CASE Close
  <2>1. served \subseteq served' /\ UNCHANGED campaigns
    BY <1>2 DEF Close
  <2>2. (campaigns \in Seq({Row(r) : r \in served}))'
    BY <2>1, ServedOnlyGrows
  <2>3. QED BY <1>2, <2>2 DEF Close
<1>3. CASE EditForm
  <2>1. form' \in [audience : BOOLEAN, variants : VariantTables]
    BY <1>3, WizardAssumption DEF EditForm, VariantTables
  <2>2. served \subseteq served' /\ UNCHANGED campaigns
    BY <1>3 DEF EditForm
  <2>3. (campaigns \in Seq({Row(r) : r \in served}))'
    BY <2>2, ServedOnlyGrows
  <2>4. QED BY <1>3, <2>1, <2>3 DEF EditForm
<1>4. CASE GoNext \/ GoPrev \/ UNCHANGED wizardVars
  <2>1. UNCHANGED <<form, running, orphans, campaigns, served>>
    BY <1>4 DEF GoNext, GoPrev, wizardVars
  <2>2. (campaigns \in Seq({Row(r) : r \in served}))'
    BY <2>1, ServedOnlyGrows
  <2>3. QED BY <2>1, <2>2
<1>5. CASE Run
  <2>1. Demanded(Request(runs + 1).variants)
    BY <1>5, ValidatedIsDemanded DEF Run, Request
  <2>2. running' = <<Request(runs + 1)>> /\ UNCHANGED <<form, orphans, campaigns, served>>
    BY <1>5 DEF Run
  <2>3. RequestsAreAccepted'
    BY <2>1, <2>2
  <2>4. (campaigns \in Seq({Row(r) : r \in served}))'
    BY <2>2, ServedOnlyGrows
  <2>5. QED BY <2>2, <2>3, <2>4
<1>6. CASE RunReturns
  <2>1. (campaigns \in Seq({Row(r) : r \in served}))'
    BY <1>6, AnswerAddsItsRow DEF RunReturns
  <2>2. QED BY <1>6, <2>1 DEF RunReturns
<1>7. CASE RunFails
  <2>1. served \subseteq served' /\ UNCHANGED campaigns
    BY <1>7 DEF RunFails
  <2>2. (campaigns \in Seq({Row(r) : r \in served}))'
    BY <2>1, ServedOnlyGrows
  <2>3. QED BY <1>7, <2>2 DEF RunFails
<1>8. CASE OrphanReturns
  <2>1. PICK request \in orphans :
           /\ \/ Answered(request)
              \/ served' \in {served, served \cup {request}} /\ UNCHANGED campaigns
           /\ orphans' = orphans \ {request}
           /\ UNCHANGED <<open, step, form, running, finished, runs>>
    BY <1>8 DEF OrphanReturns
  <2>2. (campaigns \in Seq({Row(r) : r \in served}))'
    BY <2>1, AnswerAddsItsRow, ServedOnlyGrows
  <2>3. QED BY <2>1, <2>2
<1>9. QED
  BY <1>1, <1>2, <1>3, <1>4, <1>5, <1>6, <1>7, <1>8 DEF WizardNext

(* The service refuses no variant that the wizard has let through, and a   *)
(* row of the campaign list describes a campaign the service has run,      *)
(* whichever tables are typed, in whichever order the steps are walked,    *)
(* and if the wizard is closed before its answer comes (CampaignPage.tsx   *)
(* run and onLaunched, wizardTypes.ts validateVariants).                   *)
THEOREM WizardLaunchesAreTrue == WizardSpec => []LaunchesAreTrue
<1>1. WizardSpec => []WizardInv
  BY InitialWizardInv, NextKeepsWizardInv, PTL DEF WizardSpec
<1>2. WizardInv => LaunchesAreTrue
  BY DEF WizardInv, LaunchesAreTrue, RowsDescribeRequests, Row
<1>3. QED BY <1>1, <1>2, PTL
-----------------------------------------------------------------------------
(* The experiences.                                                        *)

Calls == [id : Nat, key : Keys, done : BOOLEAN]
Listed == [key : Keys, status : {"draft", "published"}]

PageTyped ==
    /\ key \in Keys \cup {NoKey}
    /\ experiences \in Seq(Listed)
    /\ registering = <<>> \/ registering \in {<<c>> : c \in Calls}
    /\ publishing \subseteq Calls
    /\ store \in [Keys -> {NoKey, "draft", "published"}]
    /\ sent \in Nat

(* A key is registered once, since its row blocks the form: so the store   *)
(* never makes a draft again of an experience that is being published.     *)
RegisteringIsNew ==
    registering # <<>> =>
        /\ Rows(registering[1].key) = {}
        /\ registering[1].done => store[registering[1].key] # NoKey

PublishingIsListed ==
    \A call \in publishing :
        /\ Rows(call.key) # {}
        /\ call.done => store[call.key] = "published"

ExperienceInv == PageTyped /\ RegisteringIsNew /\ PublishingIsListed /\ RowsAreTrue

LEMMA InitialExperienceInv == ExperienceInit => ExperienceInv
<1> SUFFICES ASSUME ExperienceInit PROVE ExperienceInv
  OBVIOUS
<1>1. QED
  BY DEF ExperienceInit, ExperienceInv, PageTyped, RegisteringIsNew, PublishingIsListed,
         RowsAreTrue, Rows

LEMMA RowsAreTyped ==
    ASSUME ExperienceInv
    PROVE  \A i \in DOMAIN experiences : experiences[i].key \in Keys
<1>1. \A i \in DOMAIN experiences : experiences[i] \in Listed
  BY Entries, Zenon DEF ExperienceInv, PageTyped
<1>2. \A r \in Listed : r.key \in Keys
  BY DEF Listed
<1>3. QED BY <1>1, <1>2

LEMMA CallIsTyped ==
    \A k \in Keys : sent \in Nat => Call(k) \in Calls /\ Call(k).key = k /\ ~Call(k).done
  BY DEF Call, Calls

LEMMA RegisterKeepsInv == ExperienceInv /\ Register => ExperienceInv'
<1> SUFFICES ASSUME ExperienceInv, Register PROVE ExperienceInv'
  OBVIOUS
<1>1. key \in Keys /\ sent \in Nat
  BY DEF ExperienceInv, PageTyped, Register
<1>2. Call(key) \in Calls /\ Call(key).key = key /\ ~Call(key).done
  BY <1>1, CallIsTyped
<1>3. registering' = <<Call(key)>> /\ registering'[1] = Call(key) /\ sent' \in Nat
      /\ UNCHANGED <<experiences, publishing, store>> /\ Rows(key) = {} /\ UNCHANGED key
  BY <1>1 DEF Register
<1>4. PageTyped'
  BY <1>2, <1>3 DEF ExperienceInv, PageTyped
<1>5. RegisteringIsNew'
  BY <1>2, <1>3 DEF RegisteringIsNew, Rows
<1>6. PublishingIsListed' /\ RowsAreTrue'
  BY <1>3 DEF ExperienceInv, PublishingIsListed, RowsAreTrue, Rows
<1>7. QED BY <1>4, <1>5, <1>6 DEF ExperienceInv

(* The draft replaces nothing that is listed or being published.           *)
LEMMA StoreRegistersKeepsInv == ExperienceInv /\ StoreRegisters => ExperienceInv'
<1> SUFFICES ASSUME ExperienceInv, StoreRegisters PROVE ExperienceInv'
  OBVIOUS
<1>1. PICK c \in Calls : registering = <<c>> /\ Rows(c.key) = {}
  BY DEF ExperienceInv, PageTyped, RegisteringIsNew, StoreRegisters
<1>2. /\ store' = [store EXCEPT ![c.key] = "draft"]
      /\ registering' = <<[c EXCEPT !.done = TRUE]>>
      /\ UNCHANGED <<key, experiences, publishing, publishingKey, sent>>
  BY <1>1 DEF StoreRegisters
<1>3. c.key \in Keys /\ [c EXCEPT !.done = TRUE] \in Calls /\ [c EXCEPT !.done = TRUE].key = c.key
  BY DEF Calls
<1>4. store'[c.key] = "draft" /\ \A k \in Keys \ {c.key} : store'[k] = store[k]
  BY <1>2, <1>3 DEF ExperienceInv, PageTyped
<1>5. PageTyped'
  BY <1>2, <1>3 DEF ExperienceInv, PageTyped
<1>6. RegisteringIsNew'
  BY <1>1, <1>2, <1>3, <1>4 DEF RegisteringIsNew, Rows, NoKey
<1>7. \A call \in publishing : call.key \in Keys \ {c.key}
  BY <1>1 DEF ExperienceInv, PageTyped, PublishingIsListed, Calls
<1>8. PublishingIsListed'
  BY <1>2, <1>4, <1>7 DEF ExperienceInv, PublishingIsListed, Rows
<1>9. \A i \in DOMAIN experiences : experiences[i].key \in Keys \ {c.key}
  BY <1>1, RowsAreTyped DEF Rows
<1>10. RowsAreTrue'
  BY <1>2, <1>4, <1>9 DEF ExperienceInv, RowsAreTrue
<1>11. QED BY <1>5, <1>6, <1>8, <1>10 DEF ExperienceInv

LEMMA RegisterReturnsKeepsInv == ExperienceInv /\ RegisterReturns => ExperienceInv'
<1> SUFFICES ASSUME ExperienceInv, RegisterReturns PROVE ExperienceInv'
  OBVIOUS
<1>1. PICK c \in Calls : registering = <<c>> /\ store[c.key] # NoKey
  BY DEF ExperienceInv, PageTyped, RegisteringIsNew, RegisterReturns
<1> DEFINE row == [key |-> c.key, status |-> "draft"]
<1>2. /\ experiences' = <<row>> \o experiences /\ row \in Listed
      /\ key' = NoKey /\ registering' = <<>>
      /\ UNCHANGED <<publishing, publishingKey, store, sent>>
  BY <1>1 DEF RegisterReturns, Calls, Listed
<1>3. experiences \in Seq(Listed)
  BY DEF ExperienceInv, PageTyped
<1>4. /\ experiences' \in Seq(Listed)
      /\ DOMAIN experiences' = 1..(Len(experiences) + 1)
      /\ experiences'[1] = row
      /\ \A i \in DOMAIN experiences :
            i + 1 \in DOMAIN experiences' /\ experiences'[i + 1] = experiences[i]
      /\ \A i \in DOMAIN experiences' \ {1} :
            i - 1 \in DOMAIN experiences /\ experiences'[i] = experiences[i - 1]
  BY <1>2, <1>3
<1>5. PageTyped'
  BY <1>2, <1>4 DEF ExperienceInv, PageTyped
<1>6. RegisteringIsNew'
  BY <1>2 DEF RegisteringIsNew
<1>7. PublishingIsListed'
  <2>1. ASSUME NEW call \in publishing
        PROVE  \E j \in DOMAIN experiences' : experiences'[j].key = call.key
    <3>1. PICK i \in DOMAIN experiences : experiences[i].key = call.key
      BY DEF ExperienceInv, PublishingIsListed, Rows
    <3>2. QED BY <3>1, <1>4
  <2>2. QED BY <1>2, <2>1 DEF ExperienceInv, PublishingIsListed, Rows
<1>8. RowsAreTrue'
  <2>1. ASSUME NEW i \in DOMAIN experiences'
        PROVE  IF experiences'[i].status = "published" THEN store'[experiences'[i].key] = "published"
               ELSE store'[experiences'[i].key] # NoKey
    <3>1. i = 1 => experiences'[i].status = "draft" /\ experiences'[i].key = c.key
      BY <1>4
    <3>2. i # 1 => i - 1 \in DOMAIN experiences /\ experiences'[i] = experiences[i - 1]
      BY <1>4
    <3>3. QED BY <1>1, <1>2, <3>1, <3>2 DEF ExperienceInv, RowsAreTrue
  <2>2. QED BY <2>1 DEF RowsAreTrue
<1>9. QED BY <1>5, <1>6, <1>7, <1>8 DEF ExperienceInv

LEMMA PublishKeepsInv ==
    ASSUME NEW k \in Keys, ExperienceInv, Publish(k)
    PROVE  ExperienceInv'
<1>1. sent \in Nat /\ Rows(k) # {}
  BY DEF ExperienceInv, PageTyped, Publish
<1>2. Call(k) \in Calls /\ Call(k).key = k /\ ~Call(k).done
  BY <1>1, CallIsTyped
<1>3. publishing' = publishing \cup {Call(k)} /\ sent' \in Nat
      /\ UNCHANGED <<key, experiences, registering, store>>
  BY <1>1 DEF Publish
<1>4. PublishingIsListed'
  BY <1>1, <1>2, <1>3 DEF ExperienceInv, PublishingIsListed, Rows
<1>5. QED
  BY <1>2, <1>3, <1>4 DEF ExperienceInv, PageTyped, RegisteringIsNew, RowsAreTrue, Rows

LEMMA StorePublishesKeepsInv ==
    ASSUME NEW call \in publishing, ExperienceInv, StorePublishes(call)
    PROVE  ExperienceInv'
<1> DEFINE answered == [call EXCEPT !.done = TRUE]
<1>1. /\ store' = [store EXCEPT ![call.key] = "published"]
      /\ publishing' = (publishing \ {call}) \cup {answered}
      /\ UNCHANGED <<key, experiences, registering, publishingKey, sent>>
  BY DEF StorePublishes
<1>2. call \in Calls /\ call.key \in Keys /\ answered \in Calls /\ answered.key = call.key
  BY DEF ExperienceInv, PageTyped, Calls
<1>3. /\ store'[call.key] = "published"
      /\ \A k \in Keys : store'[k] = store[k] \/ store'[k] = "published"
      /\ store' \in [Keys -> {NoKey, "draft", "published"}]
  BY <1>1, <1>2 DEF ExperienceInv, PageTyped
<1>4. PageTyped'
  BY <1>1, <1>2, <1>3 DEF ExperienceInv, PageTyped
<1>5. RegisteringIsNew'
  BY <1>1, <1>3 DEF ExperienceInv, PageTyped, RegisteringIsNew, Rows, Calls, NoKey
<1>6. PublishingIsListed'
  BY <1>1, <1>2, <1>3 DEF ExperienceInv, PageTyped, PublishingIsListed, Rows, Calls
<1>7. \A i \in DOMAIN experiences : experiences[i].key \in Keys
  BY RowsAreTyped
<1>8. RowsAreTrue'
  BY <1>1, <1>3, <1>7 DEF ExperienceInv, RowsAreTrue, NoKey
<1>9. QED BY <1>4, <1>5, <1>6, <1>8 DEF ExperienceInv

(* A row changes to published only when the store has said so.             *)
LEMMA PublishReturnsKeepsInv ==
    ASSUME NEW call \in publishing, ExperienceInv, PublishReturns(call)
    PROVE  ExperienceInv'
<1>1. publishing' \subseteq publishing /\ UNCHANGED <<key, registering, store, sent>>
  BY DEF PublishReturns
<1>2. experiences \in Seq(Listed)
  BY DEF ExperienceInv, PageTyped
<1>3. /\ experiences' \in Seq(Listed)
      /\ DOMAIN experiences' = DOMAIN experiences
      /\ \A i \in DOMAIN experiences :
            /\ experiences'[i].key = experiences[i].key
            /\ \/ experiences'[i].status = experiences[i].status
               \/ call.done /\ experiences[i].key = call.key
  <2>1. CASE UNCHANGED experiences
    BY <1>2, <2>1
  <2>2. CASE /\ call.done
             /\ experiences' = [i \in DOMAIN experiences |->
                   IF experiences[i].key = call.key
                   THEN [experiences[i] EXCEPT !.status = "published"] ELSE experiences[i]]
    <3>1. \A r \in Listed : /\ [r EXCEPT !.status = "published"] \in Listed
                            /\ [r EXCEPT !.status = "published"].key = r.key
      BY DEF Listed
    <3>2. DOMAIN experiences = 1..Len(experiences) /\ Len(experiences) \in Nat
          /\ \A i \in DOMAIN experiences : experiences[i] \in Listed
      BY <1>2
    <3>3. /\ DOMAIN experiences' = DOMAIN experiences
          /\ \A i \in DOMAIN experiences :
                /\ experiences'[i] \in Listed
                /\ experiences'[i].key = experiences[i].key
                /\ \/ experiences'[i].status = experiences[i].status
                   \/ experiences[i].key = call.key
      BY <2>2, <3>1, <3>2
    <3>4. experiences' \in Seq(Listed)
      BY <2>2, <3>2, <3>3
    <3>5. QED BY <2>2, <3>3, <3>4
  <2>3. QED BY <2>1, <2>2 DEF PublishReturns
<1>4. PageTyped'
  BY <1>1, <1>3 DEF ExperienceInv, PageTyped
<1>5. RegisteringIsNew'
  BY <1>1, <1>3 DEF ExperienceInv, RegisteringIsNew, Rows
<1>6. PublishingIsListed'
  BY <1>1, <1>3 DEF ExperienceInv, PublishingIsListed, Rows
<1>7. RowsAreTrue'
  <2>1. call.done => store[call.key] = "published"
    BY DEF ExperienceInv, PublishingIsListed
  <2>2. QED BY <1>1, <1>3, <2>1 DEF ExperienceInv, RowsAreTrue, NoKey
<1>8. QED BY <1>4, <1>5, <1>6, <1>7 DEF ExperienceInv

LEMMA NextKeepsExperienceInv == ExperienceInv /\ [ExperienceNext]_experienceVars => ExperienceInv'
<1> SUFFICES ASSUME ExperienceInv, [ExperienceNext]_experienceVars PROVE ExperienceInv'
  OBVIOUS
<1>1. CASE Type \/ RegisterFails \/ UNCHANGED experienceVars
  <2>1. /\ key' \in Keys \cup {NoKey}
        /\ registering' \in {registering, <<>>}
        /\ UNCHANGED <<experiences, publishing, store, sent>>
    BY <1>1 DEF Type, RegisterFails, experienceVars, ExperienceInv, PageTyped
  <2>2. QED
    BY <2>1 DEF ExperienceInv, PageTyped, RegisteringIsNew, PublishingIsListed, RowsAreTrue, Rows
<1>2. CASE Register
  BY <1>2, RegisterKeepsInv
<1>3. CASE StoreRegisters
  BY <1>3, StoreRegistersKeepsInv
<1>4. CASE RegisterReturns
  BY <1>4, RegisterReturnsKeepsInv
<1>5. ASSUME NEW k \in Keys, Publish(k) PROVE ExperienceInv'
  BY <1>5, PublishKeepsInv
<1>6. ASSUME NEW call \in publishing, StorePublishes(call) \/ PublishReturns(call)
      PROVE  ExperienceInv'
  BY <1>6, StorePublishesKeepsInv, PublishReturnsKeepsInv
<1>7. QED
  BY <1>1, <1>2, <1>3, <1>4, <1>5, <1>6 DEF ExperienceNext

(* What the page shows as published is published and what it shows as a    *)
(* draft is there, in any order of answers and whichever are lost          *)
(* (PersonalizationPage.tsx, register and publish).                        *)
THEOREM ExperienceRowsAreTrue == ExperienceSpec => []RowsAreTrue
<1>1. ExperienceSpec => []ExperienceInv
  BY InitialExperienceInv, NextKeepsExperienceInv, PTL DEF ExperienceSpec
<1>2. ExperienceInv => RowsAreTrue
  BY DEF ExperienceInv
<1>3. QED BY <1>1, <1>2, PTL
=============================================================================
