---------------------------- MODULE AudiencePage ----------------------------
(***************************************************************************)
(* The console's audience page                                             *)
(* (src/frontend/src/features/audience/AudiencePage.tsx): the debounced    *)
(* estimate of the audience's size, the translation of a sentence and the  *)
(* compilation, each with answers that come when they come.                *)
(*                                                                         *)
(* JavaScript runs one handler at a time: an action is an event the        *)
(* browser delivers, with what React does before the next one.  After a    *)
(* click or a key the effects of the change run at once; after the answer  *)
(* to a translation they run in a later task (effectDue).                  *)
(*                                                                         *)
(* A spec is [name, match]; of a match only whether it is empty counts,    *)
(* and what its size is.                                                   *)
(***************************************************************************)
EXTENDS Integers, FiniteSets

CONSTANTS Matches,      \* the rules other than the empty one
          Names,        \* the name of a selected template, or the default
          SizeOf        \* the number of users a match has

VARIABLES spec,         \* what the builder and the template list show
          effectDue,    \* spec has changed and its effect has not run
          timer,        \* the spec the debounced estimate waits with
          calls,        \* estimates under way, [spec, alive]
          size, sizeError, sizeLoading,
          translating,  \* is a translation under way (nlLoading)?
          compiling,    \* the spec being compiled (None: not sqlLoading)
          sql           \* the spec whose compilation is shown

estimate == <<timer, calls, size, sizeError, sizeLoading>>
vars == <<spec, effectDue, estimate, translating, compiling, sql>>

None == [name |-> "none", match |-> "none"]
NoSize == -1
EmptyMatch == "empty"
DefaultName == "audience-segment"

ASSUME AudienceAssumption ==
    /\ {EmptyMatch, "none"} \cap Matches = {}
    /\ DefaultName \in Names
    /\ SizeOf \in [Matches -> Nat]

Init ==
    /\ spec = [name |-> DefaultName, match |-> EmptyMatch]
    /\ effectDue = FALSE
    /\ timer = None /\ calls = {}
    /\ size = NoSize /\ sizeError = FALSE /\ sizeLoading = FALSE
    /\ translating = FALSE
    /\ compiling = None /\ sql = None
-----------------------------------------------------------------------------
(* A bug to compare with: an effect that leaves nothing to clean up.       *)
CleanedNothing(underWay) == underWay

(* The cleanup of the effect before: its answer will not be looked at.     *)
Cleaned(underWay) == {[c EXCEPT !.alive = FALSE] : c \in underWay}

(* The effect of a change to s: an empty rule is not estimated.            *)
RunEffect(s) ==
    /\ effectDue' = FALSE
    /\ calls' = Cleaned(calls)
    /\ IF s.match = EmptyMatch
       THEN /\ size' = NoSize /\ sizeError' = FALSE
            /\ timer' = None
       ELSE /\ timer' = s
            /\ UNCHANGED <<size, sizeError>>
    /\ UNCHANGED sizeLoading

(* The user edits the rule, or selects a template (which changes the name  *)
(* alone).  Any edit gives a new query, also one that reads the same.      *)
Edit == \E m \in Matches \cup {EmptyMatch} :
    /\ spec' = [spec EXCEPT !.match = m]
    /\ RunEffect(spec')
    /\ UNCHANGED <<translating, compiling, sql>>

SelectTemplate == \E n \in Names \ {DefaultName, spec.name} :
    /\ spec' = [spec EXCEPT !.name = n]
    /\ RunEffect(spec')
    /\ UNCHANGED <<translating, compiling, sql>>

(* A bug to compare with: the error of the estimate before stays.          *)
FireKeepsError ==
    /\ timer # None
    /\ timer' = None
    /\ sizeLoading' = TRUE
    /\ calls' = calls \cup {[spec |-> timer, alive |-> TRUE]}
    /\ UNCHANGED <<spec, effectDue, size, sizeError, translating, compiling, sql>>

(* The debounced estimate is sent after 400 ms without a change.           *)
Fire ==
    /\ timer # None
    /\ timer' = None
    /\ sizeLoading' = TRUE /\ sizeError' = FALSE
    /\ calls' = calls \cup {[spec |-> timer, alive |-> TRUE]}
    /\ UNCHANGED <<spec, effectDue, size, translating, compiling, sql>>

(* An estimate comes back, or fails (then or catch, and finally).          *)
Answer == \E c \in calls, ok \in BOOLEAN :
    /\ calls' = calls \ {c}
    /\ IF c.alive
       THEN /\ size' = IF ok THEN SizeOf[c.spec.match] ELSE NoSize
            /\ sizeError' = (sizeError \/ ~ok)
            /\ sizeLoading' = FALSE
       ELSE UNCHANGED <<size, sizeError, sizeLoading>>
    /\ UNCHANGED <<spec, effectDue, timer, translating, compiling, sql>>

(* handleTranslate: the button is disabled while it loads; what was        *)
(* translated replaces whatever the builder shows by then.                 *)
Translate ==
    /\ ~translating
    /\ translating' = TRUE
    /\ UNCHANGED <<spec, effectDue, estimate, compiling, sql>>

TranslateReturns ==
    /\ translating
    /\ translating' = FALSE
    /\ \E m \in Matches \cup {EmptyMatch} :
          spec' = [spec EXCEPT !.match = m] /\ effectDue' = TRUE
    /\ UNCHANGED <<estimate, compiling, sql>>

TranslateFails ==
    /\ translating
    /\ translating' = FALSE
    /\ UNCHANGED <<spec, effectDue, estimate, compiling, sql>>

Effect ==
    /\ effectDue
    /\ RunEffect(spec)
    /\ UNCHANGED <<spec, translating, compiling, sql>>

(* handleCompile, of the spec that is shown when the button is pressed.    *)
Compile ==
    /\ compiling = None
    /\ compiling' = spec
    /\ UNCHANGED <<spec, effectDue, estimate, translating, sql>>

CompileReturns ==
    /\ compiling # None
    /\ compiling' = None
    /\ sql' \in {compiling, sql}        \* sql: it has failed
    /\ UNCHANGED <<spec, effectDue, estimate, translating>>

Browser == Fire \/ Answer \/ Effect
Next == \/ Edit \/ SelectTemplate \/ Translate \/ Compile
        \/ Browser \/ TranslateReturns \/ TranslateFails \/ CompileReturns

Spec == Init /\ [][Next]_vars
-----------------------------------------------------------------------------
Alive == {c \in calls : c.alive}
AtRest == timer = None /\ Alive = {} /\ ~effectDue

(* Once nothing more is to come, the size that is shown is the one of the  *)
(* rule that is shown, or the estimate has failed; an empty rule has none. *)
(* No edit, late answer or translation leaves another rule's size behind,  *)
(* nor a spinner over a rule that is not empty.                            *)
SettledShowsCurrent ==
    AtRest => IF spec.match = EmptyMatch THEN size = NoSize /\ ~sizeError
              ELSE ~sizeLoading /\ IF sizeError THEN size = NoSize ELSE size = SizeOf[spec.match]

(* At most one estimate is waited for, and it is that of the spec on       *)
(* screen, but for the moment in which a translation has changed it.       *)
OneEstimateAwaited ==
    /\ timer # None => Alive = {}
    /\ \A c, d \in Alive : c = d
    /\ ~effectDue => timer \in {None, spec} /\ \A c \in Alive : c.spec = spec

(* "Skip estimation for an empty query (no rules to size)": nothing is     *)
(* estimated, and nothing says so.                                         *)
EmptyIsNotEstimated == spec.match = EmptyMatch /\ AtRest => ~sizeLoading
=============================================================================
