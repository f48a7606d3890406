---------------------------- MODULE TouchBudget ----------------------------
(***************************************************************************)
(* What checking a budget against a snapshot and spending it later can     *)
(* promise.  A worker looks at the touches made so far, takes the slots    *)
(* still under the cap as its due, and touches (or drops) them one by one  *)
(* while other workers do the same.  The frequency cap and the campaign    *)
(* dedup of the orchestration component are two instances of it: a slot is *)
(* what the budget is kept for, a user's day or a user's day in a campaign.*)
(***************************************************************************)
EXTENDS Integers, FiniteSets

CONSTANTS
    Workers,  \* who spends
    Slots,    \* what has a budget
    Cap       \* touches a slot is meant to get

ASSUME BudgetAssumption ==
    /\ IsFiniteSet(Workers)
    /\ Workers # {}
    /\ Cap \in Nat

VARIABLES
    touches,  \* touches each slot has had
    due       \* slots each worker may still touch

budgetVars == <<touches, due>>

BudgetTypeOK ==
    /\ touches \in [Slots -> Nat]
    /\ due \in [Workers -> SUBSET Slots]

BudgetInit ==
    /\ touches = [s \in Slots |-> 0]
    /\ due = [w \in Workers |-> {}]

(* A bug to compare with: a cap that admits a slot already at it.          *)
OpenInclusive(w) ==
    /\ due[w] = {}
    /\ \E S \in SUBSET {s \in Slots : touches[s] <= Cap} : due' = [due EXCEPT ![w] = S]
    /\ UNCHANGED touches

(* Worker w, with nothing due, takes slots it sees under the cap.          *)
Open(w) ==
    /\ due[w] = {}
    /\ \E S \in SUBSET {s \in Slots : touches[s] < Cap} : due' = [due EXCEPT ![w] = S]
    /\ UNCHANGED touches

Touch(w, s) ==
    /\ s \in due[w]
    /\ touches' = [touches EXCEPT ![s] = @ + 1]
    /\ due' = [due EXCEPT ![w] = @ \ {s}]

Drop(w, s) ==
    /\ s \in due[w]
    /\ due' = [due EXCEPT ![w] = @ \ {s}]
    /\ UNCHANGED touches

BudgetNext ==
    \E w \in Workers : Open(w) \/ \E s \in Slots : Touch(w, s) \/ Drop(w, s)

BudgetSpec == BudgetInit /\ [][BudgetNext]_budgetVars
-----------------------------------------------------------------------------
Holders(s) == {w \in Workers : s \in due[w]}

(* The strengthening that makes the bound inductive: touches made and      *)
(* touches still due, together.                                            *)
Committed ==
    \A s \in Slots :
        touches[s] + Cardinality(Holders(s)) <= Cap + Cardinality(Workers) - 1

(* A slot gets at most one touch beyond its cap for each further worker: a *)
(* single worker keeps the cap exactly.                                    *)
OvershootBound ==
    \A s \in Slots : touches[s] <= Cap + Cardinality(Workers) - 1
=============================================================================
