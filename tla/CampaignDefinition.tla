------------------------- MODULE CampaignDefinition -------------------------
(***************************************************************************)
(* What an edited campaign does to its users' buckets: allocation is       *)
(* recomputed from (campaign id, user) at every run, nothing remembers the *)
(* bucket a user had in the run before (allocator.py, models.py).          *)
(***************************************************************************)
EXTENDS Allocation

(* A campaign keeps its id while its definition changes: every run of      *)
(* /campaigns/run carries its own control_pct and variants (Campaign and   *)
(* Variant accept what __post_init__ lets through).                        *)
CONSTANTS MaxVariants, MaxWeight

ASSUME CampaignAssumption == MaxVariants \in Nat \ {0} /\ MaxWeight \in Nat \ {0}

VARIABLES control, weights

Definition == <<control, weights>>

Splits == UNION {[1..n -> 1..MaxWeight] : n \in 1..MaxVariants}

AllocInit == control \in Share /\ weights \in Splits

Redefine == control' \in Share /\ weights' \in Splits

AllocSpec == AllocInit /\ [][Redefine]_Definition

Bucket(frac) == Assign(frac, control, weights)
-----------------------------------------------------------------------------
(* The buckets lie on the line in their order, control first: no variant's *)
(* users are split in two by another's.                                    *)
LayoutOrdered == \A f, g \in Fraction : f <= g => Bucket(f) <= Bucket(g)

(* Every variant gets its share of what the hold-out leaves, to within one *)
(* point of the line; the hold-out gets exactly control_pct.               *)
SharesAreFair ==
    LET Size(b) == Cardinality({f \in Fraction \ {Scale} : Bucket(f) = b})
        T == TotalWeight(weights)
    IN  /\ Size(Control) = control
        /\ \A i \in 1..Len(weights) :
              LET drift == Size(i) * T - (Scale - control) * weights[i]
              IN  -T < drift /\ drift < T

(* Raising control_pct between two runs never takes a user out of the      *)
(* control group, and moves the others only to earlier variants.           *)
RampUpKeepsControl ==
    [][(control' > control /\ weights' = weights)
         => \A f \in Fraction : Bucket(f)' <= Bucket(f)]_Definition

(* "relative weight (need not sum to 1 ...)" (models.py): multiplying all  *)
(* weights by the same factor reallocates nobody.                          *)
WeightsAreRelative ==
    [][(/\ control' = control /\ weights' # weights /\ Len(weights') = Len(weights)
        /\ \A i, j \in 1..Len(weights) : weights'[i] * weights[j] = weights[i] * weights'[j])
         => \A f \in Fraction : Bucket(f)' = Bucket(f)]_Definition

(* Adding a variant at the end takes users from the variants before it and *)
(* never moves one of them to an earlier variant, nor the control group.   *)
NewVariantOnlyTakes ==
    [][(/\ control' = control /\ Len(weights') = Len(weights) + 1
        /\ SubSeq(weights', 1, Len(weights)) = weights)
         => \A f \in Fraction : Bucket(f)' >= Bucket(f)
                                /\ (Bucket(f) = Control <=> Bucket(f)' = Control)]_Definition

(* A campaign's buckets lie in order on the line and are fair to within a  *)
(* point; raising the hold-out, scaling the weights or appending a variant *)
(* moves only the users it has to (allocator.py recomputes every bucket).  *)
EditsMoveFewUsers ==
    [](LayoutOrdered /\ SharesAreFair)
    /\ RampUpKeepsControl /\ WeightsAreRelative /\ NewVariantOnlyTakes
=============================================================================
