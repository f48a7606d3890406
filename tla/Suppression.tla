---------------------------- MODULE Suppression ----------------------------
(***************************************************************************)
(* The suppression list (src/src/data_foundation/suppression.py): the      *)
(* customers that have converted, added to while lists are filtered.       *)
(***************************************************************************)
EXTENDS Sequences, FiniteSets

(* Targets: the lists to filter.  NoCustomer: the blank id.                *)
CONSTANTS Customers, Targets, NoCustomer

ASSUME SuppressionAssumption == Targets \subseteq Seq(Customers)

VARIABLES converted,  (* the set                                           *)
          filter      (* the filter under way, and what was known before   *)

suppressionVars == <<converted, filter>>

NoFilter == [left |-> <<>>, kept |-> <<>>, suppressed |-> <<>>, known |-> {}]

(* from_conversions, of what has happened so far; blank ids are not kept.  *)
SuppressionInit == /\ converted \in SUBSET (Customers \ {NoCustomer})
                   /\ filter = NoFilter

(* SuppressionList.add; blank ids are not kept.                            *)
Convert(customer) ==
    /\ converted' = converted \cup ({customer} \ {NoCustomer})
    /\ UNCHANGED filter

StartFilter(targets) ==
    /\ filter.left = <<>>
    /\ filter' = [NoFilter EXCEPT !.left = targets, !.known = converted]
    /\ UNCHANGED converted

(* A bug to compare with: the two lists swapped.                           *)
FilterOneSwapped ==
    /\ filter.left # <<>>
    /\ LET customer == Head(filter.left)
       IN  filter' = [filter EXCEPT !.left = Tail(@),
                !.kept = IF customer \in converted THEN Append(@, customer) ELSE @,
                !.suppressed = IF customer \in converted THEN @ ELSE Append(@, customer)]
    /\ UNCHANGED converted

(* One turn of filter's loop; conversions may come in between.             *)
FilterOne ==
    /\ filter.left # <<>>
    /\ LET customer == Head(filter.left)
       IN  filter' = [filter EXCEPT !.left = Tail(@),
                !.kept = IF customer \in converted THEN @ ELSE Append(@, customer),
                !.suppressed = IF customer \in converted THEN Append(@, customer) ELSE @]
    /\ UNCHANGED converted

SuppressionNext ==
    \/ \E customer \in Customers : Convert(customer)
    \/ \E targets \in Targets : StartFilter(targets)
    \/ FilterOne

SuppressionSpec == SuppressionInit /\ [][SuppressionNext]_suppressionVars
-----------------------------------------------------------------------------
(* Conversions that were known when a list came are all respected, whatever *)
(* converts meanwhile, and nobody is suppressed who has not converted.      *)
NeverKeepsConverted ==
    /\ \A i \in DOMAIN filter.kept : filter.kept[i] \notin filter.known
    /\ \A i \in DOMAIN filter.suppressed : filter.suppressed[i] \in converted \ {NoCustomer}
=============================================================================
