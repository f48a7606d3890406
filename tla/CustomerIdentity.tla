-------------------------- MODULE CustomerIdentity --------------------------
(***************************************************************************)
(* What identity resolution promises (id_mapping.py, its docstring): the   *)
(* ids fall into identities, merge unions two of them, and every id        *)
(* resolves to one representative of its identity, the smallest id.        *)
(***************************************************************************)
EXTENDS Naturals

CONSTANT Ids

VARIABLE representative

Smaller(a, b) == IF a <= b THEN a ELSE b

IdentityInit == representative = [i \in Ids |-> i]

Union(a, b) ==
    representative' = [i \in Ids |->
        IF representative[i] \in {representative[a], representative[b]}
        THEN Smaller(representative[a], representative[b])
        ELSE representative[i]]

IdentitySpec == IdentityInit /\ [][\E a, b \in Ids : Union(a, b)]_representative
=============================================================================
