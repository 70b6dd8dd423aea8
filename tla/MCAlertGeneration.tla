------------------------- MODULE MCAlertGeneration -------------------------
(* Instances of AlertGeneration for TLC. *)
EXTENDS AlertGeneration, TLC

CONSTANTS s1, s2, u1, u2

OneOwner == [s \in Sub |-> u1]

TwoOwners == [s \in Sub |-> IF s = s1 THEN u1 ELSE u2]

Symmetry == Permutations(Sub)
=============================================================================
