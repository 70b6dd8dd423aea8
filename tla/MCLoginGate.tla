---------------------------- MODULE MCLoginGate ----------------------------
(* Instances of LoginGate for TLC. *)
EXTENDS LoginGate, TLC

CONSTANTS r1, r2, p1, p2, s1, k1, l1

Symmetry == Permutations(Request) \cup Permutations(Password)
===========================================================================
