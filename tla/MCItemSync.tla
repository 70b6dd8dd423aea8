---------------------------- MODULE MCItemSync ----------------------------
(* Instances of ItemSync for TLC. *)
EXTENDS ItemSync

CONSTANTS i1, i2, w1, w2

\* One Item whose jobs deliver or say why, one whose jobs may end without a word.
FaultsByItem ==
    [i \in Item |-> IF i = i1 THEN {"login_required", "error"} ELSE {"not_ready", "database", "cut"}]

\* Updates for the Item whose jobs deliver them.
HeadByItem == [i \in Item |-> IF i = i1 THEN 2 ELSE 0]
==========================================================================
