---------------------------- MODULE MCSessions ----------------------------
(* Instances of Sessions for TLC: tabs of one browser, and calls of one    *)
(* tab.                                                                    *)
EXTENDS Sessions

CONSTANTS j1, t1

OneJar == [t \in Tab |-> j1]

FirstTab == [c \in Call |-> t1]
===========================================================================
