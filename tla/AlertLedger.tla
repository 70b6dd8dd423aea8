---------------------------- MODULE AlertLedger ----------------------------
(***************************************************************************)
(* What alert generation promises (services/alert_service.py), whoever     *)
(* runs it and however often: a charge that has no alert may get one, and  *)
(* each alert answers for at most one line of one email.                   *)
(***************************************************************************)
EXTENDS Naturals

CONSTANT Charge   \* a subscription with one of its due dates

VARIABLES
    alert,    \* alert[c]: "none", "unread" or "read"
    owed,     \* owed[c]: alerts of c whose email is still to come
    emailed   \* emailed[c]: emails that announced c

ledger == <<alert, owed, emailed>>

Init ==
    /\ alert = [c \in Charge |-> "none"]
    /\ owed = [c \in Charge |-> 0]
    /\ emailed = [c \in Charge |-> 0]

Plus(f, C) == [c \in Charge |-> IF c \in C THEN f[c] + 1 ELSE f[c]]

Minus(f, C) == [c \in Charge |-> IF c \in C THEN f[c] - 1 ELSE f[c]]

\* Some charges are announced.
Announce(C) ==
    /\ \A c \in C : alert[c] = "none"
    /\ alert' = [c \in Charge |-> IF c \in C THEN "unread" ELSE alert[c]]
    /\ owed' = Plus(owed, C)
    /\ UNCHANGED emailed

\* An email goes out, or never will.
Email(C) ==
    /\ \A c \in C : owed[c] > 0
    /\ owed' = Minus(owed, C)
    /\ emailed' = Plus(emailed, C)
    /\ UNCHANGED alert

GiveUp(C) ==
    /\ \A c \in C : owed[c] > 0
    /\ owed' = Minus(owed, C)
    /\ UNCHANGED <<alert, emailed>>

\* The user reads or removes alerts; only a removed one can come again.
MarkRead(c) ==
    /\ alert[c] # "none"
    /\ alert' = [alert EXCEPT ![c] = "read"]
    /\ UNCHANGED <<owed, emailed>>

Drop(C) ==
    /\ alert' = [c \in Charge |-> IF c \in C THEN "none" ELSE alert[c]]
    /\ UNCHANGED <<owed, emailed>>

Next ==
    \/ \E C \in SUBSET Charge : Announce(C) \/ Email(C) \/ GiveUp(C) \/ Drop(C)
    \/ \E c \in Charge : MarkRead(c)

Spec == Init /\ [][Next]_ledger
=============================================================================
