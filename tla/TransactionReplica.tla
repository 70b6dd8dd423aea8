------------------------ MODULE TransactionReplica ------------------------
(***************************************************************************)
(* What the transactions table promises about a linked account, whatever   *)
(* fails on the way: it is a replica of Plaid's history that is never      *)
(* staler than the stored cursor, and the cursor only moves forward.  So   *)
(* the next sync, which asks Plaid for everything after the cursor, brings *)
(* whatever the table lacks.                                               *)
(***************************************************************************)
EXTENDS PlaidFeed

VARIABLES
    table,   \* version of each transaction in the transactions table
    cursor   \* linked_accounts.sync_cursor, as a position of the feed

\* A row written half: its amount is of one version, its other columns of another.
Torn == MaxFeed + 1

\* A row as Plaid had it at the cursor or later, ...
Current(t) == \E p \in cursor..Now : table[t] = feed[p][t]

\* ... or a torn row that the history after the cursor is bound to replace.
DueForRewrite(t) ==
    /\ table[t] = Torn
    /\ \E p \in cursor..Now : feed[p][t] # feed[cursor][t]

FreshRows == \A t \in Txn : Current(t) \/ DueForRewrite(t)

Rows == [Txn -> 0..Torn]

Init ==
    /\ FeedInit
    /\ table = [t \in Txn |-> NoRow]
    /\ cursor = 1

\* A sync writes rows and possibly moves the cursor, in one step.
Write ==
    /\ cursor' \in cursor..Now
    /\ table' \in Rows
    /\ FreshRows'
    /\ UNCHANGED feed

Next == (FeedNext /\ UNCHANGED <<table, cursor>>) \/ Write

Spec == Init /\ [][Next]_<<feed, table, cursor>>
==========================================================================
