---------------------------- MODULE PlaidFeed ----------------------------
(***************************************************************************)
(* The transactions of one linked Item as Plaid keeps them: external to    *)
(* src/, modelled from how services/plaid_service.py uses the              *)
(* /transactions/sync endpoint.  A sync cursor names a point of the Item's *)
(* history, so the history is a sequence of snapshots and a cursor is a    *)
(* position in it; position 1 is the empty history that cursor=None reads  *)
(* from.  A snapshot gives the version of each transaction, NoRow for a    *)
(* transaction that does not exist.                                        *)
(***************************************************************************)
EXTENDS Naturals, Sequences

CONSTANTS
    Txn,     \* Plaid transaction ids of the Item
    MaxFeed  \* bound on the length of the history

ASSUME MaxFeedAssumption == MaxFeed \in Nat \ {0}

VARIABLE feed

NoRow == 0

Snapshot == [Txn -> 0..MaxFeed]

Now == Len(feed)

FeedInit == feed = << [t \in Txn |-> NoRow] >>

\* The bank reports a new transaction, or corrects one (pending to posted,
\* a new amount): the version is the position it appears at, so it is fresh.
Change(t) ==
    /\ Now < MaxFeed
    /\ feed' = Append(feed, [feed[Now] EXCEPT ![t] = Now + 1])

Remove(t) ==
    /\ Now < MaxFeed
    /\ feed[Now][t] # NoRow
    /\ feed' = Append(feed, [feed[Now] EXCEPT ![t] = NoRow])

FeedNext == \E t \in Txn : Change(t) \/ Remove(t)

(***************************************************************************)
(* What /transactions/sync answers, over all its pages, for a cursor at    *)
(* position i when the history is at position j: the transactions whose    *)
(* version at j is new to the reader (added and modified together), and    *)
(* every id that existed since the cursor and is gone at j.                *)
(***************************************************************************)
Changed(i, j) == {t \in Txn : feed[j][t] # NoRow /\ feed[j][t] # feed[i][t]}

Removed(i, j) ==
    {t \in Txn : feed[j][t] = NoRow /\ \E p \in i..j : feed[p][t] # NoRow}

Added(i, j) == {t \in Changed(i, j) : feed[i][t] = NoRow}
==========================================================================
