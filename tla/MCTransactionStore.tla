------------------------ MODULE MCTransactionStore ------------------------
(* Instances of TransactionStore for TLC. *)
EXTENDS TransactionStore, TLC

\* Nothing in the module names a transaction or a session.
Symmetry == Permutations(Txn) \cup Permutations(Session)
==========================================================================
