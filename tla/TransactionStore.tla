------------------------- MODULE TransactionStore -------------------------
(***************************************************************************)
(* services/transaction_store.py over services/plaid_service.py: one       *)
(* linked account, its cursor and connection status, its rows of the       *)
(* transactions table, and the database sessions that sync them.  A sync   *)
(* holds no lock and no database connection while it talks to Plaid, so    *)
(* the history, the status and (when two syncs overlap) the table move     *)
(* under it.  Plaid is the module PlaidFeed, the Item's health and its     *)
(* ITEM webhooks: external.                                                *)
(***************************************************************************)
EXTENDS PlaidFeed, FiniteSets

CONSTANTS
    Session,       \* database sessions that may run a sync of this account
    PageSize,      \* entries Plaid puts in one page (_PAGE_SIZE)
    Serialized,    \* TRUE: syncs of one Item never overlap, which is what the
                   \* arq job id of services/job_queue.py provides
    MalformedRows  \* TRUE: Plaid may send a row whose fields do not parse

ASSUME StoreAssumption ==
    /\ PageSize \in Nat \ {0}
    /\ Serialized \in BOOLEAN
    /\ MalformedRows \in BOOLEAN

VARIABLES
    table,      \* version of each transaction in the transactions table
    cursor,     \* linked_accounts.sync_cursor, as a position of the feed
    status,     \* linked_accounts.status
    health,     \* whether the bank still accepts the Item's credentials
    itemHooks,  \* ITEM webhooks about health that Plaid may deliver, again and
                \* in any order
    run         \* run[s]: the sync that session s executes

plaidVars == <<feed, health, itemHooks>>
rowVars == <<table, cursor, status>>
vars == <<feed, table, cursor, status, health, itemHooks, run>>

Replica == INSTANCE TransactionReplica

Torn == Replica!Torn

Status == {"active", "pending_expiration", "login_required", "revoked"}

Empty == [t \in Txn |-> NoRow]

(***************************************************************************)
(* A sync: the cursor and status its session loaded with the account, the  *)
(* attempt of _sync_transactions_blocking, the position that pagination is *)
(* pinned to (0 before the first page), what Plaid has not delivered yet,  *)
(* the lists gathered so far, and the rows read before they are applied.   *)
(***************************************************************************)
Run == [pc      : {"idle", "paging", "fetched", "applying"},
        cur     : Nat,
        st      : Status,
        attempt : {1, 2},
        mark    : Nat,
        todo    : SUBSET Txn,
        changed : [Txn -> 0..MaxFeed],
        removed : SUBSET Txn,
        seen    : Replica!Rows]

IdleRun == [pc |-> "idle", cur |-> 1, st |-> "active", attempt |-> 1, mark |-> 0,
            todo |-> {}, changed |-> Empty, removed |-> {}, seen |-> Empty]

Active(s) == run[s].pc # "idle"

Listed(r) == {t \in Txn : r.changed[t] # NoRow}

Init ==
    /\ FeedInit
    /\ table = Empty
    /\ cursor = 1
    /\ status = "active"
    /\ health = "ok"
    /\ itemHooks = {}
    /\ run = [s \in Session |-> IdleRun]

---------------------------------------------------------------------------
(* Plaid and the bank *)

PlaidChanges == FeedNext /\ UNCHANGED <<table, cursor, status, health, itemHooks, run>>

ItemBreaks ==
    /\ health = "ok"
    /\ health' = "login_required"
    /\ itemHooks' = itemHooks \cup {"login_required"}
    /\ UNCHANGED <<feed, table, cursor, status, run>>

ItemRepaired ==
    /\ health = "login_required"
    /\ health' = "ok"
    /\ itemHooks' = itemHooks \cup {"active"}
    /\ UNCHANGED <<feed, table, cursor, status, run>>

\* _handle_item: the status is overwritten whatever it was.  An expiration or a
\* revocation may be announced at any time.
ItemWebhook(v) ==
    /\ v \in itemHooks \cup {"pending_expiration", "revoked"}
    /\ status' = v
    /\ itemHooks' \in {itemHooks, itemHooks \ {v}}
    /\ UNCHANGED <<feed, table, cursor, health, run>>

---------------------------------------------------------------------------
(* The sync *)

\* The session loads the account; later reads of its columns come from this copy.
Load(s) ==
    /\ ~Active(s)
    /\ Serialized => \A o \in Session : ~Active(o)
    /\ run' = [run EXCEPT ![s] = [IdleRun EXCEPT !.pc = "paging", !.cur = cursor,
                                                 !.st = status]]
    /\ UNCHANGED <<feed, table, cursor, status, health, itemHooks>>

\* One page.  The first pins the position that the pages are a difference to.
FetchPage(s) ==
    LET r == run[s]
        due == IF r.mark = 0 THEN Changed(r.cur, Now) \cup Removed(r.cur, Now) ELSE r.todo
    IN  /\ r.pc = "paging"
        /\ health = "ok"
        /\ r.mark \in {0, Now}
        /\ \E page \in SUBSET due :
              /\ IF Cardinality(due) <= PageSize THEN page = due
                                                 ELSE Cardinality(page) = PageSize
              /\ run' = [run EXCEPT ![s] =
                    [r EXCEPT !.pc = IF page = due THEN "fetched" ELSE "paging",
                              !.mark = Now,
                              !.todo = due \ page,
                              !.changed = [t \in Txn |->
                                  IF t \in page \cap Changed(r.cur, Now)
                                  THEN feed[Now][t] ELSE r.changed[t]],
                              !.removed = r.removed \cup (page \cap Removed(r.cur, Now))]]
        /\ UNCHANGED <<feed, table, cursor, status, health, itemHooks>>

\* Mutant: no limit on the restarts.
PageMutatedForever(s) ==
    /\ run[s].pc = "paging"
    /\ run[s].mark \notin {0, Now}
    /\ run' = [run EXCEPT ![s].attempt = @ + 1, ![s].mark = 0, ![s].todo = {},
                         ![s].changed = Empty, ![s].removed = {}]
    /\ UNCHANGED <<feed, table, cursor, status, health, itemHooks>>

\* TRANSACTIONS_SYNC_MUTATION_DURING_PAGINATION: start over once, from the
\* loaded cursor and with nothing gathered; the second time it is an error.
PageMutated(s) ==
    /\ run[s].pc = "paging"
    /\ run[s].mark \notin {0, Now}
    /\ run' = [run EXCEPT ![s] =
          IF @.attempt = 1
          THEN [@ EXCEPT !.attempt = 2, !.mark = 0, !.todo = {},
                         !.changed = Empty, !.removed = {}]
          ELSE IdleRun]
    /\ UNCHANGED <<feed, table, cursor, status, health, itemHooks>>

\* Mutant: an Item that is not ready restarts from cursor None, synced or not.
NotReadyForgets(s) ==
    /\ run[s].pc = "paging"
    /\ run[s].mark = 0
    /\ run' = [run EXCEPT ![s].pc = "fetched", ![s].mark = 1]
    /\ UNCHANGED <<feed, table, cursor, status, health, itemHooks>>

\* PRODUCT_NOT_READY before the first pull: success with nothing changed.
NotReady(s) ==
    /\ run[s].pc = "paging"
    /\ run[s].cur = 1
    /\ run[s].mark = 0
    /\ run' = [run EXCEPT ![s].pc = "fetched", ![s].mark = 1]
    /\ UNCHANGED <<feed, table, cursor, status, health, itemHooks>>

\* The column is written only when it differs from the loaded copy: the
\* session emits an UPDATE for the attributes that changed.
WriteStatus(s, v) == status' = IF run[s].st # v THEN v ELSE status

LoginRequired(s) ==
    /\ run[s].pc = "paging"
    /\ health = "login_required"
    /\ WriteStatus(s, "login_required")
    /\ run' = [run EXCEPT ![s] = IdleRun]
    /\ UNCHANGED <<feed, table, cursor, health, itemHooks>>

ReadExisting(s) ==
    /\ run[s].pc = "fetched"
    /\ run' = [run EXCEPT ![s].pc = "applying", ![s].seen = table]
    /\ UNCHANGED <<feed, table, cursor, status, health, itemHooks>>

\* An insert (which a concurrent insert turns into an update of the winning
\* row) or an update of a column that differs from the row that was read.
Writes(r, t) == r.seen[t] = NoRow \/ r.changed[t] # r.seen[t]

\* The row to update was deleted by another sync since it was read: the flush
\* fails, and with it the commit of everything else.
StaleRow(r, t) == r.seen[t] # NoRow /\ r.changed[t] # r.seen[t] /\ table[t] = NoRow

Apply(r, T) ==
    [t \in Txn |-> IF t \in T /\ Writes(r, t) THEN r.changed[t] ELSE table[t]]

\* Rows, removals, cursor and status in one commit.
Commit(s) ==
    LET r == run[s]
        applied == Apply(r, Listed(r))
    IN  /\ r.pc = "applying"
        /\ \A t \in Listed(r) : ~StaleRow(r, t)
        /\ table' = [t \in Txn |-> IF t \in r.removed THEN NoRow ELSE applied[t]]
        /\ cursor' = IF r.mark # r.cur THEN r.mark ELSE cursor
        /\ WriteStatus(s, "active")
        /\ run' = [run EXCEPT ![s] = IdleRun]
        /\ UNCHANGED <<feed, health, itemHooks>>

\* Mutant: the cursor is assigned before the rows, so a half-way failure
\* persists it.
ApplyFailsAfterCursor(s) ==
    /\ MalformedRows
    /\ run[s].pc = "applying"
    /\ \E T \in SUBSET Listed(run[s]) : table' = Apply(run[s], T)
    /\ cursor' = run[s].mark
    /\ run' = [run EXCEPT ![s] = IdleRun]
    /\ UNCHANGED <<feed, status, health, itemHooks>>

\* A field of bad does not parse.  The rows before it (added before modified)
\* are in the session, and bad, if it exists, may have its amount assigned;
\* the handler's commit of sync_status = "error" persists them, without the
\* removals and the cursor.
ApplyFails(s) ==
    LET r == run[s]
        added == Listed(r) \cap Added(r.cur, r.mark)
    IN  /\ MalformedRows
        /\ r.pc = "applying"
        /\ \E bad \in Listed(r) : \E T \in SUBSET (Listed(r) \ {bad}) :
              /\ IF bad \in added THEN T \subseteq added ELSE added \subseteq T
              /\ \A t \in T : ~StaleRow(r, t)
              /\ \/ table' = Apply(r, T)
                 \/ /\ r.seen[bad] # NoRow /\ table[bad] # NoRow
                    /\ table' = [Apply(r, T) EXCEPT ![bad] = Torn]
        /\ run' = [run EXCEPT ![s] = IdleRun]
        /\ UNCHANGED <<feed, cursor, status, health, itemHooks>>

\* Any other error, a job timeout or a dead worker: nothing is committed.
Abandon(s) ==
    /\ Active(s)
    /\ run' = [run EXCEPT ![s] = IdleRun]
    /\ UNCHANGED <<feed, table, cursor, status, health, itemHooks>>

Sync(s) ==
    \/ Load(s) \/ FetchPage(s) \/ PageMutated(s) \/ NotReady(s) \/ LoginRequired(s)
    \/ ReadExisting(s) \/ Commit(s) \/ ApplyFails(s) \/ Abandon(s)

ItemEvent ==
    \/ ItemBreaks \/ ItemRepaired
    \/ \E v \in Status : ItemWebhook(v)

Next == PlaidChanges \/ ItemEvent \/ \E s \in Session : Sync(s)

Spec == Init /\ [][Next]_vars

---------------------------------------------------------------------------
(* Properties *)

\* Every variable has its type; no cursor is ahead of the feed.
TypeOK ==
    /\ feed \in Seq(Snapshot) /\ Now \in 1..MaxFeed
    /\ table \in Replica!Rows
    /\ cursor \in 1..Now
    /\ status \in Status
    /\ health \in {"ok", "login_required"}
    /\ itemHooks \subseteq {"active", "login_required"}
    /\ run \in [Session -> Run]
    /\ \A s \in Session : run[s].cur \in 1..Now /\ run[s].mark \in 0..Now

\* Whatever pages, restarts and early answers came, the lists a sync is about
\* to apply are exactly the difference from the cursor it loaded to the cursor
\* it will store: nothing of an abandoned pagination is left in them
\* (_sync_transactions_once, _sync_transactions_blocking).
FetchExact ==
    \A s \in Session : run[s].pc \in {"fetched", "applying"} =>
        /\ \A t \in Txn : run[s].changed[t] =
              IF t \in Changed(run[s].cur, run[s].mark) THEN feed[run[s].mark][t] ELSE NoRow
        /\ run[s].removed = Removed(run[s].cur, run[s].mark)

\* No row of the table is staler than the stored cursor, so no later sync can
\* miss an update: the cursor is only persisted together with the rows it
\* represents, through failed, partial and abandoned syncs
\* (sync_account_transactions, docstring).
FreshRows == Replica!FreshRows

\* The table and its cursor are a replica of Plaid's history that only moves
\* forward, whatever fails (sync_account_transactions).
ReplicaSpec == Replica!Spec
==========================================================================
