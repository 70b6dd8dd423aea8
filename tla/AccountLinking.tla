-------------------------- MODULE AccountLinking --------------------------
(***************************************************************************)
(* Linking and unlinking banks and deleting the account (routes/auth.py),  *)
(* for one user, while sync jobs store subscriptions                       *)
(* (services/subscription_sync.py) and the user removes some               *)
(* (routes/transactions.py).  Each linking makes a new Item at Plaid and a *)
(* new row.                                                                *)
(*                                                                         *)
(* A session reads committed rows and writes at its commit; PostgreSQL's   *)
(* row locks make each commit one step.  A subscription refers to its bank *)
(* by a foreign key that is set to null when the bank's row is deleted.    *)
(***************************************************************************)
EXTENDS Naturals, FiniteSets

CONSTANTS
    Account,     \* the Items, and the rows of linked_accounts, by linking
    NoAccount,   \* linked_account_id is null
    Merchant,    \* a subscription of the user is known by its merchant
    Request,     \* unlink requests that may overlap
    Syncing,     \* the accounts whose sync jobs run in this instance
    Faults,      \* what may go wrong in this instance, out of FaultKinds
    MaxFaults    \* bound on the faults

\* Plaid refuses, a request stops or its commit fails, the exchange's does.
FaultKinds == {"plaid", "stop", "exchange"}

ASSUME LinkingAssumption ==
    /\ NoAccount \notin Account
    /\ Syncing \subseteq Account
    /\ Faults \subseteq FaultKinds
    /\ MaxFaults \in Nat

VARIABLES
    item,     \* item[a]: the Item at Plaid
    row,      \* the rows of linked_accounts
    sub,      \* sub[m]: the row of subscriptions with source "plaid"
    present,  \* the user's row exists
    exchange, \* exchange[a]: how far the linking of a got
    unlink,   \* unlink[q]: unlink request q
    delete,   \* the delete-account request
    job,      \* job[a]: the sync job of account a
    faults

vars == <<item, row, sub, present, exchange, unlink, delete, job, faults>>

\* byUser: the user removed it (is_active alone does not tell).
Sub == [is : {"absent", "active", "inactive"}, bank : Account \cup {NoAccount},
        byUser : BOOLEAN]

Absent == [is |-> "absent", bank |-> NoAccount, byUser |-> FALSE]

\* From before rows were attributed to a bank.
Legacy == [Absent EXCEPT !.is = "active"]

\* alone, a history for the properties: nothing else was under way since it began.
Unlink == [pc : {"idle", "loaded", "revoked", "counted", "scanned"},
           acc : Account \cup {NoAccount}, last : BOOLEAN, subs : SUBSET Merchant,
           alone : BOOLEAN]

NoUnlink == [pc |-> "idle", acc |-> NoAccount, last |-> FALSE, subs |-> {}, alone |-> FALSE]

\* known, a history: the accounts whose linking was complete when it began.
Delete == [pc : {"idle", "revoking"}, todo : SUBSET Account, known : SUBSET Account]

NoDelete == [pc |-> "idle", todo |-> {}, known |-> {}]

Plan == [Merchant -> {"none", "insert", "backfill", "update"}]

Job == [pc : {"idle", "loaded", "planned"}, plan : Plan]

NoJob == [pc |-> "idle", plan |-> [m \in Merchant |-> "none"]]

Init ==
    /\ row \in SUBSET Account
    /\ item = [a \in Account |-> IF a \in row THEN "live" ELSE "none"]
    /\ sub \in [Merchant -> {Absent} \cup IF row = {} THEN {} ELSE {Legacy}]
    /\ present = TRUE
    /\ exchange = [a \in Account |-> IF a \in row THEN "linked" ELSE "none"]
    /\ unlink = [q \in Request |-> NoUnlink]
    /\ delete = NoDelete
    /\ job = [a \in Account |-> NoJob]
    /\ faults = 0

\* No request and no job is under way.
Quiet ==
    /\ \A a \in Account : exchange[a] # "pending"
    /\ \A q \in Request : unlink[q] = NoUnlink
    /\ delete = NoDelete
    /\ \A a \in Account : job[a] = NoJob

\* A request or job begins: no unlink under way is alone any more.
Overlap == unlink' = [q \in Request |-> [unlink[q] EXCEPT !.alone = FALSE]]

Fault(f) == f \in Faults /\ faults < MaxFaults /\ faults' = faults + 1

---------------------------------------------------------------------------
(* exchange_public_token *)

ExchangeToken(a) ==
    /\ present
    /\ item[a] = "none"
    /\ item' = [item EXCEPT ![a] = "live"]
    /\ exchange' = [exchange EXCEPT ![a] = "pending"]
    /\ Overlap
    /\ UNCHANGED <<row, sub, present, delete, job, faults>>

\* The insert violates the foreign key when the user is gone.
ExchangeCommit(a) ==
    /\ exchange[a] = "pending"
    /\ exchange' = [exchange EXCEPT ![a] = IF present THEN "linked" ELSE "broken"]
    /\ row' = IF present THEN row \cup {a} ELSE row
    /\ UNCHANGED <<item, sub, present, unlink, delete, job, faults>>

ExchangeFails(a) ==
    /\ exchange[a] = "pending"
    /\ Fault("exchange")
    /\ exchange' = [exchange EXCEPT ![a] = "broken"]
    /\ UNCHANGED <<item, row, sub, present, unlink, delete, job>>

---------------------------------------------------------------------------
(* unlink_account *)

UnlinkLoad(q, a) ==
    /\ present
    /\ a \in row
    /\ unlink[q] = NoUnlink
    /\ unlink' = [o \in Request |->
         IF o = q THEN [NoUnlink EXCEPT !.pc = "loaded", !.acc = a, !.alone = Quiet]
         ELSE [unlink[o] EXCEPT !.alone = FALSE]]
    /\ UNCHANGED <<item, row, sub, present, exchange, delete, job, faults>>

\* Mutant: an Item that is already gone is an error.
RevokeLive(q) ==
    /\ unlink[q].pc = "loaded"
    /\ IF item[unlink[q].acc] = "live"
       THEN /\ item' = [item EXCEPT ![unlink[q].acc] = "removed"]
            /\ unlink' = [unlink EXCEPT ![q].pc = "revoked"]
       ELSE unlink' = [unlink EXCEPT ![q] = NoUnlink] /\ UNCHANGED item
    /\ UNCHANGED <<row, sub, present, exchange, delete, job, faults>>

\* remove_item; an Item that is already gone is a success.
Revoke(q) ==
    /\ unlink[q].pc = "loaded"
    /\ item' = [item EXCEPT ![unlink[q].acc] = "removed"]
    /\ unlink' = [unlink EXCEPT ![q].pc = "revoked"]
    /\ UNCHANGED <<row, sub, present, exchange, delete, job, faults>>

RevokeRefused(q) ==
    /\ unlink[q].pc = "loaded"
    /\ Fault("plaid")
    /\ unlink' = [unlink EXCEPT ![q] = NoUnlink]
    /\ UNCHANGED <<item, row, sub, present, exchange, delete, job>>

\* Mutant: the account to unlink is not counted.
CountOthers(q) ==
    /\ unlink[q].pc = "revoked"
    /\ unlink' = [unlink EXCEPT
         ![q].pc = "counted", ![q].last = Cardinality(row \ {unlink[q].acc}) = 1]
    /\ UNCHANGED <<item, row, sub, present, exchange, delete, job, faults>>

Count(q) ==
    /\ unlink[q].pc = "revoked"
    /\ unlink' = [unlink EXCEPT ![q].pc = "counted", ![q].last = Cardinality(row) = 1]
    /\ UNCHANGED <<item, row, sub, present, exchange, delete, job, faults>>

\* The active subscriptions of this bank, and the legacy ones with the last.
Scan(q) ==
    /\ unlink[q].pc = "counted"
    /\ unlink' = [unlink EXCEPT
         ![q].pc = "scanned",
         ![q].subs = {m \in Merchant :
                        /\ sub[m].is = "active"
                        /\ \/ sub[m].bank = unlink[q].acc
                           \/ unlink[q].last /\ sub[m].bank = NoAccount}]
    /\ UNCHANGED <<item, row, sub, present, exchange, delete, job, faults>>

\* Mutant: the foreign key keeps its value.
CommitKeepingBank(q) ==
    /\ unlink[q].pc = "scanned"
    /\ present
    /\ sub' = [m \in Merchant |-> [sub[m] EXCEPT
                 !.is = IF m \in unlink[q].subs THEN "inactive" ELSE @]]
    /\ row' = row \ {unlink[q].acc}
    /\ unlink' = [unlink EXCEPT ![q] = NoUnlink]
    /\ UNCHANGED <<item, present, exchange, delete, job, faults>>

UnlinkCommit(q) ==
    LET u == unlink[q]
    IN  /\ u.pc = "scanned"
        /\ present
        /\ sub' = [m \in Merchant |-> [sub[m] EXCEPT
                     !.is = IF m \in u.subs THEN "inactive" ELSE @,
                     !.bank = IF @ = u.acc THEN NoAccount ELSE @]]
        /\ row' = row \ {u.acc}
        /\ unlink' = [unlink EXCEPT ![q] = NoUnlink]
        /\ UNCHANGED <<item, present, exchange, delete, job, faults>>

\* The process stops or the commit fails; after the user is gone the deleted
\* subscriptions are missing from the update, or there is nothing to do.
UnlinkEnds(q) ==
    /\ unlink[q].pc # "idle"
    /\ IF present THEN Fault("stop") ELSE unlink[q].pc = "scanned" /\ UNCHANGED faults
    /\ unlink' = [unlink EXCEPT ![q] = NoUnlink]
    /\ UNCHANGED <<item, row, sub, present, exchange, delete, job>>

---------------------------------------------------------------------------
(* delete_account *)

DeleteList ==
    /\ present
    /\ delete = NoDelete
    /\ delete' = [pc |-> "revoking", todo |-> row,
                  known |-> {a \in Account : exchange[a] = "linked"}]
    /\ Overlap
    /\ UNCHANGED <<item, row, sub, present, exchange, job, faults>>

DeleteRevoke(a) ==
    /\ delete.pc = "revoking"
    /\ a \in delete.todo
    /\ item' = [item EXCEPT ![a] = "removed"]
    /\ delete' = [delete EXCEPT !.todo = @ \ {a}]
    /\ UNCHANGED <<row, sub, present, exchange, unlink, job, faults>>

\* Plaid refuses (502), or the request stops.
DeleteFails ==
    /\ delete.pc = "revoking"
    /\ Fault("plaid") \/ Fault("stop")
    /\ delete' = NoDelete
    /\ UNCHANGED <<item, row, sub, present, exchange, unlink, job>>

\* Mutant: the local rows go first.
DeleteAnyway ==
    /\ delete.pc = "revoking"
    /\ row' = {}
    /\ sub' = [m \in Merchant |-> Absent]
    /\ present' = FALSE
    /\ delete' = NoDelete
    /\ UNCHANGED <<item, exchange, unlink, job, faults>>

DeleteCommit ==
    /\ delete.pc = "revoking"
    /\ delete.todo = {}
    /\ row' = {}
    /\ sub' = [m \in Merchant |-> Absent]
    /\ present' = FALSE
    /\ delete' = NoDelete
    /\ UNCHANGED <<item, exchange, unlink, job, faults>>

---------------------------------------------------------------------------
(* Subscriptions *)

\* delete_subscription: the user removes one.
RemoveSubscription(m) ==
    /\ present
    /\ sub[m].is = "active"
    /\ sub' = [sub EXCEPT ![m].is = "inactive", ![m].byUser = TRUE]
    /\ UNCHANGED <<item, row, present, exchange, unlink, delete, job, faults>>

\* The sync job of an account begins ...
JobLoad(a) ==
    /\ present
    /\ a \in row \cap Syncing
    /\ job[a] = NoJob
    /\ job' = [job EXCEPT ![a].pc = "loaded"]
    /\ Overlap
    /\ UNCHANGED <<item, row, sub, present, exchange, delete, faults>>

\* ... and detects some merchants, whose rows it reads.
Planned(m) ==
    CASE sub[m].is = "absent" -> "insert"
      [] sub[m].is = "active" /\ sub[m].bank = NoAccount -> "backfill"
      [] sub[m].is = "active" /\ sub[m].bank # NoAccount -> "update"
      [] OTHER -> "none"

JobPlan(a, detected) ==
    /\ job[a].pc = "loaded"
    /\ job' = [job EXCEPT
         ![a] = [pc |-> "planned",
                 plan |-> [m \in Merchant |-> IF m \in detected THEN Planned(m) ELSE "none"]]]
    /\ UNCHANGED <<item, row, sub, present, exchange, unlink, delete, faults>>

\* The row after the job's commit.  An insert that meets the unique index
\* becomes an update of the row that is there.
Upserted(a, m) ==
    LET p == IF job[a].plan[m] = "insert" /\ sub[m].is # "absent" THEN Planned(m)
             ELSE job[a].plan[m]
    IN  CASE p = "insert" -> [Absent EXCEPT !.is = "active", !.bank = a]
          [] p = "backfill" -> [sub[m] EXCEPT !.bank = a]
          [] OTHER -> sub[m]

\* Mutant: the whole row is written back as it was read.
JobCommitWholeRow(a) ==
    /\ job[a].pc = "planned"
    /\ a \in row
    /\ sub' = [m \in Merchant |->
                 IF job[a].plan[m] \in {"backfill", "update"}
                 THEN [Upserted(a, m) EXCEPT !.is = "active"] ELSE Upserted(a, m)]
    /\ job' = [job EXCEPT ![a] = NoJob]
    /\ UNCHANGED <<item, row, present, exchange, unlink, delete, faults>>

\* Without the account's row the job only fails: on a foreign key, on its own
\* row, or, earlier, on a transaction's.
JobCommit(a) ==
    /\ job[a].pc = "planned"
    /\ a \in row
    /\ sub' = [m \in Merchant |-> Upserted(a, m)]
    /\ job' = [job EXCEPT ![a] = NoJob]
    /\ UNCHANGED <<item, row, present, exchange, unlink, delete, faults>>

JobFails(a) ==
    /\ job[a] # NoJob
    /\ IF a \in row THEN Fault("stop") ELSE UNCHANGED faults
    /\ job' = [job EXCEPT ![a] = NoJob]
    /\ UNCHANGED <<item, row, sub, present, exchange, unlink, delete>>

UnlinkGoes(q) ==
    Revoke(q) \/ RevokeRefused(q) \/ Count(q) \/ Scan(q) \/ UnlinkCommit(q) \/ UnlinkEnds(q)

Next ==
    \/ \E a \in Account :
          \/ ExchangeToken(a) \/ ExchangeCommit(a) \/ ExchangeFails(a)
          \/ DeleteRevoke(a)
          \/ JobLoad(a) \/ JobCommit(a) \/ JobFails(a)
          \/ \E detected \in SUBSET Merchant : JobPlan(a, detected)
          \/ \E q \in Request : UnlinkLoad(q, a)
    \/ \E q \in Request : UnlinkGoes(q)
    \/ DeleteList \/ DeleteFails \/ DeleteCommit
    \/ \E m \in Merchant : RemoveSubscription(m)

Spec == Init /\ [][Next]_vars

\* A request goes on, and the user clicks Unlink again after an error.
FairSpec ==
    /\ Spec
    /\ \A q \in Request : WF_vars(UnlinkGoes(q))
    /\ \A a \in Account : WF_vars(\E q \in Request : UnlinkLoad(q, a))

---------------------------------------------------------------------------
(* Properties *)

\* Types, and the foreign key: a subscription's bank has a row.
TypeOK ==
    /\ item \in [Account -> {"none", "live", "removed"}]
    /\ row \subseteq Account
    /\ sub \in [Merchant -> Sub]
    /\ \A m \in Merchant : sub[m].bank \in row \cup {NoAccount}
    /\ present \in BOOLEAN
    /\ exchange \in [Account -> {"none", "pending", "linked", "broken"}]
    /\ unlink \in [Request -> Unlink]
    /\ delete \in Delete
    /\ job \in [Account -> Job]
    /\ faults \in 0..MaxFaults

\* "the reverse order would orphan a live token": whatever overlaps or fails,
\* an unlink forgets a bank only when its Item is removed at Plaid
\* (unlink_account).
UnlinkRevokes ==
    [][\A q \in Request : UnlinkCommit(q) => item[unlink[q].acc] = "removed"]_vars

\* A subscription that the user removed stays removed, also when a job read it
\* before and writes it afterwards (upsert_detected_subscriptions).
RemovedStays ==
    [][\A m \in Merchant : sub[m].byUser => sub'[m].is # "active"]_vars

\* "with no banks left, no plaid subscription can still be live": an unlink that takes
\* the last bank leaves none, whatever overlapped, failed or broke off before it began,
\* and whatever the user removes meanwhile.  It must have had the rows to itself: two
\* unlinks of two last banks each count two (unlink_account).
NoBankNoLiveSub ==
    [][\A q \in Request : UnlinkCommit(q) /\ unlink[q].alone /\ row' = {} =>
         \A m \in Merchant : sub'[m].is # "active"]_vars

\* "deletion never orphans a live token at Plaid": of the banks whose linking was
\* complete when the deletion began, none is live at Plaid when their rows go, also
\* of those that unlinks took before it or take beside it.  A linking that
\* completes in between, or broke off, is not covered (delete_account).
DeletionNeverOrphans ==
    [][DeleteCommit => \A a \in delete.known : item[a] # "live"]_vars

\* "unlink must stay retryable after a partial failure": a row whose Item is
\* removed does not stay for ever (remove_item).
UnlinkRetried ==
    \A a \in Account : a \in row /\ item[a] = "removed" ~> a \notin row
=============================================================================
