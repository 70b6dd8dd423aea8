----------------------------- MODULE ItemSync -----------------------------
(***************************************************************************)
(* The durable sync of linked accounts: the webhook route and the manual   *)
(* Sync button (routes/webhooks.py, routes/transactions.py) that ask for   *)
(* it, the arq queue between them and the worker (services/job_queue.py,   *)
(* worker.py), and the job that runs it (services/subscription_sync.py).   *)
(* Plaid's history is abstracted to a count of updates per Item; what a    *)
(* sync does to the rows is the module TransactionStore.                   *)
(*                                                                         *)
(* arq is external: a job with an id is refused, silently, while a job of  *)
(* that id is queued or running or its result is still kept (keep_result,  *)
(* an hour unless it is configured); a job whose worker dies is started    *)
(* again, at most max_tries times in all; one that returns, raises or      *)
(* exceeds job_timeout is finished.                                        *)
(***************************************************************************)
EXTENDS Naturals, FiniteSets

CONSTANTS
    Item,        \* the linked accounts of one user, by Plaid item_id
    NoItem,      \* what a free slot works on
    Slot,        \* jobs the worker runs at the same time
    MaxTries,    \* WorkerSettings.max_tries
    Faults,      \* Faults[i]: what may go wrong with Item i, out of FaultKinds
    MaxHead,     \* MaxHead[i]: bound on the updates of Item i
    MaxDeaths    \* bound on worker deaths

\* Plaid's first pull is not ready, the bank refuses the credentials, a sync
\* raises, the database refuses a write, a sync is cut by job_timeout.
FaultKinds == {"not_ready", "login_required", "error", "database", "cut"}

ASSUME ItemSyncAssumption ==
    /\ NoItem \notin Item
    /\ MaxTries \in Nat \ {0}
    /\ Faults \in [Item -> SUBSET FaultKinds]
    /\ MaxHead \in [Item -> Nat]
    /\ MaxDeaths \in Nat

VARIABLES
    head,        \* head[i]: updates of Item i that Plaid holds
    hooks,       \* Items whose SYNC_UPDATES_AVAILABLE is on its way, once or again
    cursor,      \* linked_accounts.sync_cursor, as a number of updates
    status,      \* linked_accounts.status
    syncStatus,  \* linked_accounts.sync_status
    queued,      \* queued[i]: jobs sync:i waiting in Redis
    tries,       \* tries[i]: times the queued or running job was started
    kept,        \* Items whose last result is still in Redis
    slot,        \* slot[w]: the job that slot w runs
    toEnqueue,   \* Items the Sync button's request has yet to enqueue
    deaths       \* worker deaths so far

vars == <<head, hooks, cursor, status, syncStatus, queued, tries, kept, slot,
          toEnqueue, deaths>>

Steps == {"started", "loaded", "fetched", "refused", "stored", "detected"}

Job == [item : Item, at : Steps, cur : Nat, got : Nat]

FreeSlot == [item |-> NoItem, at |-> "free", cur |-> 0, got |-> 0]

Runs(w, i) == slot[w].item = i

Running(i) == \E w \in Slot : Runs(w, i)

Pending(i) == queued[i] > 0 \/ Running(i)

Init ==
    /\ head = [i \in Item |-> 0]
    /\ hooks = {}
    /\ cursor = [i \in Item |-> 0]
    /\ status = [i \in Item |-> "active"]
    /\ syncStatus = [i \in Item |-> "idle"]
    /\ queued = [i \in Item |-> 0]
    /\ tries = [i \in Item |-> 0]
    /\ kept = {}
    /\ slot = [w \in Slot |-> FreeSlot]
    /\ toEnqueue = {}
    /\ deaths = 0

---------------------------------------------------------------------------
(* Plaid *)

Update(i) ==
    /\ head[i] < MaxHead[i]
    /\ head' = [head EXCEPT ![i] = @ + 1]
    /\ hooks' = hooks \cup {i}
    /\ UNCHANGED <<cursor, status, syncStatus, queued, tries, kept, slot, toEnqueue, deaths>>

---------------------------------------------------------------------------
(* Asking for a sync *)

\* Mutant: the id is known only while the job waits in the queue.
EnqueueWhileRunning(i) ==
    IF queued[i] > 0 \/ i \in kept
    THEN UNCHANGED <<queued, tries>>
    ELSE /\ queued' = [queued EXCEPT ![i] = @ + 1]
         /\ tries' = [tries EXCEPT ![i] = 0]

\* enqueue_item_sync: the job id makes it a no-op while arq knows the id.
Enqueue(i) ==
    IF Pending(i) \/ i \in kept
    THEN UNCHANGED <<queued, tries>>
    ELSE /\ queued' = [queued EXCEPT ![i] = @ + 1]
         /\ tries' = [tries EXCEPT ![i] = 0]

\* The webhook is acknowledged once the job is enqueued.
WebhookAcked(i) ==
    /\ i \in hooks
    /\ Enqueue(i)
    /\ hooks' = hooks \ {i}
    /\ UNCHANGED <<head, cursor, status, syncStatus, kept, slot, toEnqueue, deaths>>

\* Sync button: every account is marked and committed, then enqueued in turn.
ManualMark ==
    /\ toEnqueue = {}
    /\ syncStatus' = [i \in Item |-> "syncing"]
    /\ toEnqueue' = Item
    /\ UNCHANGED <<head, hooks, cursor, status, queued, tries, kept, slot, deaths>>

ManualEnqueue(i) ==
    /\ i \in toEnqueue
    /\ Enqueue(i)
    /\ toEnqueue' = toEnqueue \ {i}
    /\ UNCHANGED <<head, hooks, cursor, status, syncStatus, kept, slot, deaths>>

\* Redis is unreachable, or the web process stops: the rest is not enqueued.
\* (A webhook that meets this is answered 503 and stays in hooks.)
ManualFails ==
    /\ toEnqueue # {}
    /\ toEnqueue' = {}
    /\ UNCHANGED <<head, hooks, cursor, status, syncStatus, queued, tries, kept, slot, deaths>>

---------------------------------------------------------------------------
(* The worker *)

\* arq forgets the job and keeps its result.
Finished(i) == kept' = kept \cup {i}

\* Mutant: one try less than max_tries.
StartOnceLess(w, i) ==
    /\ slot[w] = FreeSlot
    /\ queued[i] > 0
    /\ queued' = [queued EXCEPT ![i] = @ - 1]
    /\ IF tries[i] + 1 < MaxTries
       THEN /\ tries' = [tries EXCEPT ![i] = @ + 1]
            /\ slot' = [slot EXCEPT ![w] =
                  [item |-> i, at |-> "started", cur |-> 0, got |-> 0]]
            /\ UNCHANGED kept
       ELSE Finished(i) /\ UNCHANGED <<tries, slot>>
    /\ UNCHANGED <<head, hooks, cursor, status, syncStatus, toEnqueue, deaths>>

\* One more try of the job, unless max_tries are used up.
Start(w, i) ==
    /\ slot[w] = FreeSlot
    /\ queued[i] > 0
    /\ queued' = [queued EXCEPT ![i] = @ - 1]
    /\ IF tries[i] < MaxTries
       THEN /\ tries' = [tries EXCEPT ![i] = @ + 1]
            /\ slot' = [slot EXCEPT ![w] =
                  [item |-> i, at |-> "started", cur |-> 0, got |-> 0]]
            /\ UNCHANGED kept
       ELSE Finished(i) /\ UNCHANGED <<tries, slot>>
    /\ UNCHANGED <<head, hooks, cursor, status, syncStatus, toEnqueue, deaths>>

\* The job loads the account, shows "syncing", and commits.
Load(w) ==
    LET i == slot[w].item
    IN  /\ slot[w].at = "started"
        /\ syncStatus' = [syncStatus EXCEPT ![i] = "syncing"]
        /\ slot' = [slot EXCEPT ![w].at = "loaded", ![w].cur = cursor[i]]
        /\ UNCHANGED <<head, hooks, cursor, status, queued, tries, kept, toEnqueue, deaths>>

\* Mutant: the cursor counts one update too many.
FetchPast(w) ==
    /\ slot[w].at = "loaded"
    /\ slot' = [slot EXCEPT ![w].at = "fetched", ![w].got = head[slot[w].item] + 1]
    /\ UNCHANGED <<head, hooks, cursor, status, syncStatus, queued, tries, kept, toEnqueue, deaths>>

\* Plaid answers with everything up to now, ...
Fetch(w) ==
    /\ slot[w].at = "loaded"
    /\ slot' = [slot EXCEPT ![w].at = "fetched", ![w].got = head[slot[w].item]]
    /\ UNCHANGED <<head, hooks, cursor, status, syncStatus, queued, tries, kept, toEnqueue, deaths>>

\* ... or, before the first pull is ready, with nothing: a success all the same.
NotReady(w) ==
    /\ slot[w].at = "loaded"
    /\ "not_ready" \in Faults[slot[w].item]
    /\ slot[w].cur = 0
    /\ slot' = [slot EXCEPT ![w].at = "fetched", ![w].got = 0]
    /\ UNCHANGED <<head, hooks, cursor, status, syncStatus, queued, tries, kept, toEnqueue, deaths>>

\* ITEM_LOGIN_REQUIRED: the broken connection is committed first.
Refused(w) ==
    /\ slot[w].at = "loaded"
    /\ "login_required" \in Faults[slot[w].item]
    /\ status' = [status EXCEPT ![slot[w].item] = "login_required"]
    /\ slot' = [slot EXCEPT ![w].at = "refused"]
    /\ UNCHANGED <<head, hooks, cursor, syncStatus, queued, tries, kept, toEnqueue, deaths>>

\* Rows, cursor and recovered status (TransactionStore!Commit).
Store(w) ==
    LET i == slot[w].item
    IN  /\ slot[w].at = "fetched"
        /\ cursor' = [cursor EXCEPT ![i] = IF slot[w].got # slot[w].cur THEN slot[w].got ELSE @]
        /\ status' = [status EXCEPT ![i] = "active"]
        /\ slot' = [slot EXCEPT ![w].at = "stored"]
        /\ UNCHANGED <<head, hooks, syncStatus, queued, tries, kept, toEnqueue, deaths>>

\* Detection over the stored rows, and the commit of the subscriptions.
Detect(w) ==
    /\ slot[w].at = "stored"
    /\ slot' = [slot EXCEPT ![w].at = "detected"]
    /\ UNCHANGED <<head, hooks, cursor, status, syncStatus, queued, tries, kept, toEnqueue, deaths>>

\* The job returns: arq finishes it, whatever the account shows.
Return(w, shown) ==
    /\ syncStatus' = [syncStatus EXCEPT ![slot[w].item] = shown]
    /\ slot' = [slot EXCEPT ![w] = FreeSlot]
    /\ Finished(slot[w].item)
    /\ UNCHANGED <<head, hooks, cursor, status, queued, tries, toEnqueue, deaths>>

\* Mutant: a refused sync returns before it writes sync_status.
SucceedOnlyStored(w) ==
    /\ slot[w].at \in {"detected", "refused"}
    /\ Return(w, IF slot[w].at = "refused" THEN syncStatus[slot[w].item] ELSE "idle")

Succeed(w) == slot[w].at \in {"detected", "refused"} /\ Return(w, "idle")

\* An exception of Plaid, of a row or of the model is caught and shown as "error".
Fail(w) ==
    /\ slot[w].at \in {"loaded", "fetched", "stored"}
    /\ "error" \in Faults[slot[w].item]
    /\ Return(w, "error")

\* A write that the database refuses leaves a session that must be rolled back,
\* which no handler does: its commit raises too, and the account keeps what it shows.
WriteFails(w) ==
    /\ slot[w].at \in Steps
    /\ "database" \in Faults[slot[w].item]
    /\ Return(w, syncStatus[slot[w].item])

\* job_timeout cancels the job, which no handler catches.
Cut(w) ==
    /\ slot[w].at \in Steps
    /\ "cut" \in Faults[slot[w].item]
    /\ Return(w, syncStatus[slot[w].item])

\* A deploy or a crash: arq will start the interrupted jobs again.
WorkerDies ==
    /\ deaths < MaxDeaths
    /\ \E w \in Slot : slot[w] # FreeSlot
    /\ deaths' = deaths + 1
    /\ queued' = [i \in Item |-> queued[i] + Cardinality({w \in Slot : Runs(w, i)})]
    /\ slot' = [w \in Slot |-> FreeSlot]
    /\ UNCHANGED <<head, hooks, cursor, status, syncStatus, tries, kept, toEnqueue>>

\* The kept result expires.
Expire(i) ==
    /\ i \in kept
    /\ kept' = kept \ {i}
    /\ UNCHANGED <<head, hooks, cursor, status, syncStatus, queued, tries, slot, toEnqueue, deaths>>

JobStep(w) ==
    Load(w) \/ Fetch(w) \/ NotReady(w) \/ Refused(w) \/ Store(w) \/ Detect(w)
    \/ Succeed(w) \/ Fail(w) \/ WriteFails(w) \/ Cut(w)

Next ==
    \/ \E i \in Item :
          \/ Update(i) \/ WebhookAcked(i) \/ ManualEnqueue(i) \/ Expire(i)
          \/ \E w \in Slot : Start(w, i)
    \/ ManualMark \/ ManualFails \/ WorkerDies
    \/ \E w \in Slot : JobStep(w)

\* The request handler goes on, arq polls its queue in the order of enqueueing
\* (so no job is passed over for ever), a running job goes on, results expire.
Fairness ==
    /\ \A i \in Item : /\ WF_vars(ManualEnqueue(i))
                       /\ SF_vars(\E w \in Slot : Start(w, i))
                       /\ WF_vars(Expire(i))
                       /\ WF_vars(WebhookAcked(i))
    /\ \A w \in Slot : WF_vars(JobStep(w))

Spec == Init /\ [][Next]_vars

FairSpec == Spec /\ Fairness

---------------------------------------------------------------------------
(* Properties *)

\* Every variable has its type; a cursor never exceeds the bound of the feed.
TypeOK ==
    /\ head \in [Item -> Nat]
    /\ hooks \subseteq Item
    /\ cursor \in [Item -> Nat]
    /\ \A i \in Item : head[i] <= MaxHead[i] /\ cursor[i] <= MaxHead[i]
    /\ status \in [Item -> {"active", "login_required"}]
    /\ syncStatus \in [Item -> {"idle", "syncing", "error"}]
    /\ queued \in [Item -> Nat]
    /\ tries \in [Item -> 0..MaxTries]
    /\ kept \subseteq Item
    /\ slot \in [Slot -> Job \cup {FreeSlot}]
    /\ toEnqueue \subseteq Item
    /\ deaths \in 0..MaxDeaths

\* Webhooks, button, retries and restarts together never have two jobs of one
\* Item in the queue or at work: what TransactionStore calls Serialized
\* (enqueue_item_sync, _job_id).
OneSyncPerItem ==
    \A i \in Item :
        /\ queued[i] <= 1
        /\ queued[i] = 1 => ~Running(i)
        /\ \A v, w \in Slot : Runs(v, i) /\ Runs(w, i) => v = w

\* While a job is at work on an account, the status the Sync button polls says
\* "syncing", also when another request or an earlier try changed it
\* (sync_subscriptions_for_item, sync_subscriptions).
WorkShowsSyncing ==
    \A w \in Slot : slot[w].at \in Steps \ {"started"} => syncStatus[slot[w].item] = "syncing"

\* The stored cursor never moves back, so no update is fetched and applied
\* over a newer one (sync_account_transactions).
CursorAdvances == [][\A i \in Item : cursor'[i] >= cursor[i]]_vars

\* The workers of one job have died max_tries times: arq gives it up when it
\* next takes it from the queue.
GivenUp(i) == queued[i] > 0 /\ tries[i] = MaxTries

\* The faults that end a job without a word to the account.
Silent == {"cut", "database"}

Delivering == {i \in Item : Faults[i] \cap (Silent \cup {"not_ready"}) = {}}

\* What a queued job owes: the account reaches the updates that Plaid had when the
\* job was queued, or shows an error or a broken connection, or max_tries workers
\* die under it.  A job cut short, a write refused and a first pull that is not
\* ready are the exceptions (sync_item_job, WorkerSettings).
QueuedJobDelivers ==
    \A i \in Delivering : \A n \in 1..MaxHead[i] :
        queued[i] > 0 /\ head[i] = n ~>
            \/ cursor[i] >= n
            \/ syncStatus[i] = "error"
            \/ status[i] = "login_required"
            \/ GivenUp(i)

\* sync_status "lets the manual sync button poll for completion": an account
\* that shows "syncing" while its job is queued or at work stops showing it, also
\* when workers die under the job, as long as arq starts it again.  It is left
\* showing "syncing" by three things only: max_tries deaths, job_timeout, and a
\* write that the database refuses (sync_subscriptions_for_item, get_sync_status).
SyncingEnds ==
    \A i \in Item : Faults[i] \cap Silent = {} =>
        (Pending(i) /\ syncStatus[i] = "syncing" ~> syncStatus[i] # "syncing" \/ GivenUp(i))
==========================================================================
