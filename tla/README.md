# SubsTrack: a verification project

SubsTrack finds the recurring charges in a user's bank transactions.  A FastAPI
web process (`src/backend/main.py`, `routes/`) answers a React client
(`src/frontend/src`), Plaid delivers the transactions, PostgreSQL keeps them,
Redis holds sessions and the arq queue, and an arq worker (`worker.py`) runs the
slow jobs.  This directory models the parts of it whose correctness depends on
interleavings, failures and order, checks the models with TLC and proves the
central invariants with TLAPS.

## The system

| Component | State it keeps | Operations | What makes it correct |
|---|---|---|---|
| Transaction store (`services/transaction_store.py`, `plaid_service.py`) | `transactions`, `linked_accounts.sync_cursor`, `.status` | one incremental sync | the table never lacks an update that lies before the stored cursor |
| Item sync jobs (`services/subscription_sync.py`, `job_queue.py`, `worker.py`) | arq queue and kept results in Redis, `linked_accounts.sync_status` | enqueue, run, fail, time out, restart | one sync per Item at a time; an announced update reaches the table; "syncing" ends |
| Plaid webhooks (`routes/webhooks.py`) | `linked_accounts.status` | TRANSACTIONS codes enqueue, ITEM codes set the status | nothing is acknowledged that is not going to happen |
| Manual sync (`routes/transactions.py`, `pages/Dashboard.jsx`) | `sync_status` | mark, enqueue each account, poll | the mark ends with the job |
| Subscription upsert (`services/subscription_sync.py`) | `subscriptions` | match, insert, relabel, update | one row per detected subscription, idempotent, races lost without harm |
| Alerts (`services/alert_service.py`, `routes/alerts.py`) | `alerts`, emails sent | cron and manual generation, read, delete | one alert per subscription and due date, one email per alert |
| Linking (`routes/auth.py`) | `linked_accounts`, Items at Plaid | exchange, unlink, delete account | no live Item without a row, no live subscription without a bank |
| Sessions (`routes/auth.py`, `services/jwt.py`, `db/deps.py`) | refresh families and revocation times in Redis, cookies | login, refresh, logout, reset | one valid refresh token per family, what was issued before a revocation stays out |
| Login (`routes/auth.py`, `services/mfa.py`) | `users`, failure counters, MFA sessions, reset links | register, login, Google, verify, enable, disable, reset | lockout holds, no way past a second factor, a reset ends the sessions it can reach |
| Webhook verification (`services/webhook_verification.py`) | cache of Plaid's keys | look up, fetch, retry | a genuine webhook is not refused, a retired key does not stay |
| Detection (`services/subscription_detector.py`, `subscription_pipeline.py`, `subscription_ai.py`) | candidates of one job | cluster, score, ask the model, merge | order and outages lose nothing, plans of a merchant are told apart, forecasts are in time |
| Web client (`api/index.js`, `AuthContext.jsx`) | one refresh in flight | retry after 401 | concurrent requests share one refresh |

Interactions.  The webhook route and the Sync button both call
`enqueue_item_sync`; the worker's job calls the transaction store, then detection,
then the upsert, and commits after each; ITEM webhooks write the status that
the store also writes; unlinking and deleting remove rows a running job uses; alert
generation reads the subscriptions that jobs write.  There is no lock: what
protects the data are the arq job id, unique indexes with savepoints, and single
commits.

Hard behaviours: a Plaid call of many pages between the read of a row and its
write; partial commits before an exception; worker restarts; arq refusing jobs
silently; webhooks delivered late, twice or not at all; two processes inserting
the same row; non-atomic sequences of Redis commands.

## Modules

### PlaidFeed, TransactionReplica, TransactionStore

`PlaidFeed` (external) is the history of one Item: a sequence of snapshots, a
sync cursor being a position in it.  `Changed` and `Removed` are what
`/transactions/sync` answers between two positions; a removed transaction is
reported if it existed at any point since the cursor.

`TransactionStore` is `sync_account_transactions` with the pagination below it.
`table`, `cursor` and `status` are the committed rows; `run[s]` is a sync in
progress and holds the values that session `s` loaded or gathered.

| Action | Code |
|---|---|
| `Load` | the job loads the account (`subscription_sync.py` 197-207) |
| `FetchPage`, `PageMutated`, `NotReady` | one turn of the loop in `_sync_transactions_once`; the handlers of `_sync_transactions_blocking` |
| `LoginRequired` | the `ApiException` branch: status committed, sync over |
| `ReadExisting` | the SELECT of the rows to change |
| `Commit` | inserts, updates, removals, cursor and status: one commit |
| `ApplyFails` | an exception in the loop; the job's handler commits what is in the session |
| `Abandon` | every other way to end: nothing was committed |
| `ItemWebhook` | `_handle_item` and `_set_item_status` |

The session caches the account (`expire_on_commit=False`) and emits an UPDATE only
for columns that differ from what it loaded: `WriteStatus`, `Writes` and the
cursor rule of `Commit` say so.  A row whose amount was assigned before its date
failed to parse is `Torn`.

`TransactionReplica` is the abstract specification: the cursor moves forward and
each row is the one Plaid had at the cursor or later (or is torn and due to be
rewritten).  `TransactionStore` implements it (`ReplicaSpec`) when syncs of an
Item do not overlap.

### ItemSync

`ItemSync` is everything around that sync: the two routes, arq, the worker and the
commits of a job, over several Items, worker slots, retries and deaths.  Plaid's
history is a count; a job's step `Store` stands for `TransactionStore!Commit`.
`queued`, `tries` and `kept` are the Redis keys `arq:queue`, `arq:retry` and
`arq:result` of the job id `sync:<item_id>`.  `OneSyncPerItem` is the assumption
`Serialized` of `TransactionStore`.  arq is external: it is modelled by what its
`enqueue_job` documents (an id that exists, or whose result is kept, is refused)
and by `max_tries`, `job_timeout` and the restart of interrupted jobs.  `Faults`
selects what may go wrong with each Item of an instance.

| Action | Code |
|---|---|
| `WebhookAcked`, `Enqueue` | `plaid_webhook`, `_handle_transactions`, `enqueue_item_sync` |
| `ManualMark`, `ManualEnqueue`, `ManualFails` | the two loops of `sync_subscriptions`; Redis failing in the second |
| `Start`, `Expire`, `WorkerDies` | arq with the values of `WorkerSettings` |
| `Load` .. `Detect` | the steps of `sync_subscriptions_for_item`, each up to its commit |
| `Succeed`, `Fail` | its return; its `except Exception`, which commits "error" |
| `WriteFails`, `Cut` | a write that the database refuses, after which the handler's own commit raises as well; `job_timeout` |

### AlertLedger, AlertGeneration

`AlertGeneration` is `generate_upcoming_alerts` with `_send_email_notifications`, run by the
cron job for all users and by `POST /alerts/generate` for one, and everything around it
that changes the rows it reads: dates that move, alerts read or deleted, the email setting,
accounts deleted.  A *charge* is a subscription with a due date, the key of
`ix_alerts_subscription_due`.  `run[r]` is a generation in progress.

| Action | Code |
|---|---|
| `Begin`, `ReadAlerted` | the two queries, of the subscriptions and of the alerts that exist |
| `TryInsert`, `Insert` | the insert in its savepoint; an `IntegrityError` skips the charge |
| `Commit`, `NothingNew` | the commit, or nothing to commit |
| `SelectUsers`, `Send`, `SendFails`, `Done` | `_send_email_notifications`, one user after the other |
| `DeadlockVictim`, `Crash` | the database error; a stopped worker or `job_timeout` |
| `SetDue`, `MarkRead`, `DeleteAlert`, `SetAlertEmail`, `DeleteAccount` | the routes |

PostgreSQL is external: an insert whose key another transaction holds waits for it
(`WaitsFor`), a cycle of waits ends with an error in one of them, deleting a user
waits for the inserts that refer to the user's rows.

`AlertLedger` is the abstract specification: charges have an alert or none, alerts are
made only where there is none, and each new one is *owed* one email, which is sent or
given up, at most once each.  `AlertGeneration` implements it (`LedgerSpec`), `owed` being
the number of runs that have committed the alert and not yet come to its email.

### AccountLinking

`AccountLinking` is one user's banks: `exchange_public_token`, `unlink_account`,
`delete_account`, with the jobs that store subscriptions and the user removing some.
`item` is Plaid's side of each linking, `row` the table `linked_accounts`, `sub` the rows
of source "plaid".

| Action | Code |
|---|---|
| `ExchangeToken`, `ExchangeCommit`, `ExchangeFails` | `exchange_public_token`: at Plaid, then the row, or not |
| `UnlinkLoad`, `Revoke`, `RevokeRefused`, `Count`, `Scan`, `UnlinkCommit`, `UnlinkEnds` | `unlink_account`: each query and call, and the commit |
| `DeleteList`, `DeleteRevoke`, `DeleteFails`, `DeleteCommit` | `delete_account` |
| `RemoveSubscription` | `delete_subscription` |
| `JobLoad`, `JobPlan`, `JobCommit`, `JobFails` | a job of the account, read, upsert and commit |

A commit is one step, since PostgreSQL locks the rows it writes; the foreign key
of a subscription becomes null when its bank's row goes.  A session writes only
the columns it assigned, so a job that read an active row and writes its date
leaves `is_active` alone.  Nothing keeps the requests and jobs of a user apart, so the
model does not either.  Three histories are kept for the properties: `byUser`, who
deactivated a subscription, which the table does not record; `alone`, whether an unlink has had
the rows to itself since it began; and `known`, the banks whose linking was complete
when a deletion began.

### Sessions

`Sessions` is one user's pairs of access and refresh tokens, in the server and in the
client.  Tokens carry whole seconds, keys in Redis expire at instants, so a second has
several ticks; a key is there while its `until` has not passed.

| State | Code |
|---|---|
| `pair[n]` | the tokens of one `_issue_session` or rotation: family, `iat` |
| `family`, `marker`, `blocked` | `refresh_family:*`, `token_min_iat:*`, `token_blocklist:*` |
| `jar`, `call`, `request`, `promise` | cookies of a browser, calls of the API, the refresh a call asked for, `refreshPromise` of a tab |

| Action | Code |
|---|---|
| `Login`, `ResetPassword` | `_issue_session`; `revoke_user_sessions` at the end of a reset |
| `RefreshCheck`, `RefreshRead`, `RefreshRotate`, `BurnFamily`, `BurnSessions` | `refresh`, one step to an `await` on Redis |
| `SendCall`, `Answered`, `Denied` | a call, `get_current_user`, the interceptor of `api/index.js` |
| `RefreshDone`, `RefreshRefused`, `RefreshLost` | the shared promise settles; the cookies arrive or do not |
| `EndSession`, `Block`, `Drop`, `DeleteRevokes`, `ClearCookies` | `logout`, and the same teardown at the end of `delete_account` |

### LoginGate

`LoginGate` is every request that opens a session or changes how one is opened, on one
account.  `open` is the set of the sessions that are accepted; one is remembered by the
password that opened it and by whether it was issued in the current second; what it is good
for afterwards is `Sessions`.  `revoke_user_sessions` writes whole seconds and `get_current_user`
compares whole seconds, so a revocation (`RevokeEarlier`) ends the sessions of earlier seconds
and leaves those of its own; and a refresh past its check of the marker issues a session
afterwards (`BeginRefresh`, `Rotate`).  `NextSecond` passes between any two steps.  Each request
may break off at every step (`Breaks`).  `guarded`, `stale`, `spared` and `lapsed` are
history: whether the second factor has been on since a request began; whether a revocation
came while a request was past its check; whether it missed a session, or the one that was refreshed
from; whether a reset stopped before it revoked.

| Action | Code |
|---|---|
| `CheckLock`, `LoginLoad`, `Incr`, `Expire`, `Clear`, `Tick` | `login` with `_assert_not_locked_out`, `_record_login_failure`, `_clear_login_failures` |
| `Find`, `Insert` | `register` and `google_callback`: the query, the commit and its unique index |
| `AskSecondFactor`, `IssueSession` | `_create_mfa_session`, `_issue_session` |
| `VerifyGet`, `VerifyLoad`, `VerifyDelete`, `ChallengeExpires` | `mfa_verify` |
| `FactorLoad`, `EnableCommit`, `DisableCommit` | `mfa_enable`, `mfa_disable`; an UPDATE names only columns that differ from what was loaded |
| `BeginRefresh`, `Rotate` | `refresh`, after and from its check of the marker |
| `Forgot`, `ResetFind`, `ResetCommit`, `ResetRevoke`, `LinkExpires` | `forgot_password`, `reset_password` with `revoke_user_sessions` |

### WebhookVerification

One key of Plaid with its versions, the process's cache entry for it, and the webhooks
being verified.  Plaid is external: it signs each delivery anew, publishes
a version some time after it begins to sign with it, and delivers again what was not
answered with success.

| Action | Code |
|---|---|
| `Lookup`, `Serve`, `Arrive`, `NotFound`, `WakeUp`, `FetchFails` | `verify_plaid_webhook` and `_get_public_key`, one step to an `await` |
| `Judge`, `Store` | the signature, the second attempt, the age check; the entry, stamped with the time read before the fetch |
| `Respond` | `plaid_webhook`: 200, or 400 for a `ValueError` |

### SubscriptionDetection, SubscriptionPipeline

`SubscriptionDetection` translates `subscription_detector.py` into operators: dates,
consistency scores, frequencies, confidence, clustering by amount, candidates.
Amounts are cents and averages are compared without division.  A descriptor such as "POS DEBIT
1234" normalizes to no name at all (`Nameless`): the key of such a candidate is its
label, price included (`merchant_key`), so its clusters are not siblings to the code.
`SubscriptionPipeline` is the loop over the candidates with the language model, which
may answer anything: `AcceptByRules`, `PassOver`, `ModelSaysYes`, `ModelSaysNo`
(`run_subscription_pipeline`, `classify_candidate_with_ai`, `merge_candidate_and_ai`),
`ModelFails` (`detect_from_transactions`: everything again without the model), `Finish`.

### SubscriptionUpsert

`SubscriptionUpsert` is `upsert_detected_subscriptions` in the jobs of several banks of one
user, next to the user's own requests (`AddManual`, `Edit`, `Delete`).  `row` holds the
committed subscriptions; `job[b]` the detections, the objects of the rows that
detections found and the rows written but not committed.  An object found stays as it was read
until it is written, while other jobs and the user go on; rows that `_find_existing` only looked
at are dropped with its result, the identity map being weak, and read afresh next time.

| Action | Code |
|---|---|
| `Find`, `Resolve` | `_find_existing`: merchant or label, the closest amount within the tolerance; `_resolve_label` |
| `InsertRow`, `InsertLost` | the insert in its savepoint; the `IntegrityError` and the second look |
| `UpdateRow`, `RelabelFails`, `Raise` | the changed columns; a flush that fails outside the savepoint; no row at the second look |
| `DeadlockVictim`, `Commit` | PostgreSQL ending a cycle of waits; the job's commit |

`AccountLinking` keeps its own coarser view of these jobs, since there only the bank and
`is_active` of a row matter.

## Runs

| Run | Question | Bounds |
|---|---|---|
| `store_sync` | is the table as fresh as the cursor, whatever fails | 2 transactions, history of 5, pages of 1, one sync at a time |
| `item_sync` | one job per Item; does a queued job deliver, and end "syncing" | 2 Items, 2 slots, 2 updates of one Item, 2 tries, 2 deaths; refused logins and errors for that one, not-ready answers, refused writes and timeouts for the other |
| `alert_overlap` | do overlapping runs implement the ledger, email once and cover what they selected | 2 subscriptions of 1 user, 1 day, 2 runs, crashes and failing emails |
| `alert_mail` | does every user get the email | 2 users, 1 subscription each, 2 days, the cron run, no faults |
| `link_overlap` | nothing resurrected, retries end, the last bank takes the last subscriptions, deletion leaves no Item it knew | 2 banks, 1 merchant, 2 requests, 1 syncing account, 1 fault of any kind |
| `sessions` | logged out and burnt stays out; the client never burns itself; calls end | 1 tab, 2 calls, 3 pairs, seconds of 2 ticks, lives of 2 and 3 seconds, 6 ticks, 1 logout, reset or deletion, 1 lost answer |
| `revocation` | does a revoked pair stay out, beyond the end of the marker too | 1 tab, 1 call, 3 pairs, seconds of 2 ticks, lives of 1 and 3 seconds, 9 ticks, 2 logouts, resets or deletions |
| `webhook_keys` | genuine webhooks pass, retired keys leave, every webhook is verified | 2 webhooks, 2 versions, cache of 2 ticks, fetches of 1, 1 failure, 3 ticks |
| `login` | lockout, second factor and reset under overlapping requests | 2 requests of 9 kinds, 2 passwords, 2 sessions at a time, 1 secret, challenge and link, 1 failure allowed, symmetric in requests and passwords |
| `detection` | order, plans, forecasts, steady charges and outages | 4 merchants, one without a name, days over the ends of a year and of a February, 1 to 3 prices, 2 calls to the model; all orders of up to 3 charges, the reversal and a rotation of more |
| `upsert` | one row per detection, no twins, no change without news, lost races find the winner, jobs end | 2 banks, 3 jobs and edits together, 5 reports |
| `upsert_resurrects` (violation) | does a sync leave alone what the user removed | 1 bank, the same reports |

Why the bounds suffice.  A page of one entry and two transactions force several
pages, and a history of five lets it change twice under a pagination, which is the
restart and the error after it; it holds an addition, a correction and a removal on
both sides of a cursor.  In `item_sync` two tries with two deaths reach the job that
arq gives up, and two slots let two jobs of one Item run if they could ever be
queued; the Items share slots and differ in what can go wrong, so each fault meets
the queue of the other.  Two subscriptions are the least for two runs to
wait for each other, and two days the least for a charge to come after an alerted one.
Two banks are the one unlinked and the one left, and the subscription may be of
either or of none.  In `sessions` six ticks let a blocklist entry and a family expire before
the clock stops, and two calls are refused together.  A marker that revokes anything is set in
the second tick at the earliest and lives for seven, longer than that clock: `revocation` gives up
the second call for nine ticks, so that a marker is seen to expire after the refresh
tokens it speaks of, and a key of a shorter life, say that of an access token, is
caught.  In `webhook_keys` a cache entry can expire within the clock, and its key be
retired while a fetch is under way.  In `login` two requests reach every pair of
handlers and a limit of one is crossed by both; two sessions are one that a revocation reaches
next to one that it spares.  The amounts of
`detection` lie inside and outside the 20% of a cluster and the tiers of the
scores, its days make February forecasts, two charges of one day differ in their categories; the reports of `upsert` are a plan, a jump of its
price under another key, and two plans within the tolerance of each other, by their amounts, by
their names and with the names swapped, which three rounds combine.

Not every property is asked everywhere.  `store_sync` assumes `Serialized`, which
`OneSyncPerItem` of `ItemSync` justifies.  `AlertMailed` is checked without crashes: the
alerts are committed before the emails, and nothing sends what a crash left.
`SyncingEnds` names the three ways in which an account is left "syncing": arq giving the job up,
`job_timeout`, and a refused write, which the second Item's faults hold.  `NoBankNoLiveSub` is about an
unlink that nothing ran next to, `DeletionNeverOrphans` about the banks that were linked when the deletion
began: overlapping unlinks and a linking during the deletion do break more than that (next
section).  `OldPasswordOut` exempts what the code cannot reach: the sessions of the reset's own second,
those that requests past their check issue, and what is refreshed from them.  `SiblingsDistinct`
asks the clusters of a nameless merchant for different keys and amounts, not labels, and
`OrderIrrelevant` leaves out the category, which is that of the last charge of the last day.  `NeverBurned` says "no answer lost" and runs one tab per
browser, since neither a lost rotation nor a second tab is protected by the code.
`DetectionsKept`, `NoTwins` and `KnownStays` speak of a job that nothing ran next to: another
one may write a row between its read and its write.  `LoserFindsRow` exempts one case: an earlier
detection of the same job took the row under another label and left it as it was, so nothing locked
it, and the winner renamed it.
`FetchExact`, `WorkShowsSyncing`, `CursorAdvances` and `UnlinkRevokes` are stated and proved
(below) and no longer part of a run.

Fairness.  `ItemSync!FairSpec`: a request handler in progress goes on, a running
job takes its next step, kept results expire, Plaid delivers a webhook it
holds (it redelivers until it gets a 2xx).  `Start` has strong fairness since arq
polls its queue in order of enqueueing.  Clicking Sync, updates, faults and deaths
are never forced.  `AlertGeneration!FairSpec`: a generation in progress goes on, and the cron
job begins again and again.  `AccountLinking!FairSpec`: an unlink request goes
on, and the user clicks Unlink again after an error; the number of faults is bounded.
`Sessions!FairSpec`: handlers and the client's promises go on; neither the clock nor the
user is forced.  `WebhookVerification!FairSpec`: requests go on, Plaid publishes and
redelivers; fetches that fail are bounded.  `SubscriptionUpsert!FairSpec`: a job goes on,
and PostgreSQL ends a cycle of waits.

Deadlock is not checked where the system may stop: in the link runs once the account
is deleted, in `sessions` and `revocation` at the end of the clock, in `detection` when the pipeline has
returned, in `upsert` after the last round.

## What the violation shows, and other disagreements met

`upsert_resurrects`: "user deactivated it - don't resurrect" (`subscription_sync.py:170`).  The
first of two plans within the tolerance claims the removed row and is skipped, and the
second, which is the removed subscription, is inserted as a new, active row.

The following came up while modelling.  The models contain them, the properties are stated
so as to hold beside them, and no run is spent on them:

* The status written after the Plaid call is decided by the status loaded before it
  (`transaction_store.py:133`), so a sync may not recover a status set meanwhile.
* arq keeps the result of a finished job for an hour and refuses its id
  (`job_queue.py:29`): a webhook in that hour is acknowledged and dropped, which hits each
  new bank, whose `INITIAL_UPDATE` follows a first sync that was not ready.  A
  webhook after the fetch of the running job is dropped as well.
* A failed sync swallows its exception, so arq never retries it; a flush that failed makes
  the handler's own commit raise and leaves "syncing" (`subscription_sync.py:234`).
* The inserts of an alert run follow a SELECT without ORDER BY: two runs can wait for each other
  (`alert_service.py:50`).  A crash after the commit loses the emails (`:84`).
* Two unlinks of the last two banks both count two, and neither sweeps
  (`auth.py:695`); an exchange during the deletion of the account leaves an Item (`:801`).
* A refresh that has read its family writes it back whatever happened in between
  (`auth.py:325`): a logout that drops the family at that moment is undone, and the family lives on
  with the new pair.  `EndedStaysEnded` speaks of a family that no refresh is at that point of.
* A revocation compares whole seconds and refuses only what is *earlier* (`deps.py:37`, `:58`): a session issued in
  the second of a password reset, and one that a refresh or login past its check issues afterwards,
  survive the reset.
* Two tabs have a `refreshPromise` each, and refreshing together looks like theft
  (`auth.py:315`); a rotation whose answer is lost does too.
* A stop between INCR and EXPIRE leaves a lockout without a TTL (`auth.py:127`).
* A sync that brings no news can still rename: when the model names two plans the other way
  round, the first one gets a label with its price, since the other still holds the name, and
  only the next sync gives it the name (`_resolve_label`).  `KnownStays` allows for names.
* "Sibling clusters need distinct labels" (`subscription_pipeline.py:16`), but for a merchant whose name
  normalizes to nothing the key is the label with its price (`subscription_detector.py:217`), no price
  is put back on the model's name, and two clusters may get one label; `_resolve_label`
  tells their rows apart.
* A relabeling is written outside a savepoint: when it loses the label to another sync, the job's
  whole upsert is rolled back (`subscription_sync.py:175`).
* With the 90 days a job looks at (`subscription_sync.py`), charges twelve months apart
  are never together and charges three months apart hardly ever, so yearly plans are not found.

## Proofs

Eight modules; `TypeCorrect` is a theorem of each.

`TransactionStoreProofs` proves, for every set of transactions and sessions, page
size and history length: `FetchIsExact` (also for overlapping syncs),
and, from the assumption `Serialized`, `TableNeverStale` and `ImplementsReplica`.
Its invariant `IInv` adds to the types: `Versioned` (a version that a transaction
shows at two points of the history it shows in between: without it a row outside the
difference could have changed and changed back), `Gathering` (the lists hold the
part of one difference that the pages delivered so far) and `Exclusive` (one sync,
on the stored cursor).  The central step is `FreshCommit`: a row in the difference
becomes what Plaid has at the new cursor; a row outside it cannot have changed
between the two cursors; a torn row whose witness lies before the new cursor would
be in the difference.

`ItemSyncProofs` proves `SyncsSerialized`, `WorkIsShown` and `CursorNeverBack` for any
Items, slots, tries and deaths.  `IInv` is `TypeOK`, `OneSyncPerItem`, `WorkShowsSyncing` and `Behind`: a
job at work on an Item loaded the cursor the Item still has, and what it fetched is
no older.  `Behind` is what makes the cursor advance, and it is inductive only with
`OneSyncPerItem`: a second job would move the cursor under the first.

`AlertGenerationProofs` proves `ImplementsLedger` for any users, subscriptions, days and
a finite set of runs.  `IInv` is `TypeOK`, `Apart` (no two open transactions hold one key) and
`Collects` (a run holds keys only inside its transaction, and only of charges with no
committed alert and a user who exists): the unique index and the foreign key,
stated for what is not committed yet.  `owed` is a cardinality, so each step
of a run shows that the set of owing runs gains or loses exactly that run.
`AtMostOneEmail` adds `Announced`, which bounds the emails sent *and owed* for a charge by
the alerts it has had: the emails alone are not inductive, since a run that sends needs to
know that no other run owes the same.  `RunsCover` adds `Covering`: while a run inserts, each charge
it selected is still to do, being written, in its transaction, or settled, and settled
charges stay so whatever the other runs and the user do.

`AccountLinkingProofs` proves `UnlinkNeverOrphans`, `NeverResurrected`, `LastBankLeavesNone` and
`DeletionRevokesAll` for any banks, merchants and requests, in every interleaving and with every
fault.  `IInv` is `TypeOK`, `RevokedFirst` (an unlink past its call has its
Item removed at Plaid) and `RemovedInactive` (a subscription the user removed is not active).
For the unlink of the last bank, `Undisturbed` says of a request that is still
`alone` that no other request or job is under way (`Alone`), and that it knows whether it has the last bank, and its
scan found every active subscription (`Finds`); whatever begins next to it takes its `alone` away.  For the
deletion, `Tracked` says that every live Item of a complete linking has its row, and that what the deletion knew
is removed or still on its list.

`SessionsProofs` proves `RevocationHolds`, `LogoutHolds` and `EndedForGood` for any browsers,
tabs, calls and lives with AccessLife <= RefreshLife.  `IInv` is `Clock` (the marker lies in the past and
outlives every refresh token it revokes), `Tokens` (a blocklist entry ends in the last second of its
token or later), `Refs` (nobody holds a pair that was not minted), `Working` (a refresh past its
check has a token, and its call awaits it) and `Room` (the bound on pairs leaves one
for each call that may still rotate; without it the type of `pair` is not
inductive).  `RevokedStaysOut` then splits on the marker: while it lives it refuses the
pair, and once it is gone the pair is past its own life.
`OwnClientNeverBurned` assumes `OneTab`, one tab per browser, which makes the shared `refreshPromise`
cover all that browser's refreshes.  Its invariant `Sound` holds as long as no answer was lost:
no two browsers hold pairs of one family, a refresh under way presents its family's current
pair, and a cookie is current unless the answer to a rotation is on its way.

`LoginGateProofs` proves `FactorNeverHollow`, `LockoutBound`, `ResetEndsSessions` and `NoBypass` for
any finite set of requests and any limits.  `IInv` is `TypeOK`, `Account` (a second factor that is on has a
user and a secret), `Sound` (what a request's kind and point imply; a guarded one past its
load has seen the second factor), `Counted` (the failures and the attempts past
the check together stay within the bound: the failures alone are not
inductive) and `Opened` (but for a reset under way or broken off, every session has the current
password or was spared, and so has what a login, a registration or a refresh past its
check is about to open, or it is stale).

`WebhookVerificationProofs` proves `KeysExpire` and `GenuinePasses` for any webhooks, versions, lives
and bounds with Timeout < CacheTTL.  `IInv` is `TypeOK`, `Serving` (what the endpoint serves is not
retired), `Stamps` (no entry or fetch is stamped after the retirement of its key, since the
clock is read before the endpoint is), `Served` (the fetch of a genuine webhook brings its
key) and `Keyed`.

`SubscriptionProofs` proves two components, which meet in `DistinctPlans`.

Of `SubscriptionUpsert` it proves `IndexHolds` (committed labels are unique), `EachDetectionKept` and
`LoserDegrades` for any banks, detections, labels, rows and edits, and, from `DistinctPlans`,
`TwinsNeverMade` and `KnownNeverChanges`.  `DistinctPlans` says that the detections of one merchant in one
report differ in amount, which is `SiblingsDistinct` of the pipeline, proved below.
`IInv` speaks of a job *and* of what its transaction sees: `Orderly` (a job writes only rows
that it loaded and a detection took), `Distinct` (labels are unique as each
transaction sees the table) and `Apart` (no two transactions hold a row or a label in common):
only the last two together survive a commit, which turns the view of one job into the table under
another.  For a job with nothing next to it, `Fresh` (its objects are what the table
holds), `Aimed` (a detection whose exact amount is there got a row with it) and `Outcomes`
(each detection behind has its row, met the user's removal, or ran out of labels,
held by rows that this job will not touch again).  `Twins` and `Repeating` are added for the last two
theorems.  The steps of a job are first restated as what they make of it (`Moved`), so that
each part of the invariant is a lemma about one job, and the interleavings are left to four
lemmas: a move, a commit, a beginning, an edit.

Of `SubscriptionPipeline` it proves `SiblingsDistinct`, `ForecastInTime`, `SteadyFound` and
`OrderIrrelevant` for any transactions a bank may report (`PipelineAssumption` asks only that
`Statements \subseteq Seq(Transaction)`: amounts are any integers, dates those of Python's calendar),
any answers of the model (its confidence is clamped to 0..99 by the code) and any budget of calls.  The loop itself needs little:
`LoopInv` (what is to be gone through, was asked or was accepted comes from what was
detected), `ApartInv` (what is accepted and what is to come are told apart, by amounts and by
the price in a label or, without a name, in a key) and `NothingLost` (a candidate of 65 percent is still to come, accepted,
or lost to an answer or to the budget).  The work is in the operators:

* Sums, sorting, clusters and joined sequences are recursive functions, whose values the prover
  knows only from step to step.  The library's induction theorems take a predicate and cannot be
  cited; `InductionUpTo` says the same of a *set* of naturals and is proved from well-foundedness, and
  `Recursion` gets the function that a recursion defines in the same way.  From these: a sum does not
  depend on the order (`PermutedSum`), a stable insertion sort is an ascending permutation
  (`SortedPermutes`, `SortedAscends`), what is joined has each element in one place (`FlattenPlaces`).
* `Clustered` is the invariant of `_cluster_by_amount`: a cluster starts above what the one before
  averages, rounding included, so averages never meet (`ClusterAverages`).  The averages of a cluster
  are compared without division, and a cluster of cents (`lo = 1`) is a case of its own.
* `DayNumber` is shown to count days (`YearStep`, `MonthStep`, `StartLater`: a date of a later month has a
  larger number), so the charges of consecutive months are in the order of their months, 28 to 31
  days apart (`MonthlySorted`, by `Staircase`: as many months as charges), which makes the
  frequency monthly, the score of the intervals 85 at least (`MonthlyIntervals`), the confidence
  65 at least (`SteadyConfidence`) and the forecast at most three days early (`DueDate`).
* For `OrderIrrelevant`, a permutation of the transactions rearranges the charges of each merchant
  (`InOrderRearranged`); two rearrangements of some charges have the same amounts in ascending order
  (`AscendingOnce`, by the pigeonhole principle), so both are cut into clusters at the same
  places (`CutAlike`), where the amounts rise: what lies between two cuts is the same
  charges (`ClustersRearranged`), on the same days, and makes the same candidate (`SameCandidate`).

The `MAXYEAR` of the calendar is used only for its being a bound.

Only model-checked: liveness (`QueuedJobDelivers`, `SyncingEnds`, `AlertMailed`, `UnlinkRetried`,
`CallEnds`, `WebhookVerified`, `JobEnds`), which is out of the prover's reach.  Every other property of a
passing run is the statement of a theorem.  `PlaidFeed` and the `MC` modules have nothing to prove.

## Plan

Done: the core (store, jobs, alerts, linking), then sessions, login, webhook
verification, detection and the upsert; and a theorem for each safety and action property of
their runs.  Left: that the model is asked about the most promising candidates first; the safety
half of `SyncingEnds` and `JobEnds` (a cycle of waits always has a victim to end it, a row marked
"syncing" has a job or a request behind it).

## Not modelled

* Encryption of tokens, rendering and sending of an email, page components, the wrappers of single
  API calls: no state, or pure I/O.
* Middleware, rate limits, observability: configuration of libraries; a rate limit
  only removes behaviours from the models.
* The polling of `Dashboard.jsx` (at most 40 reads), the spending summary and other read-only queries.
* `detect_subscriptions` in `subscription_detector.py`: nothing calls it.  `normalize_merchant` is the
  constant `Canonical`, the prompt and parsing of the model's answer the set `Answers`.
* The body hash of a webhook and TOTP codes: a constant fact of each request.
* Migrations: one-off scripts; the unique indexes and defaults they leave are in the models.
