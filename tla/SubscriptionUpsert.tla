------------------------ MODULE SubscriptionUpsert ------------------------
(***************************************************************************)
(* What the sync jobs of one user's banks write to the subscriptions       *)
(* (upsert_detected_subscriptions in services/subscription_sync.py), next  *)
(* to what the user adds, edits and removes (routes/transactions.py).      *)
(*                                                                         *)
(* A job goes through its detections in one transaction; the row found for *)
(* one is an object, of which only the columns that it changed are written *)
(* (the identity map is weak: rows that were looked at and not taken are   *)
(* read afresh).                                                           *)
(* PostgreSQL is external: a write to a row, or of a label, that another   *)
(* transaction has written waits for that transaction; a cycle of waiting  *)
(* transactions ends with an error in one of them.  The database holds the *)
(* rows of one user, so a label is unique per source.  Frequency, category *)
(* and dates follow the amount and are left out.                           *)
(***************************************************************************)
EXTENDS Naturals, Sequences, FiniteSets, SequencesExt

CONSTANTS
    Bank,         \* linked accounts: arq runs one job at a time for each
    NoBank,
    Detections,   \* what the pipeline may return, in its order
    UserLabels,   \* labels that the user may type
    UserAmounts,
    NoKey,        \* rows from before merchant_key
    MaxRow,       \* bound on the rows
    MaxEdits,     \* bound on the requests of the user
    MaxRounds     \* bound on the jobs and those requests together

ASSUME UpsertAssumption ==
    /\ NoBank \notin Bank
    /\ \A ds \in Detections :
          /\ ds \in Seq(ToSet(ds))
          /\ \A d \in ToSet(ds) : d.key # NoKey /\ d.amount \in Nat \ {0}
    /\ UserAmounts \subseteq Nat \ {0}
    /\ MaxRow \in Nat /\ MaxRounds \in Nat /\ MaxEdits \in Nat

VARIABLES
    row,       \* row[id]: the committed subscription, NoRow if there is none
    job,       \* job[b]: the upsert of bank b in progress
    rounds, edits

vars == <<row, job, rounds, edits>>

Id == 1..MaxRow

NoRow == [source |-> "none"]

Subscription(label, key, amount, source, bank) ==
    [label |-> label, key |-> key, amount |-> amount, source |-> source, bank |-> bank,
     active |-> TRUE]

NoJob == [pc |-> "idle", detected |-> <<>>, got |-> <<>>, loaded |-> <<>>, pending |-> <<>>,
          target |-> 0, label |-> <<>>, retry |-> FALSE, alone |-> FALSE]

\* No rows, or one from before merchant_key and linked_account_id.
Init ==
    /\ row \in {[id \in Id |-> NoRow]}
               \cup {[[id \in Id |-> NoRow] EXCEPT
                         ![1] = Subscription(l, NoKey, a, "plaid", NoBank)] :
                     l \in UserLabels, a \in UserAmounts}
    /\ job = [b \in Bank |-> NoJob]
    /\ rounds = 0
    /\ edits = 0

---------------------------------------------------------------------------
(* PostgreSQL *)

\* The database as the transaction of bank b sees it.
Sees(b, id) == IF id \in DOMAIN job[b].pending THEN job[b].pending[id] ELSE row[id]

Locked(id) == {b \in Bank : id \in DOMAIN job[b].pending}

\* The transactions that hold this label of this source, new or old.
Holders(label, source) ==
    {b \in Bank : \E id \in DOMAIN job[b].pending :
        \E r \in {job[b].pending[id], row[id]} :
            r.source = source /\ r.label = label}

\* Another row has it, committed.
Violates(b, id, label, source) ==
    \E other \in Id \ {id} : /\ Sees(b, other).source = source
                             /\ Sees(b, other).label = label

---------------------------------------------------------------------------
(* The user *)

Edited ==
    /\ edits < MaxEdits /\ rounds + edits < MaxRounds
    /\ edits' = edits + 1
    /\ job' = [b \in Bank |-> [job[b] EXCEPT !.alone = FALSE]]
    /\ UNCHANGED rounds

\* delete_subscription
Delete(id) ==
    /\ row[id].source # "none" /\ row[id].active
    /\ Locked(id) = {}
    /\ row' = [row EXCEPT ![id].active = FALSE]
    /\ Edited

\* update_subscription; a label that is taken is answered 409.
Edit(id, label, amount) ==
    /\ row[id].source # "none" /\ row[id].active
    /\ Locked(id) = {} /\ Holders(label, row[id].source) = {}
    /\ \A other \in Id \ {id} :
          ~(row[other].source = row[id].source /\ row[other].label = label)
    /\ row' = [row EXCEPT ![id].label = label, ![id].amount = amount]
    /\ Edited

Free == {id \in Id : row[id] = NoRow /\ Locked(id) = {}}

\* add_manual_subscription: a removed row comes back, an active one is a 409.
AddManual(id, label, amount) ==
    LET same == {x \in Id : row[x].source = "manual" /\ row[x].label = label}
    IN  /\ IF same = {} THEN id \in Free /\ \A x \in Free : id <= x ELSE id \in same /\ ~row[id].active
        /\ row' = [row EXCEPT ![id] =
                      IF same = {} THEN Subscription(label, NoKey, amount, "manual", NoBank)
                      ELSE [@ EXCEPT !.amount = amount, !.active = TRUE]]
        /\ Edited

---------------------------------------------------------------------------
(* upsert_detected_subscriptions *)

Running(b) == job[b].pc # "idle"

Begin(b, detected) ==
    /\ ~Running(b)
    /\ rounds + edits < MaxRounds
    /\ rounds' = rounds + 1
    /\ job' = [c \in Bank |->
                  IF c = b THEN [NoJob EXCEPT !.pc = "find", !.detected = detected,
                                              !.alone = \A o \in Bank : ~Running(o)]
                  ELSE [job[c] EXCEPT !.alone = FALSE]]
    /\ UNCHANGED <<row, edits>>

\* The detection at hand.
Sub(b) == job[b].detected[Len(job[b].got) + 1]

More(b) == Len(job[b].got) < Len(job[b].detected)

Moves(b, j) == job' = [job EXCEPT ![b] = j] /\ UNCHANGED <<row, rounds, edits>>

\* The object of a row: as it was when a detection found it, or a fresh one.
Object(b, id) == IF id \in DOMAIN job[b].loaded THEN job[b].loaded[id] ELSE Sees(b, id)

Put(f, id, r) == [x \in DOMAIN f \cup {id} |-> IF x = id THEN r ELSE f[x]]

Far(x, y) == IF x > y THEN x - y ELSE y - x

Top(x, y) == IF x > y THEN x ELSE y

\* amount_diff(x, s) <= amount_diff(y, s), and within AMOUNT_MATCH_TOLERANCE.
AsClose(x, y, s) == Far(x, s) * Top(y, s) <= Far(y, s) * Top(x, s)

WithinTolerance(x, s) == 100 * Far(x, s) <= 40 * Top(x, s)

\* Mutant: the key alone identifies.
CandidatesByKey(b) ==
    {id \in Id : /\ Sees(b, id).source = "plaid"
                 /\ Sees(b, id).key = Sub(b).key
                 /\ id \notin ToSet(job[b].got)}

\* The rows of the same merchant or label that no detection took yet.
Candidates(b) ==
    {id \in Id : /\ Sees(b, id).source = "plaid"
                 /\ Sees(b, id).key = Sub(b).key \/ Sees(b, id).label = Sub(b).label
                 /\ id \notin ToSet(job[b].got)}

\* Mutant: the first row of the merchant, whatever its amount.
AnyMatches(b) == Candidates(b)

\* _find_existing: the closest amount within the tolerance, in any order of
\* equals; else the row of that label.
Matches(b) ==
    LET found == Candidates(b)
        amount(id) == Sees(b, id).amount
        best == {id \in found : \A x \in found : AsClose(amount(id), amount(x), Sub(b).amount)}
        near == {id \in best : WithinTolerance(amount(id), Sub(b).amount)}
    IN  IF near # {} THEN near
        ELSE {id \in found : Sees(b, id).label = Sub(b).label}

\* A row that the user removed is passed over.
Find(b) ==
    /\ job[b].pc = "find"
    /\ More(b)
    /\ \/ \E id \in Matches(b) :
             LET found == Put(job[b].loaded, id, Sees(b, id))
             IN  IF Sees(b, id).active
                 THEN Moves(b, [job[b] EXCEPT !.loaded = found, !.target = id, !.pc = "resolve"])
                 ELSE Moves(b, [job[b] EXCEPT !.loaded = found, !.got = Append(@, id),
                                              !.retry = FALSE])
       \/ /\ Matches(b) = {}
          /\ ~job[b].retry
          /\ Moves(b, [job[b] EXCEPT !.target = 0, !.pc = "resolve"])

\* Mutant: the row itself counts as well.
TakenByAny(b, label, exclude) ==
    \E id \in Id : /\ Sees(b, id).source # "none"
                   /\ Sees(b, id).label = label

Taken(b, label, exclude) ==
    \E id \in Id \ {exclude} : /\ Sees(b, id).source # "none"
                               /\ Sees(b, id).label = label

Suffixed(d) == [d.label EXCEPT !.prices = Append(@, d.amount)]

\* _resolve_label: the label, else one with the amount; else the old label is
\* kept, or a new subscription is skipped.
Resolve(b) ==
    LET d == Sub(b)
        id == job[b].target
        takes(label) == Moves(b, [job[b] EXCEPT !.label = label, !.pc = "write"])
    IN  /\ job[b].pc = "resolve"
        /\ CASE ~Taken(b, d.label, id) -> takes(d.label)
             [] Taken(b, d.label, id) /\ ~Taken(b, Suffixed(d), id) -> takes(Suffixed(d))
             [] OTHER ->
                  IF id = 0
                  THEN Moves(b, [job[b] EXCEPT !.got = Append(@, 0), !.pc = "find"])
                  ELSE takes(Object(b, id).label)

\* The object of the row that is updated, with its new values.
Updated(b) ==
    [Object(b, job[b].target) EXCEPT
        !.label = job[b].label, !.key = Sub(b).key, !.amount = Sub(b).amount,
        !.bank = IF @ = NoBank THEN b ELSE @]

Relabels(b) ==
    job[b].target # 0 => job[b].label # Object(b, job[b].target).label

\* What the write of job b waits for.
WaitsFor(b) ==
    IF job[b].pc # "write" THEN {}
    ELSE ((IF Relabels(b) THEN Holders(job[b].label, "plaid") ELSE {})
          \cup (IF job[b].target = 0 THEN {} ELSE Locked(job[b].target))) \ {b}

\* Another sync has taken the label since it was looked up.
LabelLost(b) == Relabels(b) /\ Violates(b, job[b].target, job[b].label, "plaid")

\* Mutant: the fresh row is not claimed.
InsertUnclaimed(b) ==
    /\ job[b].pc = "write" /\ job[b].target = 0
    /\ WaitsFor(b) = {}
    /\ ~LabelLost(b)
    /\ \E id \in Free :
          /\ \A x \in Free : id <= x
          /\ LET r == Subscription(job[b].label, Sub(b).key, Sub(b).amount, "plaid", b)
             IN  Moves(b, [job[b] EXCEPT !.pending = Put(@, id, r), !.loaded = Put(@, id, r),
                                         !.got = Append(@, 0), !.pc = "find", !.retry = FALSE])

\* The insert in its savepoint, and the claim of the fresh row ...
InsertRow(b) ==
    /\ job[b].pc = "write" /\ job[b].target = 0
    /\ WaitsFor(b) = {}
    /\ ~LabelLost(b)
    /\ \E id \in Free :
          /\ \A x \in Free : id <= x
          /\ LET r == Subscription(job[b].label, Sub(b).key, Sub(b).amount, "plaid", b)
             IN  Moves(b, [job[b] EXCEPT !.pending = Put(@, id, r), !.loaded = Put(@, id, r),
                                         !.got = Append(@, id), !.pc = "find", !.retry = FALSE])

\* Mutant: the insert is tried once more.
InsertAgain(b) ==
    /\ job[b].pc = "write" /\ job[b].target = 0
    /\ WaitsFor(b) = {}
    /\ LabelLost(b)
    /\ Moves(b, job[b])

\* ... or, as another sync has inserted the label meanwhile, one more look.
InsertLost(b) ==
    /\ job[b].pc = "write" /\ job[b].target = 0
    /\ WaitsFor(b) = {}
    /\ LabelLost(b)
    /\ Moves(b, [job[b] EXCEPT !.pc = "find", !.retry = TRUE])

\* The object gets its new values; the changed columns are written.
UpdateRow(b) ==
    LET id == job[b].target
        old == Object(b, id)
        new == Updated(b)
        written == [c \in DOMAIN old |-> IF new[c] # old[c] THEN new[c] ELSE Sees(b, id)[c]]
    IN  /\ job[b].pc = "write" /\ id # 0
        /\ WaitsFor(b) = {}
        /\ ~LabelLost(b)
        /\ Moves(b, [job[b] EXCEPT !.pending = IF new = old THEN @ ELSE Put(@, id, written),
                                   !.loaded = Put(@, id, new),
                                   !.got = Append(@, id), !.pc = "find", !.retry = FALSE])

\* The transaction is rolled back and the sync fails: the label of an update
\* is taken meanwhile, a lost insert finds no row, or PostgreSQL gives up one of
\* the transactions that wait for each other.
RelabelFails(b) ==
    /\ job[b].pc = "write" /\ job[b].target # 0
    /\ WaitsFor(b) = {}
    /\ LabelLost(b)
    /\ Moves(b, NoJob)

Raise(b) ==
    /\ job[b].pc = "find" /\ job[b].retry
    /\ More(b) /\ Matches(b) = {}
    /\ Moves(b, NoJob)

DeadlockVictim(b) ==
    /\ \E C \in SUBSET Bank : b \in C /\ \A c \in C : WaitsFor(c) \cap C # {}
    /\ Moves(b, NoJob)

Commit(b) ==
    /\ job[b].pc = "find"
    /\ ~More(b)
    /\ row' = [id \in Id |-> Sees(b, id)]
    /\ job' = [job EXCEPT ![b] = NoJob]
    /\ UNCHANGED <<rounds, edits>>

JobStep(b) ==
    Find(b) \/ Resolve(b) \/ InsertRow(b) \/ InsertLost(b) \/ UpdateRow(b) \/ RelabelFails(b)
    \/ Raise(b) \/ DeadlockVictim(b) \/ Commit(b)

Next ==
    \/ \E b \in Bank : JobStep(b) \/ \E detected \in Detections : Begin(b, detected)
    \/ \E id \in Id :
          \/ Delete(id)
          \/ \E label \in UserLabels, amount \in UserAmounts :
                Edit(id, label, amount) \/ AddManual(id, label, amount)

Spec == Init /\ [][Next]_vars

\* A job goes on.
FairSpec == Spec /\ \A b \in Bank : WF_vars(JobStep(b))

---------------------------------------------------------------------------
(* Properties *)

CommitsAlone(b) == Commit(b) /\ job[b].alone

Detected == {id \in Id : row[id].source = "plaid"}

Plaid(rows, key) == {id \in Id : rows[id].source = "plaid" /\ rows[id].key = key}

\* No detection of a round overwrites another: when the job commits, each has a
\* row with its amount, unless the user removed a subscription of that merchant
\* or label, or the label was used up ("one row per detection this round").
DetectionsKept ==
    [][\A b \in Bank : CommitsAlone(b) =>
          \A d \in ToSet(job[b].detected) :
              \/ \E id \in Plaid(row', d.key) : row'[id].amount = d.amount
              \/ \E id \in Detected : /\ ~row[id].active
                                      /\ row[id].key = d.key \/ row[id].label = d.label
              \/ /\ Taken(b, d.label, 0)
                 /\ \/ Taken(b, Suffixed(d), 0)
                    \/ \E id \in Detected : row[id].label = Suffixed(d)]_vars

\* A sync never gives one merchant two active subscriptions of one amount.
NoTwins ==
    [][\A b \in Bank : CommitsAlone(b) =>
          \A key \in {d.key : d \in ToSet(job[b].detected)} :
              \A x, y \in Plaid(row', key) :
                  /\ x # y
                  /\ row'[x].active /\ row'[y].active
                  /\ row'[x].amount = row'[y].amount
                  => /\ row[x] # NoRow /\ row[y] # NoRow
                     /\ row[x].amount = row[y].amount]_vars

\* A sync that finds what it knows already changes no more than names: when every
\* detection has a row with its amount, and no two rows have one amount, a row
\* gets at most the bank it had none of, and another label for one that was not
\* its detection's, or that the user has typed for a manual subscription as well.
KnownStays ==
    [][\A b \in Bank :
          /\ CommitsAlone(b)
          /\ \A d \in ToSet(job[b].detected) :
                \E id \in Plaid(row, d.key) : row[id].amount = d.amount
          /\ \A x, y \in Detected : x # y => row[x].amount # row[y].amount
          => \A id \in Id : row'[id] # row[id] =>
                \E d \in ToSet(job[b].detected) :
                    /\ row'[id] = [row[id] EXCEPT !.label = row'[id].label,
                                                 !.bank = IF @ = NoBank THEN b ELSE @]
                    /\ row[id].key = d.key /\ row[id].amount = d.amount
                    /\ \/ row[id].label = d.label => row'[id].label = d.label
                       \/ \E m \in Id : row[m].source = "manual" /\ row[m].label = d.label]_vars

\* "racing the unique index degrades to an update": whoever loses the race for
\* the label of a detection finds the row of the winner, unless an earlier detection
\* took that row, when it had another label, and it was renamed meanwhile.
LoserFindsRow ==
    [][\A b \in Bank :
          /\ InsertLost(b)
          /\ job[b].label = Sub(b).label
          /\ \A id \in Detected \cap ToSet(job[b].got) : row[id].label # job[b].label
          => Matches(b)' # {}]_vars

\* Two jobs that wait for each other, and lost races, never keep a job from
\* its end.
JobEnds == \A b \in Bank : Running(b) ~> ~Running(b)

\* "user deactivated it - don't resurrect": a sync makes no new subscription
\* of the merchant and the amount of a removed one.
RemovedStaysRemoved ==
    [][\A b \in Bank : CommitsAlone(b) =>
          \A key \in {d.key : d \in ToSet(job[b].detected)} :
              \A x, id \in Plaid(row', key) :
                  row[id] = NoRow /\ x # id /\ row'[x].amount = row'[id].amount
                  => row'[x].active]_vars
===========================================================================
