-------------------------- MODULE AlertGeneration --------------------------
(***************************************************************************)
(* Alert generation by the daily cron job and by the users themselves      *)
(* (services/alert_service.py, routes/alerts.py, worker.py), over the      *)
(* subscriptions that syncs and users keep changing.                       *)
(*                                                                         *)
(* PostgreSQL is external: an insert whose unique key another transaction  *)
(* has inserted waits for that transaction, and fails if it commits; a     *)
(* cycle of waiting transactions ends with an error in one of them.        *)
(***************************************************************************)
EXTENDS Naturals, FiniteSets

CONSTANTS
    Sub,        \* subscriptions
    User,
    Owner,      \* Owner[s]: the user of subscription s
    Run,        \* generations that may overlap
    CronRun,    \* the one of the cron job: over all users
    NoCharge,   \* a run that waits for no insert
    MaxDay,     \* bound on the days
    DueDay,     \* the days on which charges fall in this instance
    DaysAhead,  \* days_ahead
    Faults      \* what may go wrong in this instance, out of FaultKinds

\* The process of a run stops or is cut by job_timeout; Resend refuses.
FaultKinds == {"crash", "mail"}

Day == 1..MaxDay

Charge == Sub \X DueDay

ASSUME AlertAssumption ==
    /\ Owner \in [Sub -> User]
    /\ IsFiniteSet(Run)
    /\ CronRun \in Run
    /\ NoCharge \notin Charge
    /\ MaxDay \in Nat \ {0}
    /\ DueDay \subseteq Day
    /\ DaysAhead \in Nat
    /\ Faults \subseteq FaultKinds

VARIABLES
    today,
    due,       \* due[s]: next_expected, or 0 if there is none or s is inactive
    alert,     \* alert[c]: the committed row of charge c, "none" if there is none
    removed,   \* charges whose alert the user deleted (at most once each)
    optIn,     \* users with alert_email
    gone,      \* users who deleted their account
    emailed,   \* emailed[c]: emails that announced c
    run        \* run[r]: the generation r in progress

vars == <<today, due, alert, removed, optIn, gone, emailed, run>>

Of(u) == {c \in Charge : Owner[c[1]] = u}

Generation == [pc : {"idle", "selected", "inserting", "committed", "mailing", "failed"},
               subs : SUBSET Charge,      \* the SELECT over subscriptions
               todo : SUBSET Charge,      \* not yet inserted
               want : Charge \cup {NoCharge},   \* the insert under way
               mine : SUBSET Charge,      \* new_by_user
               mailTo : SUBSET User]

Idle == [pc |-> "idle", subs |-> {}, todo |-> {}, want |-> NoCharge, mine |-> {},
         mailTo |-> {}]

Init ==
    /\ today = 1
    /\ due \in [Sub -> DueDay \cup {0}]
    /\ alert = [c \in Charge |-> "none"]
    /\ removed = {}
    /\ optIn \in SUBSET User
    /\ gone = {}
    /\ emailed = [c \in Charge |-> 0]
    /\ run = [r \in Run |-> Idle]

---------------------------------------------------------------------------
(* Around the generations *)

NextDay ==
    /\ today < MaxDay
    /\ today' = today + 1
    /\ UNCHANGED <<due, alert, removed, optIn, gone, emailed, run>>

\* A sync or the user moves the date, deactivates or reactivates.
SetDue(s, d) ==
    /\ Owner[s] \notin gone
    /\ due' = [due EXCEPT ![s] = d]
    /\ UNCHANGED <<today, alert, removed, optIn, gone, emailed, run>>

MarkRead(c) ==
    /\ alert[c] # "none"
    /\ alert' = [alert EXCEPT ![c] = "read"]
    /\ UNCHANGED <<today, due, removed, optIn, gone, emailed, run>>

DeleteAlert(c) ==
    /\ alert[c] # "none"
    /\ c \notin removed
    /\ alert' = [alert EXCEPT ![c] = "none"]
    /\ removed' = removed \cup {c}
    /\ UNCHANGED <<today, due, optIn, gone, emailed, run>>

SetAlertEmail(u) ==
    /\ u \notin gone
    /\ optIn' = IF u \in optIn THEN optIn \ {u} ELSE optIn \cup {u}
    /\ UNCHANGED <<today, due, alert, removed, gone, emailed, run>>

\* Everything of the user is deleted in one transaction.  It waits for
\* the inserts that refer to the user's subscriptions.
DeleteAccount(u) ==
    /\ u \notin gone
    /\ \A r \in Run : run[r].pc = "inserting" => run[r].mine \cap Of(u) = {}
    /\ gone' = gone \cup {u}
    /\ due' = [s \in Sub |-> IF Owner[s] = u THEN 0 ELSE due[s]]
    /\ alert' = [c \in Charge |-> IF c \in Of(u) THEN "none" ELSE alert[c]]
    /\ UNCHANGED <<today, removed, optIn, emailed, run>>

---------------------------------------------------------------------------
(* generate_upcoming_alerts *)

\* The subscriptions due within days_ahead days, of one user or of all.
Upcoming(users) ==
    {c \in Charge : /\ Owner[c[1]] \in users
                    /\ c[2] = due[c[1]]
                    /\ c[2] >= today /\ c[2] <= today + DaysAhead}

Scope(r, users) == IF r = CronRun THEN users = User ELSE \E u \in User : users = {u}

Begin(r, users) ==
    /\ run[r].pc \in {"idle", "failed"}
    /\ Scope(r, users)
    /\ run' = [run EXCEPT ![r] = [Idle EXCEPT !.pc = "selected", !.subs = Upcoming(users)]]
    /\ UNCHANGED <<today, due, alert, removed, optIn, gone, emailed>>

\* The second query: already_alerted.
ReadAlerted(r) ==
    /\ run[r].pc = "selected"
    /\ run' = [run EXCEPT ![r].pc = "inserting",
                          ![r].todo = {c \in run[r].subs : alert[c] = "none"}]
    /\ UNCHANGED <<today, due, alert, removed, optIn, gone, emailed>>

\* The next subscription, in the order of the SELECT, which is any.
TryInsert(r, c) ==
    /\ run[r].pc = "inserting"
    /\ run[r].want = NoCharge
    /\ c \in run[r].todo
    /\ run' = [run EXCEPT ![r].want = c, ![r].todo = @ \ {c}]
    /\ UNCHANGED <<today, due, alert, removed, optIn, gone, emailed>>

\* Run r waits for run o: the unique index holds its key, uncommitted.
WaitsFor(r, o) ==
    /\ r # o
    /\ run[o].pc = "inserting"
    /\ run[r].want \in run[o].mine

\* Mutant: the alert is emailed although the savepoint was rolled back.
InsertAnyway(r) ==
    /\ run[r].want # NoCharge
    /\ \A o \in Run : ~WaitsFor(r, o)
    /\ run' = [run EXCEPT ![r].want = NoCharge, ![r].mine = @ \cup {run[r].want}]
    /\ UNCHANGED <<today, due, alert, removed, optIn, gone, emailed>>

\* Mutant: a key that another run holds is taken for inserted.
InsertSkipsHeld(r) ==
    LET c == run[r].want
        held == \E o \in Run : WaitsFor(r, o)
    IN  /\ c # NoCharge
        /\ run' = [run EXCEPT ![r].want = NoCharge,
                              ![r].mine = IF held \/ alert[c] # "none" \/ Owner[c[1]] \in gone
                                          THEN @ ELSE @ \cup {c}]
        /\ UNCHANGED <<today, due, alert, removed, optIn, gone, emailed>>

\* The insert in its savepoint: it joins the transaction, or violates the
\* unique index or the foreign key, and the charge is skipped.
Insert(r) ==
    LET c == run[r].want
        violates == alert[c] # "none" \/ Owner[c[1]] \in gone
    IN  /\ c # NoCharge
        /\ \A o \in Run : ~WaitsFor(r, o)
        /\ run' = [run EXCEPT ![r].want = NoCharge,
                              ![r].mine = IF violates THEN @ ELSE @ \cup {c}]
        /\ UNCHANGED <<today, due, alert, removed, optIn, gone, emailed>>

InCycle(r) ==
    \E C \in SUBSET Run :
        /\ r \in C
        /\ \A o \in C : /\ \E p \in C : WaitsFor(o, p)
                        /\ \E p \in C : WaitsFor(p, o)

\* PostgreSQL's choice of the run to fail; its transaction is rolled back.
DeadlockVictim(r) ==
    /\ InCycle(r)
    /\ run' = [run EXCEPT ![r] = [Idle EXCEPT !.pc = "failed"]]
    /\ UNCHANGED <<today, due, alert, removed, optIn, gone, emailed>>

Inserted(r) == run[r].pc = "inserting" /\ run[r].todo = {} /\ run[r].want = NoCharge

\* Mutant: the transaction is never committed.
CommitForgotten(r) ==
    /\ Inserted(r)
    /\ run[r].mine # {}
    /\ run' = [run EXCEPT ![r].pc = "committed"]
    /\ UNCHANGED <<today, due, alert, removed, optIn, gone, emailed>>

Commit(r) ==
    /\ Inserted(r)
    /\ run[r].mine # {}
    /\ alert' = [c \in Charge |-> IF c \in run[r].mine THEN "unread" ELSE alert[c]]
    /\ run' = [run EXCEPT ![r].pc = "committed"]
    /\ UNCHANGED <<today, due, removed, optIn, gone, emailed>>

NothingNew(r) ==
    /\ Inserted(r)
    /\ run[r].mine = {}
    /\ run' = [run EXCEPT ![r] = Idle]
    /\ UNCHANGED <<today, due, alert, removed, optIn, gone, emailed>>

\* Mutant: one user is looked up instead of all.
SelectOneUser(r) ==
    /\ run[r].pc = "committed"
    /\ \E u \in {Owner[c[1]] : c \in run[r].mine} :
          run' = [run EXCEPT ![r].pc = "mailing", ![r].mailTo = {u} \cap (optIn \ gone)]
    /\ UNCHANGED <<today, due, alert, removed, optIn, gone, emailed>>

\* Mutant: the users are looked up by the ids of the subscriptions.
SelectBySub(r) ==
    /\ run[r].pc = "committed"
    /\ run' = [run EXCEPT ![r].pc = "mailing", ![r].mailTo = {c[1] : c \in run[r].mine}]
    /\ UNCHANGED <<today, due, alert, removed, optIn, gone, emailed>>

\* Who gets an email.
SelectUsers(r) ==
    /\ run[r].pc = "committed"
    /\ run' = [run EXCEPT ![r].pc = "mailing",
                          ![r].mailTo = {Owner[c[1]] : c \in run[r].mine} \cap (optIn \ gone)]
    /\ UNCHANGED <<today, due, alert, removed, optIn, gone, emailed>>

\* One email with all the new alerts of one user, after the other ...
Send(r, u) ==
    /\ run[r].pc = "mailing"
    /\ u \in run[r].mailTo
    /\ run' = [run EXCEPT ![r].mailTo = @ \ {u}]
    /\ emailed' = [c \in Charge |-> IF c \in run[r].mine \cap Of(u) THEN emailed[c] + 1
                                    ELSE emailed[c]]
    /\ UNCHANGED <<today, due, alert, removed, optIn, gone>>

\* ... or a failure, which send_alert_email logs and reports to nobody.
SendFails(r, u) ==
    /\ "mail" \in Faults
    /\ run[r].pc = "mailing"
    /\ u \in run[r].mailTo
    /\ run' = [run EXCEPT ![r].mailTo = @ \ {u}]
    /\ UNCHANGED <<today, due, alert, removed, optIn, gone, emailed>>

Done(r) ==
    /\ run[r].pc = "mailing"
    /\ run[r].mailTo = {}
    /\ run' = [run EXCEPT ![r] = Idle]
    /\ UNCHANGED <<today, due, alert, removed, optIn, gone, emailed>>

\* A crash or job_timeout: what was not committed is rolled back.
Crash(r) ==
    /\ "crash" \in Faults
    /\ run[r].pc \notin {"idle", "failed"}
    /\ run' = [run EXCEPT ![r] = Idle]
    /\ UNCHANGED <<today, due, alert, removed, optIn, gone, emailed>>

Goes(r) ==
    \/ ReadAlerted(r) \/ Insert(r) \/ Commit(r) \/ NothingNew(r) \/ SelectUsers(r) \/ Done(r)
    \/ DeadlockVictim(r)
    \/ \E c \in Charge : TryInsert(r, c)
    \/ \E u \in User : Send(r, u) \/ SendFails(r, u)

Next ==
    \/ NextDay
    \/ \E s \in Sub, d \in DueDay \cup {0} : SetDue(s, d)
    \/ \E c \in Charge : MarkRead(c) \/ DeleteAlert(c)
    \/ \E u \in User : SetAlertEmail(u) \/ DeleteAccount(u)
    \/ \E r \in Run : Goes(r) \/ Crash(r) \/ \E users \in SUBSET User : Begin(r, users)

Spec == Init /\ [][Next]_vars

\* A generation in progress goes on, and the cron job starts again and again.
FairSpec ==
    /\ Spec
    /\ \A r \in Run : WF_vars(Goes(r))
    /\ WF_vars(Begin(CronRun, User))

---------------------------------------------------------------------------
(* Properties *)

\* Every variable has its type.
TypeOK ==
    /\ today \in Day
    /\ due \in [Sub -> DueDay \cup {0}]
    /\ alert \in [Charge -> {"none", "unread", "read"}]
    /\ removed \subseteq Charge
    /\ optIn \subseteq User
    /\ gone \subseteq User
    /\ emailed \in [Charge -> Nat]
    /\ run \in [Run -> Generation]

\* Whoever generates and however the runs overlap, a charge is announced by
\* at most one email, plus one if the user deleted its alert
\* (generate_upcoming_alerts: "Idempotent").
EmailedOnce ==
    \A c \in Charge : emailed[c] <= IF c \in removed THEN 2 ELSE 1

\* A run that ends on its own, skips included, leaves every charge it selected
\* with an alert, unless the user deleted that alert or the account.
RunCovers ==
    [][\A r \in Run : Commit(r) \/ NothingNew(r) =>
          \A c \in run[r].subs : \/ alert'[c] # "none"
                                 \/ c \in removed
                                 \/ Owner[c[1]] \in gone]_vars

\* The abstract ledger: owed are the emails of committed alerts that a run
\* still has ahead.
Owes(r) ==
    CASE run[r].pc = "committed" -> run[r].mine
      [] run[r].pc = "mailing" -> {c \in run[r].mine : Owner[c[1]] \in run[r].mailTo}
      [] OTHER -> {}

Owed == [c \in Charge |-> Cardinality({r \in Run : c \in Owes(r)})]

Ledger == INSTANCE AlertLedger WITH owed <- Owed

\* The overlapping runs implement the ledger: alerts are made only for charges
\* that have none, read ones stay read, no email but for a committed alert.
LedgerSpec == Ledger!Spec

\* "Email alerts via Resend when subscriptions are due within 7 days": a user
\* who wants emails when the alert is committed gets one, or turns them off, or
\* leaves.
AlertMailed ==
    \A r \in Run, c \in Charge :
        run[r].pc = "committed" /\ c \in run[r].mine /\ Owner[c[1]] \in optIn \ gone ~>
            emailed[c] > 0 \/ Owner[c[1]] \notin optIn \ gone
=============================================================================
