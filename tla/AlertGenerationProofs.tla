----------------------- MODULE AlertGenerationProofs -----------------------
(***************************************************************************)
(* AlertGeneration for any users, subscriptions, days and number of        *)
(* overlapping runs: types, the implementation of AlertLedger, at most one *)
(* email for an alert, and no charge left out by a run.                    *)
(***************************************************************************)
EXTENDS AlertGeneration, FiniteSetTheorems, TLAPS

---------------------------------------------------------------------------
(* The inductive invariant *)

\* A run collects alerts in its transaction only, and the unique index and the
\* foreign key hold for what it has not committed yet as well.
Collects(r) ==
    /\ run[r].pc = "selected" => run[r].mine = {}
    /\ run[r].want # NoCharge => run[r].pc = "inserting"
    /\ run[r].pc = "inserting" =>
          \A c \in run[r].mine : alert[c] = "none" /\ Owner[c[1]] \notin gone

Apart ==
    \A r, o \in Run : r # o /\ run[r].pc = "inserting" /\ run[o].pc = "inserting" =>
        run[r].mine \cap run[o].mine = {}

IInv == TypeOK /\ Apart /\ \A r \in Run : Collects(r)

---------------------------------------------------------------------------
(* A step of one run *)

\* One run moves on.
Moves(r) ==
    /\ run'[r] \in Generation
    /\ run' = [run EXCEPT ![r] = run'[r]]

LEMMA IdleType == Idle \in Generation /\ NoCharge \notin Charge
  BY AlertAssumption DEF Idle, Generation

LEMMA Others ==
    ASSUME TypeOK, NEW r \in Run, Moves(r)
    PROVE  /\ run' \in [Run -> Generation]
           /\ \A o \in Run \ {r} : run'[o] = run[o]
  BY DEF TypeOK, Moves

\* What each step does to its run.
LEMMA BeginMoves ==
    ASSUME TypeOK, NEW r \in Run, NEW users \in SUBSET User, Begin(r, users)
    PROVE  Moves(r) /\ run'[r].pc = "selected" /\ run'[r].mine = {} /\ run'[r].want = NoCharge
  <1> DEFINE g == [Idle EXCEPT !.pc = "selected", !.subs = Upcoming(users)]
  <1>1. Upcoming(users) \in SUBSET Charge
    BY DEF Upcoming
  <1>2. g \in Generation /\ g.pc = "selected" /\ g.mine = {} /\ g.want = NoCharge
    BY <1>1 DEF Idle, Generation
  <1>3. run' = [run EXCEPT ![r] = g]
    BY DEF Begin
  <1> HIDE DEF g
  <1> QED
    BY <1>2, <1>3 DEF TypeOK, Moves

LEMMA ReadAlertedMoves ==
    ASSUME TypeOK, NEW r \in Run, ReadAlerted(r)
    PROVE  /\ Moves(r) /\ run'[r].pc = "inserting"
           /\ run'[r].mine = run[r].mine /\ run'[r].want = run[r].want
           /\ run'[r].subs = run[r].subs
           /\ run'[r].todo = {c \in run[r].subs : alert[c] = "none"}
  <1>1. {c \in run[r].subs : alert[c] = "none"} \in SUBSET Charge
    BY DEF TypeOK, Generation
  <1> QED
    BY <1>1 DEF TypeOK, ReadAlerted, Moves, Generation

LEMMA TryInsertMoves ==
    ASSUME TypeOK, NEW r \in Run, NEW c \in Charge, TryInsert(r, c)
    PROVE  /\ Moves(r) /\ run[r].pc = "inserting" /\ run'[r].pc = "inserting"
           /\ run'[r].mine = run[r].mine /\ run[r].want = NoCharge
           /\ run'[r].want = c /\ run'[r].todo = run[r].todo \ {c}
           /\ run'[r].subs = run[r].subs
  BY DEF TypeOK, TryInsert, Moves, Generation

LEMMA InsertMoves ==
    ASSUME TypeOK, NEW r \in Run, Insert(r)
    PROVE  /\ Moves(r) /\ run'[r].pc = run[r].pc /\ run'[r].want = NoCharge
           /\ run'[r].subs = run[r].subs /\ run'[r].todo = run[r].todo
           /\ \/ /\ run'[r].mine = run[r].mine
                 /\ alert[run[r].want] # "none" \/ Owner[run[r].want[1]] \in gone
              \/ /\ run'[r].mine = run[r].mine \cup {run[r].want}
                 /\ run[r].want \in Charge /\ alert[run[r].want] = "none"
                 /\ Owner[run[r].want[1]] \notin gone
  <1> DEFINE c == run[r].want
             violates == alert[c] # "none" \/ Owner[c[1]] \in gone
             mine == IF violates THEN run[r].mine ELSE run[r].mine \cup {c}
  <1>1. run[r] \in Generation /\ c \in Charge
    BY DEF TypeOK, Insert, Generation
  <1>2. mine \in SUBSET Charge
    BY <1>1 DEF Generation
  <1>3. run' = [run EXCEPT ![r] = [run[r] EXCEPT !.want = NoCharge, !.mine = mine]]
    BY DEF Insert, TypeOK
  <1>4. \/ mine = run[r].mine /\ (alert[c] # "none" \/ Owner[c[1]] \in gone)
        \/ mine = run[r].mine \cup {c} /\ alert[c] = "none" /\ Owner[c[1]] \notin gone
    OBVIOUS
  <1> HIDE DEF mine, violates, c
  <1>5. run'[r] = [run[r] EXCEPT !.want = NoCharge, !.mine = mine]
    BY <1>3 DEF TypeOK
  <1>6. /\ run'[r] \in Generation /\ run'[r].pc = run[r].pc
        /\ run'[r].want = NoCharge /\ run'[r].mine = mine
        /\ run'[r].subs = run[r].subs /\ run'[r].todo = run[r].todo
    BY <1>1, <1>2, <1>5 DEF Generation
  <1>7. Moves(r)
    BY <1>3, <1>5, <1>6 DEF Moves
  <1> QED
    BY <1>1, <1>4, <1>6, <1>7 DEF c

LEMMA CommitMoves ==
    ASSUME TypeOK, NEW r \in Run, Commit(r)
    PROVE  /\ Moves(r) /\ run[r].pc = "inserting" /\ run'[r].pc = "committed"
           /\ run'[r].mine = run[r].mine /\ run'[r].want = NoCharge
  BY DEF TypeOK, Commit, Inserted, Moves, Generation

LEMMA SelectUsersMoves ==
    ASSUME TypeOK, NEW r \in Run, SelectUsers(r)
    PROVE  /\ Moves(r) /\ run'[r].pc = "mailing"
           /\ run'[r].mine = run[r].mine /\ run'[r].want = run[r].want
  <1>1. {Owner[c[1]] : c \in run[r].mine} \cap (optIn \ gone) \in SUBSET User
    BY DEF TypeOK
  <1> QED
    BY <1>1 DEF TypeOK, SelectUsers, Moves, Generation

LEMMA MailMoves ==
    ASSUME TypeOK, NEW r \in Run, NEW u \in User, Send(r, u) \/ SendFails(r, u)
    PROVE  /\ Moves(r) /\ run'[r].pc = "mailing"
           /\ run'[r].mine = run[r].mine /\ run'[r].want = run[r].want
           /\ run'[r].mailTo = run[r].mailTo \ {u}
  <1>1. run[r] \in Generation /\ run \in [Run -> Generation] /\ run[r].pc = "mailing"
    BY DEF TypeOK, Send, SendFails
  <1>2. run' = [run EXCEPT ![r] = [run[r] EXCEPT !.mailTo = run[r].mailTo \ {u}]]
    BY <1>1 DEF Send, SendFails
  <1>3. run'[r] = [run[r] EXCEPT !.mailTo = run[r].mailTo \ {u}]
    BY <1>1, <1>2
  <1>4. run[r].mailTo \ {u} \in SUBSET User
    BY <1>1 DEF Generation
  <1> QED
    BY <1>1, <1>2, <1>3, <1>4 DEF Moves, Generation

LEMMA EndMoves ==
    ASSUME TypeOK, NEW r \in Run,
           NothingNew(r) \/ Done(r) \/ Crash(r) \/ DeadlockVictim(r)
    PROVE  /\ Moves(r) /\ run'[r].pc \in {"idle", "failed"}
           /\ run'[r].mine = {} /\ run'[r].want = NoCharge
  <1>1. Idle \in Generation /\ Idle.pc = "idle" /\ Idle.mine = {} /\ Idle.want = NoCharge
    BY DEF Idle, Generation
  <1> DEFINE g == [Idle EXCEPT !.pc = "failed"]
  <1>2. g \in Generation /\ g.pc = "failed" /\ g.mine = {} /\ g.want = NoCharge
    BY DEF Idle, Generation
  <1>3. run' = [run EXCEPT ![r] = Idle] \/ run' = [run EXCEPT ![r] = g]
    BY DEF NothingNew, Done, Crash, DeadlockVictim
  <1> HIDE DEF g
  <1> QED
    BY <1>1, <1>2, <1>3 DEF TypeOK, Moves

---------------------------------------------------------------------------
(* Invariance *)

LEMMA InitInv == Init => IInv
  <1> SUFFICES ASSUME Init PROVE IInv
    OBVIOUS
  <1>1. \A r \in Run : run[r] = Idle
    BY DEF Init
  <1>2. TypeOK
    BY IdleType, AlertAssumption DEF Init, TypeOK, Day
  <1>3. Apart /\ \A r \in Run : Collects(r)
    BY <1>1 DEF Apart, Collects, Idle
  <1> QED
    BY <1>2, <1>3 DEF IInv

\* Steps around the runs: no uncommitted alert gets a row or loses its user.
LEMMA AroundInv ==
    ASSUME IInv,
           \/ NextDay
           \/ \E s \in Sub, d \in DueDay \cup {0} : SetDue(s, d)
           \/ \E c \in Charge : MarkRead(c) \/ DeleteAlert(c)
           \/ \E u \in User : SetAlertEmail(u) \/ DeleteAccount(u)
    PROVE  IInv'
  <1>1. ASSUME NEW u \in User, DeleteAccount(u) PROVE IInv'
    <2>1. TypeOK'
      <3>1. due' \in [Sub -> DueDay \cup {0}]
        BY <1>1, AlertAssumption DEF IInv, TypeOK, DeleteAccount
      <3>2. alert' \in [Charge -> {"none", "unread", "read"}] /\ gone' \subseteq User
        BY <1>1 DEF IInv, TypeOK, DeleteAccount
      <3> QED
        BY <1>1, <3>1, <3>2 DEF IInv, TypeOK, DeleteAccount
    <2>2. Apart'
      BY <1>1 DEF IInv, Apart, DeleteAccount
    <2>3. ASSUME NEW r \in Run PROVE Collects(r)'
      <3>1. run[r].mine \subseteq Charge /\ run' = run /\ Collects(r)
        BY <1>1 DEF IInv, TypeOK, Generation, DeleteAccount
      <3>2. CASE run[r].pc = "inserting"
        <4>1. ASSUME NEW c \in run[r].mine
              PROVE  alert'[c] = "none" /\ Owner[c[1]] \notin gone'
          <5>1. c \in Charge /\ alert[c] = "none" /\ Owner[c[1]] \notin gone
            BY <3>1, <3>2, <4>1 DEF Collects
          <5>2. Owner[c[1]] # u
            BY <1>1, <3>2, <4>1, <5>1 DEF DeleteAccount, Of
          <5> QED
            BY <1>1, <5>1, <5>2 DEF DeleteAccount, Of
        <4> QED
          BY <3>1, <3>2, <4>1 DEF Collects
      <3>3. CASE run[r].pc # "inserting"
        BY <3>1, <3>3 DEF Collects
      <3> QED
        BY <3>2, <3>3
    <2> QED
      BY <2>1, <2>2, <2>3 DEF IInv
  <1>2. ASSUME NEW c \in Charge, MarkRead(c) \/ DeleteAlert(c) PROVE IInv'
    <2>1. TypeOK' /\ \A e \in Charge : alert[e] = "none" => alert'[e] = "none"
      BY <1>2 DEF IInv, TypeOK, MarkRead, DeleteAlert
    <2>2. UNCHANGED <<run, gone>>
      BY <1>2 DEF MarkRead, DeleteAlert
    <2>3. \A r \in Run : run[r].mine \subseteq Charge
      BY DEF IInv, TypeOK, Generation
    <2> QED
      BY <2>1, <2>2, <2>3 DEF IInv, Apart, Collects
  <1>3. CASE NextDay
    BY <1>3, AlertAssumption DEF NextDay, IInv, TypeOK, Day, Apart, Collects
  <1>4. ASSUME NEW s \in Sub, NEW d \in DueDay \cup {0}, SetDue(s, d) PROVE IInv'
    BY <1>4 DEF SetDue, IInv, TypeOK, Apart, Collects
  <1>5. ASSUME NEW u \in User, SetAlertEmail(u) PROVE IInv'
    BY <1>5 DEF SetAlertEmail, IInv, TypeOK, Apart, Collects
  <1> QED
    BY <1>1, <1>2, <1>3, <1>4, <1>5

\* A run that takes no alert more keeps the invariant, as long as it changes no row.
LEMMA SameMine ==
    ASSUME IInv, NEW r \in Run, Moves(r), UNCHANGED <<today, due, alert, removed, optIn, gone>>,
           emailed' \in [Charge -> Nat],
           run'[r].pc = "selected" => run'[r].mine = {},
           run'[r].want # NoCharge => run'[r].pc = "inserting",
           run'[r].pc = "inserting" => run'[r].mine = {} \/
              (run[r].pc = "inserting" /\ run'[r].mine = run[r].mine)
    PROVE  IInv'
  <1>1. run' \in [Run -> Generation] /\ \A o \in Run \ {r} : run'[o] = run[o]
    BY Others DEF IInv
  <1>2. TypeOK'
    BY <1>1 DEF IInv, TypeOK
  <1>3. Apart'
    BY <1>1 DEF IInv, Apart
  <1>4. \A o \in Run : Collects(o)'
    BY <1>1 DEF IInv, Collects
  <1> QED
    BY <1>2, <1>3, <1>4 DEF IInv

\* The insert that joins the transaction: no other run holds its key.
LEMMA InsertInv ==
    ASSUME IInv, NEW r \in Run, Insert(r)
    PROVE  IInv'
  <1> DEFINE c == run[r].want
  <1>1. /\ Moves(r) /\ run'[r].pc = "inserting" /\ run[r].pc = "inserting"
        /\ run'[r].want = NoCharge
        /\ run'[r].mine \subseteq run[r].mine \cup {c}
        /\ c \in run'[r].mine \ run[r].mine => alert[c] = "none" /\ Owner[c[1]] \notin gone
    BY InsertMoves DEF IInv, Collects, Insert
  <1>2. run' \in [Run -> Generation] /\ \A o \in Run \ {r} : run'[o] = run[o]
    BY <1>1, Others DEF IInv
  <1>3. UNCHANGED <<today, due, alert, removed, optIn, gone, emailed>>
    BY DEF Insert
  <1>4. \A o \in Run \ {r} : run[o].pc = "inserting" => c \notin run[o].mine
    BY DEF Insert, WaitsFor
  <1>5. TypeOK'
    BY <1>2, <1>3 DEF IInv, TypeOK
  <1>6. Apart'
    BY <1>1, <1>2, <1>4 DEF IInv, Apart
  <1>7. \A o \in Run : Collects(o)'
    BY <1>1, <1>2, <1>3 DEF IInv, Collects
  <1> QED
    BY <1>5, <1>6, <1>7 DEF IInv

\* The commit: the other runs hold none of its charges.
LEMMA CommitInv ==
    ASSUME IInv, NEW r \in Run, Commit(r)
    PROVE  IInv'
  <1>1. /\ Moves(r) /\ run[r].pc = "inserting" /\ run'[r].pc = "committed"
        /\ run'[r].want = NoCharge
    BY CommitMoves DEF IInv
  <1>2. run' \in [Run -> Generation] /\ \A o \in Run \ {r} : run'[o] = run[o]
    BY <1>1, Others DEF IInv
  <1>3. TypeOK'
    BY <1>2 DEF IInv, TypeOK, Commit
  <1>4. Apart'
    BY <1>1, <1>2 DEF IInv, Apart
  <1>5. ASSUME NEW o \in Run PROVE Collects(o)'
    <2>1. CASE o = r
      BY <1>1, <2>1 DEF Collects
    <2>2. CASE o # r
      <3>1. run[o].mine \subseteq Charge /\ run'[o] = run[o] /\ Collects(o) /\ gone' = gone
        BY <1>2, <2>2 DEF IInv, TypeOK, Generation, Commit
      <3>2. run[o].pc = "inserting" => \A c \in run[o].mine : alert'[c] = alert[c]
        BY <1>1, <2>2, <3>1 DEF IInv, Apart, Commit
      <3> QED
        BY <3>1, <3>2 DEF Collects
    <2> QED
      BY <2>1, <2>2
  <1> QED
    BY <1>3, <1>4, <1>5 DEF IInv

LEMMA RunInv ==
    ASSUME IInv, NEW r \in Run,
           Goes(r) \/ Crash(r) \/ \E users \in SUBSET User : Begin(r, users)
    PROVE  IInv'
  <1>0. emailed \in [Charge -> Nat] /\ Collects(r)
    BY DEF IInv, TypeOK
  <1>1. ASSUME NEW users \in SUBSET User, Begin(r, users) PROVE IInv'
    BY <1>0, <1>1, BeginMoves, SameMine DEF Begin, IInv
  <1>2. CASE ReadAlerted(r)
    <2>1. run[r].pc = "selected"
      BY <1>2 DEF ReadAlerted
    <2> QED
      BY <1>0, <1>2, <2>1, ReadAlertedMoves, SameMine DEF ReadAlerted, IInv, Collects
  <1>3. ASSUME NEW c \in Charge, TryInsert(r, c) PROVE IInv'
    BY <1>0, <1>3, TryInsertMoves, SameMine DEF TryInsert, IInv
  <1>4. CASE Insert(r)
    BY <1>4, InsertInv
  <1>5. CASE Commit(r)
    BY <1>5, CommitInv
  <1>6. CASE SelectUsers(r)
    <2>1. run[r].want = NoCharge
      BY <1>0, <1>6 DEF SelectUsers, Collects
    <2> QED
      BY <1>0, <1>6, <2>1, SelectUsersMoves, SameMine DEF SelectUsers, IInv
  <1>7. ASSUME NEW u \in User, Send(r, u) \/ SendFails(r, u) PROVE IInv'
    <2>1. run[r].want = NoCharge
      BY <1>0, <1>7 DEF Send, SendFails, Collects
    <2>2. emailed' \in [Charge -> Nat]
      BY <1>0, <1>7 DEF Send, SendFails
    <2>3. UNCHANGED <<today, due, alert, removed, optIn, gone>>
      BY <1>7 DEF Send, SendFails
    <2> QED
      BY <1>7, <2>1, <2>2, <2>3, MailMoves, SameMine DEF IInv
  <1>8. CASE NothingNew(r) \/ Done(r) \/ Crash(r) \/ DeadlockVictim(r)
    <2>1. UNCHANGED <<today, due, alert, removed, optIn, gone, emailed>>
      BY <1>8 DEF NothingNew, Done, Crash, DeadlockVictim
    <2> QED
      BY <1>0, <1>8, <2>1, EndMoves, SameMine DEF IInv
  <1> QED
    BY <1>1, <1>2, <1>3, <1>4, <1>5, <1>6, <1>7, <1>8 DEF Goes

LEMMA StepInv == IInv /\ [Next]_vars => IInv'
  <1>1. IInv /\ UNCHANGED vars => IInv'
    BY DEF vars, IInv, TypeOK, Apart, Collects
  <1> QED
    BY <1>1, AroundInv, RunInv DEF Next

---------------------------------------------------------------------------
(* What the runs owe *)

\* The runs that owe an email of charge c.
Owing(c) == {r \in Run : c \in Owes(r)}

LEMMA OwingFinite ==
    ASSUME NEW c \in Charge
    PROVE  /\ IsFiniteSet(Owing(c)) /\ Owed[c] = Cardinality(Owing(c)) /\ Owed[c] \in Nat
           /\ \A r \in Run : c \in Owes(r) => Owed[c] > 0
  <1>1. IsFiniteSet(Owing(c))
    BY AlertAssumption, FS_Subset DEF Owing
  <1>2. Owed[c] = Cardinality(Owing(c)) /\ Cardinality(Owing(c)) \in Nat
    BY <1>1, FS_CardinalityType DEF Owed, Owing
  <1>3. ASSUME NEW r \in Run, c \in Owes(r) PROVE Cardinality(Owing(c)) # 0
    <2>1. r \in Owing(c)
      BY <1>3 DEF Owing
    <2> QED
      BY <1>1, <2>1, FS_EmptySet
  <1> QED
    BY <1>1, <1>2, <1>3

LEMMA OwedSame ==
    ASSUME \A r \in Run : Owes(r)' = Owes(r)
    PROVE  Owed' = Owed
  BY DEF Owed

\* One run owes more, or less.
LEMMA OwedMore ==
    ASSUME NEW r \in Run, NEW C \in SUBSET Charge, \A o \in Run \ {r} : Owes(o)' = Owes(o),
           Owes(r) \cap C = {}, Owes(r)' = Owes(r) \cup C
    PROVE  Owed' = Ledger!Plus(Owed, C)
  <1>1. ASSUME NEW c \in Charge PROVE Owed'[c] = IF c \in C THEN Owed[c] + 1 ELSE Owed[c]
    <2>1. Owed'[c] = Cardinality(Owing(c)')
      BY DEF Owed, Owing
    <2>2. CASE c \in C
      <3>1. Owing(c)' = Owing(c) \cup {r} /\ r \notin Owing(c)
        BY <2>2 DEF Owing
      <3>2. IsFiniteSet(Owing(c)) /\ Owed[c] = Cardinality(Owing(c)) /\ Owed[c] \in Nat
        BY OwingFinite
      <3>3. Cardinality(Owing(c) \cup {r}) = Cardinality(Owing(c)) + 1
        BY <3>1, <3>2, FS_AddElement
      <3> QED
        BY <2>1, <2>2, <3>1, <3>2, <3>3
    <2>3. CASE c \notin C
      <3>1. Owing(c)' = Owing(c)
        BY <2>3 DEF Owing
      <3> QED
        BY <2>1, <2>3, <3>1, OwingFinite
    <2> QED
      BY <2>2, <2>3
  <1>2. Owed' = [c \in Charge |-> Owed'[c]]
    BY DEF Owed
  <1> QED
    BY <1>1, <1>2 DEF Ledger!Plus

LEMMA OwedLess ==
    ASSUME NEW r \in Run, NEW C \in SUBSET Charge, \A o \in Run \ {r} : Owes(o)' = Owes(o),
           C \subseteq Owes(r), Owes(r)' = Owes(r) \ C
    PROVE  Owed' = Ledger!Minus(Owed, C) /\ \A c \in C : Owed[c] > 0
  <1>1. ASSUME NEW c \in Charge PROVE Owed'[c] = IF c \in C THEN Owed[c] - 1 ELSE Owed[c]
    <2>1. Owed'[c] = Cardinality(Owing(c)')
      BY DEF Owed, Owing
    <2>2. CASE c \in C
      <3>1. Owing(c)' = Owing(c) \ {r} /\ r \in Owing(c)
        BY <2>2 DEF Owing
      <3>2. IsFiniteSet(Owing(c)) /\ Owed[c] = Cardinality(Owing(c)) /\ Owed[c] \in Nat
        BY OwingFinite
      <3>3. Cardinality(Owing(c) \ {r}) = Cardinality(Owing(c)) - 1
        BY <3>1, <3>2, FS_RemoveElement
      <3> QED
        BY <2>1, <2>2, <3>1, <3>2, <3>3
    <2>3. CASE c \notin C
      <3>1. Owing(c)' = Owing(c)
        BY <2>3 DEF Owing
      <3> QED
        BY <2>1, <2>3, <3>1, OwingFinite
    <2> QED
      BY <2>2, <2>3
  <1>2. Owed' = [c \in Charge |-> Owed'[c]]
    BY DEF Owed
  <1>3. \A c \in C : Owed[c] > 0
    BY OwingFinite
  <1> QED
    BY <1>1, <1>2, <1>3 DEF Ledger!Minus

\* A run that moves leaves alone what others owe.
LEMMA OthersOwe ==
    ASSUME TypeOK, NEW r \in Run, Moves(r)
    PROVE  \A o \in Run \ {r} : Owes(o)' = Owes(o)
  BY Others DEF Owes

---------------------------------------------------------------------------
(* Refinement of the ledger *)

LEMMA InitRefines == Init => Ledger!Init
  <1> SUFFICES ASSUME Init PROVE Ledger!Init
    OBVIOUS
  <1>1. \A r \in Run : Owes(r) = {}
    BY DEF Init, Idle, Owes
  <1>2. \A c \in Charge : Owing(c) = {}
    BY <1>1 DEF Owing
  <1>3. Owed = [c \in Charge |-> 0]
    BY <1>2, FS_EmptySet DEF Owed, Owing
  <1> QED
    BY <1>3 DEF Init, Ledger!Init

\* Steps that owe as much as before, and mail nothing.
LEMMA AroundRefines ==
    ASSUME IInv,
           \/ NextDay
           \/ \E s \in Sub, d \in DueDay \cup {0} : SetDue(s, d)
           \/ \E c \in Charge : MarkRead(c) \/ DeleteAlert(c)
           \/ \E u \in User : SetAlertEmail(u) \/ DeleteAccount(u)
    PROVE  Ledger!Next \/ UNCHANGED Ledger!ledger
  <1>1. UNCHANGED <<run, emailed>>
    BY DEF NextDay, SetDue, MarkRead, DeleteAlert, SetAlertEmail, DeleteAccount
  <1>2. Owed' = Owed
    BY <1>1, OwedSame DEF Owes
  <1>3. ASSUME NEW c \in Charge, MarkRead(c) PROVE Ledger!MarkRead(c)
    BY <1>1, <1>2, <1>3 DEF MarkRead, Ledger!MarkRead
  <1>4. ASSUME NEW c \in Charge, DeleteAlert(c) PROVE Ledger!Drop({c})
    <2>1. alert' = [e \in Charge |-> IF e \in {c} THEN "none" ELSE alert[e]]
      BY <1>4 DEF DeleteAlert, IInv, TypeOK
    <2> QED
      BY <1>1, <1>2, <2>1 DEF Ledger!Drop
  <1>5. ASSUME NEW u \in User, DeleteAccount(u) PROVE Ledger!Drop(Of(u))
    BY <1>1, <1>2, <1>5 DEF DeleteAccount, Ledger!Drop
  <1>6. \A u \in User : Of(u) \in SUBSET Charge
    BY DEF Of
  <1>7. CASE alert' = alert
    BY <1>1, <1>2, <1>7 DEF Ledger!ledger
  <1>8. \A c \in Charge : {c} \in SUBSET Charge
    OBVIOUS
  <1> QED
    BY <1>3, <1>4, <1>5, <1>6, <1>7, <1>8 DEF NextDay, SetDue, SetAlertEmail, Ledger!Next

\* What a step of run r is to the ledger.
RunOnLedger(r) ==
    \/ Commit(r) /\ run[r].mine \in SUBSET Charge /\ Ledger!Announce(run[r].mine)
    \/ \E C \in SUBSET Charge : Ledger!Email(C) \/ Ledger!GiveUp(C)
    \/ UNCHANGED Ledger!ledger

LEMMA RunRefines ==
    ASSUME IInv, NEW r \in Run,
           Goes(r) \/ Crash(r) \/ \E users \in SUBSET User : Begin(r, users)
    PROVE  RunOnLedger(r)
  <1>0. TypeOK /\ run[r] \in Generation /\ Collects(r)
    BY DEF IInv, TypeOK
  <1>1. CASE Commit(r)
    <2>1. /\ Moves(r) /\ run[r].pc = "inserting" /\ run'[r].pc = "committed"
          /\ run'[r].mine = run[r].mine
      BY <1>0, <1>1, CommitMoves
    <2>2. Owes(r) = {} /\ Owes(r)' = run[r].mine /\ run[r].mine \in SUBSET Charge
      BY <1>0, <2>1 DEF Owes, Generation
    <2>3. Owed' = Ledger!Plus(Owed, run[r].mine)
      BY <1>0, <2>1, <2>2, OthersOwe, OwedMore
    <2>4. Ledger!Announce(run[r].mine)
      BY <1>0, <1>1, <2>1, <2>3 DEF Commit, Collects, Ledger!Announce
    <2> QED
      BY <1>1, <2>2, <2>4 DEF RunOnLedger
  <1>2. CASE SelectUsers(r)
    <2> DEFINE C == {c \in run[r].mine : Owner[c[1]] \notin run'[r].mailTo}
    <2>1. Moves(r) /\ run'[r].pc = "mailing" /\ run'[r].mine = run[r].mine
      BY <1>0, <1>2, SelectUsersMoves
    <2>2. Owes(r) = run[r].mine /\ Owes(r)' = Owes(r) \ C /\ C \in SUBSET Charge
      BY <1>0, <1>2, <2>1 DEF Owes, SelectUsers, Generation
    <2>3. C \subseteq Owes(r)
      BY <2>2
    <2> HIDE DEF C
    <2>4. Owed' = Ledger!Minus(Owed, C) /\ \A c \in C : Owed[c] > 0
      BY <1>0, <2>1, <2>2, <2>3, OthersOwe, OwedLess
    <2>5. Ledger!GiveUp(C)
      BY <1>2, <2>4 DEF SelectUsers, Ledger!GiveUp
    <2> QED
      BY <2>2, <2>5 DEF RunOnLedger
  <1>3. ASSUME NEW u \in User, Send(r, u) \/ SendFails(r, u)
        PROVE  RunOnLedger(r)
    <2> DEFINE C == run[r].mine \cap Of(u)
    <2>1. /\ Moves(r) /\ run'[r].pc = "mailing" /\ run'[r].mine = run[r].mine
          /\ run'[r].mailTo = run[r].mailTo \ {u}
          /\ run[r].pc = "mailing" /\ u \in run[r].mailTo
      BY <1>0, <1>3, MailMoves DEF Send, SendFails
    <2>2. /\ Owes(r) = {c \in run[r].mine : Owner[c[1]] \in run[r].mailTo}
          /\ Owes(r)' = {c \in run[r].mine : Owner[c[1]] \in run[r].mailTo \ {u}}
          /\ C \in SUBSET Charge /\ run[r].mine \subseteq Charge
      BY <1>0, <2>1 DEF Owes, Of, Generation
    <2>3. C \subseteq Owes(r) /\ Owes(r)' = Owes(r) \ C
      BY <2>1, <2>2 DEF Of
    <2>4. Send(r, u) => emailed' = Ledger!Plus(emailed, C)
      BY DEF Send, Ledger!Plus
    <2> HIDE DEF C
    <2>5. Owed' = Ledger!Minus(Owed, C) /\ \A c \in C : Owed[c] > 0
      BY <1>0, <2>1, <2>2, <2>3, OthersOwe, OwedLess
    <2>6. Ledger!Email(C) \/ Ledger!GiveUp(C)
      BY <1>3, <2>4, <2>5 DEF Send, SendFails, Ledger!Email, Ledger!GiveUp
    <2> QED
      BY <2>2, <2>6 DEF RunOnLedger
  <1>4. CASE NothingNew(r) \/ Done(r) \/ Crash(r) \/ DeadlockVictim(r)
    <2>1. Moves(r) /\ run'[r].pc \in {"idle", "failed"}
      BY <1>0, <1>4, EndMoves
    <2>2. Owes(r)' = {} /\ Owes(r) \in SUBSET Charge
      BY <1>0, <2>1 DEF Owes, Generation
    <2>3. Owed' = Ledger!Minus(Owed, Owes(r)) /\ \A c \in Owes(r) : Owed[c] > 0
      BY <1>0, <2>1, <2>2, OthersOwe, OwedLess
    <2>4. Ledger!GiveUp(Owes(r))
      BY <1>4, <2>3 DEF NothingNew, Done, Crash, DeadlockVictim, Ledger!GiveUp
    <2> QED
      BY <2>2, <2>4 DEF RunOnLedger
  <1>5. CASE \/ \E users \in SUBSET User : Begin(r, users)
             \/ ReadAlerted(r) \/ Insert(r) \/ \E c \in Charge : TryInsert(r, c)
    <2>1. Moves(r) /\ run'[r].pc \in {"selected", "inserting"}
             /\ run[r].pc \in {"idle", "failed", "selected", "inserting"}
      <3>1. CASE \E users \in SUBSET User : Begin(r, users)
        BY <1>0, <3>1, BeginMoves DEF Begin
      <3>2. CASE ReadAlerted(r)
        BY <1>0, <3>2, ReadAlertedMoves DEF ReadAlerted
      <3>3. CASE Insert(r)
        BY <1>0, <3>3, InsertMoves DEF Insert, Collects
      <3>4. CASE \E c \in Charge : TryInsert(r, c)
        BY <1>0, <3>4, TryInsertMoves
      <3> QED
        BY <1>5, <3>1, <3>2, <3>3, <3>4
    <2>2. Owes(r)' = {} /\ Owes(r) = {}
      BY <2>1 DEF Owes
    <2>3. Owed' = Owed
      BY <1>0, <2>1, <2>2, OthersOwe, OwedSame
    <2> QED
      BY <1>5, <2>3 DEF Begin, ReadAlerted, Insert, TryInsert, Ledger!ledger, RunOnLedger
  <1> QED
    BY <1>1, <1>2, <1>3, <1>4, <1>5 DEF Goes

---------------------------------------------------------------------------
(* At most one email *)

\* Each email, sent or owed, answers for an alert that is there, for one the
\* user deleted, or for the last of an account that is gone.
Announced ==
    \A c \in Charge :
        emailed[c] + Owed[c] <=
            (IF c \in removed THEN 1 ELSE 0)
            + (IF alert[c] # "none" \/ Owner[c[1]] \in gone THEN 1 ELSE 0)

LEMMA InitAnnounced == Init => Announced
  BY InitRefines DEF Init, Ledger!Init, Announced

\* The user's steps: a deleted alert is counted among the removed ones, and
\* only once, and the alerts of a deleted account go with it.
LEMMA AroundAnnounced ==
    ASSUME IInv, Announced,
           \/ NextDay
           \/ \E s \in Sub, d \in DueDay \cup {0} : SetDue(s, d)
           \/ \E c \in Charge : MarkRead(c) \/ DeleteAlert(c)
           \/ \E u \in User : SetAlertEmail(u) \/ DeleteAccount(u)
    PROVE  Announced'
  <1>1. UNCHANGED <<run, emailed>>
    BY DEF NextDay, SetDue, MarkRead, DeleteAlert, SetAlertEmail, DeleteAccount
  <1>2. Owed' = Owed
    BY <1>1, OwedSame DEF Owes
  <1>3. \A c \in Charge : emailed[c] \in Nat /\ Owed[c] \in Nat
    BY OwingFinite DEF IInv, TypeOK
  <1>4. ASSUME NEW u \in User, DeleteAccount(u) PROVE Announced'
    BY <1>1, <1>2, <1>3, <1>4 DEF DeleteAccount, Of, Announced
  <1>5. ASSUME NEW c \in Charge, DeleteAlert(c) PROVE Announced'
    BY <1>1, <1>2, <1>3, <1>5 DEF DeleteAlert, Announced, IInv, TypeOK
  <1>6. ASSUME NEW c \in Charge, MarkRead(c) PROVE Announced'
    BY <1>1, <1>2, <1>3, <1>6 DEF MarkRead, Announced, IInv, TypeOK
  <1>7. CASE UNCHANGED <<alert, removed, gone>>
    BY <1>1, <1>2, <1>7 DEF Announced
  <1> QED
    BY <1>4, <1>5, <1>6, <1>7 DEF NextDay, SetDue, SetAlertEmail

\* The runs' steps: a commit announces charges without an alert whose user is
\* there, and an email is sent only if it was owed.
LEMMA RunAnnounced ==
    ASSUME IInv, Announced, NEW r \in Run,
           Goes(r) \/ Crash(r) \/ \E users \in SUBSET User : Begin(r, users)
    PROVE  Announced'
  <1>1. \A c \in Charge : emailed[c] \in Nat /\ Owed[c] \in Nat
    BY OwingFinite DEF IInv, TypeOK
  <1>2. UNCHANGED <<removed, gone>>
    BY DEF Goes, ReadAlerted, Insert, Commit, NothingNew, SelectUsers, Done, DeadlockVictim,
           TryInsert, Send, SendFails, Crash, Begin
  <1>3. CASE Commit(r) /\ run[r].mine \in SUBSET Charge /\ Ledger!Announce(run[r].mine)
    <2>1. \A c \in run[r].mine : alert[c] = "none" /\ Owner[c[1]] \notin gone
      BY <1>3 DEF Commit, Inserted, IInv, Collects
    <2> QED
      BY <1>1, <1>2, <1>3, <2>1 DEF Ledger!Announce, Ledger!Plus, Announced
  <1>4. ASSUME NEW C \in SUBSET Charge, Ledger!Email(C) \/ Ledger!GiveUp(C)
        PROVE  Announced'
    BY <1>1, <1>2, <1>4
       DEF Ledger!Email, Ledger!GiveUp, Ledger!Plus, Ledger!Minus, Announced
  <1>5. CASE UNCHANGED Ledger!ledger
    BY <1>2, <1>5 DEF Ledger!ledger, Announced
  <1> QED
    BY <1>3, <1>4, <1>5, RunRefines DEF RunOnLedger

---------------------------------------------------------------------------
(* What a run covers *)

\* A charge that needs no alert any more: it has one, or the user deleted it,
\* or the account.
Settled(c) == alert[c] # "none" \/ c \in removed \/ Owner[c[1]] \in gone

\* Every charge a run selected is still before it, in its transaction, or settled.
Covered(r) ==
    run[r].pc = "inserting" =>
        \A c \in run[r].subs :
            c \in run[r].todo \/ c = run[r].want \/ c \in run[r].mine \/ Settled(c)

Covering == \A r \in Run : Covered(r)

\* Whatever happens, a settled charge stays settled.
LEMMA StaysSettled ==
    ASSUME TypeOK, [Next]_vars, NEW c \in Charge, Settled(c)
    PROVE  Settled(c)'
  <1>1. ASSUME NEW u \in User, DeleteAccount(u) PROVE Settled(c)'
    BY <1>1 DEF DeleteAccount, Settled, Of
  <1>2. ASSUME NEW e \in Charge, DeleteAlert(e) \/ MarkRead(e) PROVE Settled(c)'
    BY <1>2 DEF DeleteAlert, MarkRead, Settled, TypeOK
  <1>3. ASSUME NEW r \in Run, Commit(r) PROVE Settled(c)'
    BY <1>3 DEF Commit, Settled
  <1>4. CASE UNCHANGED <<alert, removed, gone>>
    BY <1>4 DEF Settled
  <1> QED
    BY <1>1, <1>2, <1>3, <1>4
       DEF Next, vars, NextDay, SetDue, SetAlertEmail, Goes, ReadAlerted, Insert, NothingNew,
           SelectUsers, Done, DeadlockVictim, TryInsert, Send, SendFails, Crash, Begin

\* A run that moves leaves alone what others cover.
LEMMA OthersCover ==
    ASSUME IInv, Covering, [Next]_vars, NEW r \in Run, Moves(r), Covered(r)'
    PROVE  Covering'
  <1>1. ASSUME NEW o \in Run \ {r} PROVE Covered(o)'
    <2>1. run'[o] = run[o] /\ run[o].subs \subseteq Charge /\ Covered(o)
      BY Others DEF IInv, TypeOK, Generation, Covering
    <2> QED
      BY <2>1, StaysSettled DEF Covered, IInv
  <1> QED
    BY <1>1 DEF Covering

LEMMA RunCovering ==
    ASSUME IInv, Covering, [Next]_vars, NEW r \in Run,
           Goes(r) \/ Crash(r) \/ \E users \in SUBSET User : Begin(r, users)
    PROVE  Covering'
  <1>0. TypeOK /\ Covered(r) /\ run[r].subs \subseteq Charge
    BY DEF IInv, TypeOK, Generation, Covering
  <1>1. CASE ReadAlerted(r)
    <2>1. Covered(r)'
      BY <1>0, <1>1, ReadAlertedMoves DEF Covered, Settled, ReadAlerted
    <2> QED
      BY <1>0, <1>1, <2>1, ReadAlertedMoves, OthersCover
  <1>2. ASSUME NEW c \in Charge, TryInsert(r, c) PROVE Covering'
    <2>1. /\ Moves(r) /\ run[r].pc = "inserting" /\ run'[r].subs = run[r].subs
          /\ run[r].todo \subseteq run'[r].todo \cup {run'[r].want}
          /\ run'[r].mine = run[r].mine /\ run[r].want \notin run[r].subs
      BY <1>0, <1>2, TryInsertMoves, IdleType
    <2>2. UNCHANGED <<alert, removed, gone>>
      BY <1>2 DEF TryInsert
    <2>3. Covered(r)'
      BY <1>0, <2>1, <2>2 DEF Covered, Settled
    <2> QED
      BY <1>0, <2>1, <2>3, OthersCover
  <1>3. CASE Insert(r)
    <2>1. /\ run'[r].subs = run[r].subs /\ run'[r].todo = run[r].todo
          /\ run'[r].pc = run[r].pc /\ run[r].mine \subseteq run'[r].mine
          /\ run[r].want \in run'[r].mine \/ Settled(run[r].want)
      BY <1>0, <1>3, InsertMoves DEF Settled
    <2>2. UNCHANGED <<alert, removed, gone>>
      BY <1>3 DEF Insert
    <2>3. Covered(r)'
      BY <1>0, <2>1, <2>2 DEF Covered, Settled
    <2> QED
      BY <1>0, <1>3, <2>3, InsertMoves, OthersCover
  <1>4. CASE run'[r].pc # "inserting" /\ Moves(r)
    BY <1>4, OthersCover DEF Covered
  <1> QED
    BY <1>0, <1>1, <1>2, <1>3, <1>4, BeginMoves, CommitMoves, SelectUsersMoves, MailMoves,
       EndMoves DEF Goes

LEMMA StepCovering == IInv /\ Covering /\ [Next]_vars => Covering'
  <1> SUFFICES ASSUME IInv, Covering, [Next]_vars PROVE Covering'
    OBVIOUS
  <1>1. CASE UNCHANGED run
    <2>1. \A r \in Run : run[r].subs \subseteq Charge
      BY DEF IInv, TypeOK, Generation
    <2> QED
      BY <1>1, <2>1, StaysSettled DEF Covering, Covered, IInv
  <1> QED
    BY <1>1, RunCovering
       DEF Next, vars, NextDay, SetDue, MarkRead, DeleteAlert, SetAlertEmail, DeleteAccount

---------------------------------------------------------------------------
(* Theorems *)

\* The invariant holds throughout.
THEOREM IInvInvariant == Spec => []IInv
  BY InitInv, StepInv, PTL DEF Spec

\* Types of the rows, the runs and the emails.
THEOREM TypeCorrect == Spec => []TypeOK
  <1>1. IInv => TypeOK
    BY DEF IInv
  <1> QED
    BY <1>1, IInvInvariant, PTL

\* However many runs overlap, crash or lose their emails, they implement the
\* ledger: one alert per charge, and one email at most for each
\* (generate_upcoming_alerts).
THEOREM ImplementsLedger == Spec => LedgerSpec
  <1>1. IInv /\ [Next]_vars => [Ledger!Next]_(Ledger!ledger)
    <2>1. UNCHANGED vars => UNCHANGED Ledger!ledger
      <3>1. UNCHANGED run => Owed' = Owed
        BY OwedSame DEF Owes
      <3> QED
        BY <3>1 DEF vars, Ledger!ledger
    <2> QED
      BY <2>1, AroundRefines, RunRefines DEF Next, Ledger!Next, RunOnLedger
  <1> QED
    BY <1>1, InitRefines, IInvInvariant, PTL DEF Spec, LedgerSpec, Ledger!Spec

\* Whoever generates and however the runs overlap or crash, a charge is
\* announced by at most one email, plus one if the user deleted its alert.
THEOREM AtMostOneEmail == Spec => []EmailedOnce
  <1>1. IInv /\ Announced /\ [Next]_vars => Announced'
    <2>1. UNCHANGED vars => UNCHANGED <<alert, removed, gone, emailed>> /\ Owed' = Owed
      BY OwedSame DEF vars, Owes
    <2>2. Announced /\ UNCHANGED vars => Announced'
      BY <2>1 DEF Announced
    <2> QED
      BY <2>2, AroundAnnounced, RunAnnounced DEF Next
  <1>2. IInv /\ Announced => EmailedOnce
    <2>1. IInv => \A c \in Charge : emailed[c] \in Nat /\ Owed[c] \in Nat
      BY OwingFinite DEF IInv, TypeOK
    <2> QED
      BY <2>1 DEF Announced, EmailedOnce
  <1> QED
    BY <1>1, <1>2, InitAnnounced, IInvInvariant, PTL DEF Spec

\* A run that ends on its own leaves every charge it selected with an alert,
\* unless the user deleted that alert or the account.
THEOREM RunsCover == Spec => RunCovers
  <1>1. Init => Covering
    BY DEF Init, Idle, Covering, Covered
  <1>2. IInv /\ Covering /\ [Next]_vars =>
            [\A r \in Run : Commit(r) \/ NothingNew(r) =>
                \A c \in run[r].subs : \/ alert'[c] # "none"
                                       \/ c \in removed
                                       \/ Owner[c[1]] \in gone]_vars
    <2> SUFFICES ASSUME IInv, Covering, NEW r \in Run, Commit(r) \/ NothingNew(r),
                        NEW c \in run[r].subs
                 PROVE  alert'[c] # "none" \/ c \in removed \/ Owner[c[1]] \in gone
      OBVIOUS
    <2>1. c \in Charge /\ c # NoCharge
      BY IdleType DEF IInv, TypeOK, Generation
    <2>2. c \in run[r].mine \/ Settled(c)
      BY <2>1 DEF Covering, Covered, Commit, NothingNew, Inserted
    <2> QED
      BY <2>1, <2>2 DEF Commit, NothingNew, Settled
  <1> QED
    BY <1>1, <1>2, StepCovering, IInvInvariant, PTL DEF Spec, RunCovers
=============================================================================
