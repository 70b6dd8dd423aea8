---------------------- MODULE TransactionStoreProofs ----------------------
(***************************************************************************)
(* TransactionStore for every set of transactions and of sessions, every   *)
(* page size and every length of history: types, the exactness of what a   *)
(* sync gathers, the freshness of the table and the refinement of          *)
(* TransactionReplica.  The last two need Serialized, as the run           *)
(* store_overlap shows.                                                    *)
(***************************************************************************)
EXTENDS TransactionStore, TLAPS

---------------------------------------------------------------------------
(* The inductive invariant *)

\* A version is fresh when it appears, so one that a row shows at two points
\* of the history it shows in between.
Versioned ==
    /\ \A i \in 1..Now : \A t \in Txn : feed[i][t] <= i
    /\ \A i, j, k \in 1..Now : \A t \in Txn :
          i <= j /\ j <= k /\ feed[i][t] = feed[k][t] /\ feed[i][t] # NoRow
             => feed[j][t] = feed[i][t]

\* The lists hold what the pages delivered so far of one difference.
ListsOf(r) ==
    /\ \A t \in Txn : r.changed[t] = IF t \in Changed(r.cur, r.mark) \ r.todo
                                     THEN feed[r.mark][t] ELSE NoRow
    /\ r.removed = Removed(r.cur, r.mark) \ r.todo

Gathering(s) ==
    /\ run[s].pc = "paging" /\ run[s].mark = 0 =>
          run[s].changed = Empty /\ run[s].removed = {} /\ run[s].todo = {}
    /\ run[s].mark # 0 => run[s].cur <= run[s].mark /\ ListsOf(run[s])
    /\ run[s].pc \in {"fetched", "applying"} => run[s].mark # 0 /\ run[s].todo = {}

\* At most one sync runs, on the stored cursor, and reads the rows it applies to.
Exclusive ==
    /\ \A s, o \in Session : Active(s) /\ Active(o) => s = o
    /\ \A s \in Session : Active(s) => run[s].cur = cursor
    /\ \A s \in Session : run[s].pc = "applying" => run[s].seen = table

IInv ==
    /\ TypeOK
    /\ Versioned
    /\ \A s \in Session : Gathering(s)
    /\ Serialized => Exclusive /\ FreshRows


---------------------------------------------------------------------------
(* The history *)

\* The history only grows, and a step gives one transaction a fresh version
\* or none (PlaidFeed, Change and Remove).
LEMMA FeedGrows ==
    ASSUME TypeOK, FeedNext
    PROVE  /\ feed' \in Seq(Snapshot)
           /\ Now' = Now + 1
           /\ Now' \in 1..MaxFeed
           /\ \A p \in 1..Now : feed'[p] = feed[p]
           /\ \E t \in Txn : /\ feed'[Now'][t] \in {NoRow, Now'}
                            /\ \A u \in Txn \ {t} : feed'[Now'][u] = feed[Now][u]
  <1>1. /\ feed \in Seq(Snapshot) /\ Now \in 1..MaxFeed
        /\ feed[Now] \in [Txn -> 0..MaxFeed] /\ MaxFeed \in Nat
    BY MaxFeedAssumption DEF TypeOK, Now, Snapshot
  <1>2. PICK t \in Txn : Change(t) \/ Remove(t)
    BY DEF FeedNext
  <1>3. PICK v \in {NoRow, Now + 1} :
            Now < MaxFeed /\ feed' = Append(feed, [feed[Now] EXCEPT ![t] = v])
    BY <1>2 DEF Change, Remove
  <1>4. [feed[Now] EXCEPT ![t] = v] \in Snapshot
    BY <1>1, <1>3 DEF Snapshot, NoRow, Now
  <1>5. feed' \in Seq(Snapshot) /\ Len(feed') = Len(feed) + 1
    BY <1>1, <1>3, <1>4
  <1>6. \A p \in 1..Len(feed) : feed'[p] = feed[p]
    BY <1>1, <1>3, <1>4
  <1>7. feed'[Len(feed) + 1] = [feed[Now] EXCEPT ![t] = v]
    BY <1>1, <1>3, <1>4
  <1>8. /\ feed'[Now'][t] \in {NoRow, Now'}
        /\ \A u \in Txn \ {t} : feed'[Now'][u] = feed[Now][u]
    BY <1>1, <1>3, <1>5, <1>7 DEF Now
  <1> QED
    BY <1>1, <1>3, <1>5, <1>6, <1>8 DEF Now

\* The difference between two points of the history never changes.
LEMMA DifferenceStable ==
    ASSUME TypeOK, FeedNext, NEW i \in 1..Now, NEW j \in 1..Now
    PROVE  Changed(i, j)' = Changed(i, j) /\ Removed(i, j)' = Removed(i, j)
  <1>1. /\ i \in Nat /\ j \in Nat /\ feed'[i] = feed[i] /\ feed'[j] = feed[j]
        /\ \A p \in i..j : feed'[p] = feed[p]
    BY FeedGrows DEF TypeOK, Now
  <1> QED
    BY <1>1 DEF Changed, Removed

\* Every step of the history keeps versions fresh.
LEMMA VersionedStep ==
    ASSUME TypeOK, Versioned, FeedNext
    PROVE  Versioned'
  <1>1. PICK t \in Txn : /\ feed'[Now'][t] \in {NoRow, Now'}
                         /\ \A u \in Txn \ {t} : feed'[Now'][u] = feed[Now][u]
    BY FeedGrows
  <1>2. /\ Now \in 1..MaxFeed /\ Now' = Now + 1 /\ MaxFeed \in Nat
        /\ \A p \in 1..Now : feed'[p] = feed[p]
        /\ \A p \in 1..Now : feed[p] \in [Txn -> 0..MaxFeed]
    <2>1. Now \in 1..MaxFeed /\ MaxFeed \in Nat
      BY MaxFeedAssumption DEF TypeOK
    <2>2. Now' = Now + 1 /\ \A p \in 1..Now : feed'[p] = feed[p]
      BY FeedGrows
    <2>3. \A p \in 1..Now : feed[p] \in [Txn -> 0..MaxFeed]
      BY DEF TypeOK, Snapshot, Now
    <2> QED
      BY <2>1, <2>2, <2>3
  <1>3. \A i \in 1..Now' : \A u \in Txn : feed'[i][u] <= i
    <2> SUFFICES ASSUME NEW i \in 1..Now', NEW u \in Txn PROVE feed'[i][u] <= i
      OBVIOUS
    <2>1. CASE i \in 1..Now
      BY <1>2, <2>1 DEF Versioned
    <2>2. CASE i = Now' /\ u = t
      BY <1>1, <1>2, <2>2 DEF NoRow
    <2>3. CASE i = Now' /\ u # t
      <3>1. feed[Now][u] <= Now /\ feed[Now][u] \in Nat
        BY <1>2 DEF Versioned
      <3> QED
        BY <1>1, <1>2, <2>3, <3>1
    <2> QED
      BY <1>2, <2>1, <2>2, <2>3
  <1>4. ASSUME NEW i \in 1..Now', NEW j \in 1..Now', NEW k \in 1..Now', NEW u \in Txn,
               i <= j, j <= k, feed'[i][u] = feed'[k][u], feed'[i][u] # NoRow
        PROVE  feed'[j][u] = feed'[i][u]
    <2>1. CASE k \in 1..Now
      <3>1. i \in 1..Now /\ j \in 1..Now
        BY <1>2, <1>4, <2>1
      <3> QED
        BY <1>2, <1>4, <2>1, <3>1 DEF Versioned
    <2>2. CASE k = Now' /\ i = Now'
      BY <1>2, <1>4, <2>2
    <2>3. CASE k = Now' /\ i \in 1..Now
      <3>1. feed[i][u] <= Now /\ feed[i][u] \in Nat /\ feed'[i][u] = feed[i][u]
        <4>1. feed[i][u] <= i /\ feed[i][u] \in Nat
          BY <1>2, <2>3 DEF Versioned
        <4> QED
          BY <1>2, <2>3, <4>1
      <3>2. u # t
        BY <1>1, <1>2, <1>4, <2>3, <3>1
      <3>3. feed'[k][u] = feed[Now][u]
        BY <1>1, <2>3, <3>2
      <3>4. CASE j = Now'
        BY <1>4, <2>3, <3>4
      <3>5. CASE j \in 1..Now
        <4>1. feed[i][u] = feed[Now][u] /\ feed[i][u] # NoRow /\ j <= Now
          <5>1. feed[i][u] = feed[Now][u]
            BY <1>4, <3>1, <3>3
          <5>2. feed[i][u] # NoRow
            BY <1>4, <3>1
          <5> QED
            BY <1>2, <3>5, <5>1, <5>2
        <4>2. feed[j][u] = feed[i][u]
          BY <1>2, <1>4, <2>3, <3>5, <4>1 DEF Versioned
        <4> QED
          BY <1>2, <2>3, <3>5, <4>2
      <3> QED
        BY <1>2, <3>4, <3>5
    <2> QED
      BY <1>2, <2>1, <2>2, <2>3
  <1> QED
    BY <1>3, <1>4 DEF Versioned

---------------------------------------------------------------------------
(* Types *)

LEMMA IdleRunType == IdleRun \in Run /\ Empty \in [Txn -> 0..MaxFeed]
                                     /\ Empty \in Replica!Rows
  <1>1. Empty \in [Txn -> 0..MaxFeed] /\ Empty \in [Txn -> 0..MaxFeed + 1]
    BY MaxFeedAssumption DEF Empty, NoRow
  <1> QED
    BY <1>1 DEF IdleRun, Run, Status, Replica!Rows, Replica!Torn

\* The rows a sync writes are versions that Plaid sent.
LEMMA ApplyType ==
    ASSUME TypeOK, NEW s \in Session, NEW T \in SUBSET Txn
    PROVE  /\ run[s] \in Run
           /\ Apply(run[s], T) \in Replica!Rows
           /\ [t \in Txn |-> IF t \in run[s].removed THEN NoRow
                             ELSE Apply(run[s], T)[t]] \in Replica!Rows
           /\ \A b \in Txn : [Apply(run[s], T) EXCEPT ![b] = Torn] \in Replica!Rows
  <1>1. run[s] \in Run /\ run[s].changed \in [Txn -> 0..MaxFeed]
    BY DEF TypeOK, Run
  <1>2. table \in [Txn -> 0..MaxFeed + 1] /\ MaxFeed \in Nat
    BY MaxFeedAssumption DEF TypeOK, Replica!Rows, Replica!Torn
  <1>3. Apply(run[s], T) \in [Txn -> 0..MaxFeed + 1]
    BY <1>1, <1>2 DEF Apply
  <1> QED
    BY <1>1, <1>2, <1>3 DEF Replica!Rows, Replica!Torn, Torn, NoRow

LEMMA TypeInit == Init => TypeOK
  <1> SUFFICES ASSUME Init PROVE TypeOK
    OBVIOUS
  <1>1. feed = << Empty >> /\ Empty \in Snapshot
    BY IdleRunType DEF Init, FeedInit, Empty, Snapshot
  <1>2. feed \in Seq(Snapshot) /\ Now = 1
    BY <1>1 DEF Now
  <1>3. Now \in 1..MaxFeed
    BY <1>2, MaxFeedAssumption
  <1>4. run \in [Session -> Run]
    BY IdleRunType DEF Init
  <1>5. \A s \in Session : run[s].cur \in 1..Now /\ run[s].mark \in 0..Now
    BY <1>2 DEF Init, IdleRun
  <1> QED
    BY <1>2, <1>3, <1>4, <1>5, IdleRunType DEF Init, TypeOK, Status

\* A step of a sync that leaves the table, the cursor and the status alone, or
\* ends with an idle session, keeps the types.
LEMMA TypeOfRun ==
    ASSUME TypeOK, NEW s \in Session, NEW r \in Run,
           r.cur \in 1..Now, r.mark \in 0..Now, run' = [run EXCEPT ![s] = r]
    PROVE  run' \in [Session -> Run] /\
           \A o \in Session : run'[o].cur \in 1..Now /\ run'[o].mark \in 0..Now
  BY DEF TypeOK

LEMMA TypeStep == TypeOK /\ (\A s \in Session : Gathering(s)) /\ [Next]_vars => TypeOK'
  <1> SUFFICES ASSUME TypeOK, \A s \in Session : Gathering(s), [Next]_vars PROVE TypeOK'
    OBVIOUS
  <1>0. /\ Now \in Nat /\ Now \in 1..MaxFeed /\ MaxFeed \in Nat /\ cursor \in 1..Now
        /\ run \in [Session -> Run] /\ IdleRun \in Run
        /\ IdleRun.cur \in 1..Now /\ IdleRun.mark \in 0..Now
    BY IdleRunType, MaxFeedAssumption DEF TypeOK, IdleRun
  <1>1. CASE PlaidChanges
    <2>1. /\ feed' \in Seq(Snapshot) /\ Now' = Now + 1 /\ Now' \in 1..MaxFeed
          /\ UNCHANGED <<table, cursor, status, health, itemHooks, run>>
      BY <1>1, FeedGrows DEF PlaidChanges
    <2>2. \A s \in Session : run[s].cur \in 1..Now' /\ run[s].mark \in 0..Now'
      BY <1>0, <2>1 DEF TypeOK
    <2> QED
      BY <1>0, <2>1, <2>2 DEF TypeOK
  <1>2. CASE ItemEvent
    BY <1>2 DEF ItemEvent, ItemBreaks, ItemRepaired, ItemWebhook, TypeOK, Status,
                Now
  <1>3. ASSUME NEW s \in Session, Load(s) PROVE TypeOK'
    <2> DEFINE r == [IdleRun EXCEPT !.pc = "paging", !.cur = cursor, !.st = status]
    <2>1. cursor \in Nat /\ status \in Status
      BY <1>0 DEF TypeOK
    <2>2. r \in Run
      BY <1>0, <2>1 DEF Run
    <2>3. r.cur \in 1..Now /\ r.mark \in 0..Now
      BY <1>0 DEF IdleRun
    <2> QED
      BY <1>3, <2>2, <2>3, TypeOfRun DEF Load, TypeOK, Now
  <1>4. ASSUME NEW s \in Session, FetchPage(s) PROVE TypeOK'
    <2> DEFINE r == run[s]
               due == IF r.mark = 0 THEN Changed(r.cur, Now) \cup Removed(r.cur, Now)
                      ELSE r.todo
    <2>1. PICK page \in SUBSET due :
            run' = [run EXCEPT ![s] =
                    [r EXCEPT !.pc = IF page = due THEN "fetched" ELSE "paging",
                              !.mark = Now,
                              !.todo = due \ page,
                              !.changed = [t \in Txn |->
                                  IF t \in page \cap Changed(r.cur, Now)
                                  THEN feed[Now][t] ELSE r.changed[t]],
                              !.removed = r.removed \cup (page \cap Removed(r.cur, Now))]]
      BY <1>4 DEF FetchPage
    <2>2. r \in Run /\ due \in SUBSET Txn
      BY <1>0 DEF Run, Changed, Removed
    <2>3. feed[Now] \in [Txn -> 0..MaxFeed]
      BY <1>0 DEF TypeOK, Snapshot, Now
    <2>4. [t \in Txn |-> IF t \in page \cap Changed(r.cur, Now)
                         THEN feed[Now][t] ELSE r.changed[t]] \in [Txn -> 0..MaxFeed]
      BY <2>2, <2>3 DEF Run
    <2> DEFINE q == [r EXCEPT !.pc = IF page = due THEN "fetched" ELSE "paging",
                              !.mark = Now,
                              !.todo = due \ page,
                              !.changed = [t \in Txn |->
                                  IF t \in page \cap Changed(r.cur, Now)
                                  THEN feed[Now][t] ELSE r.changed[t]],
                              !.removed = r.removed \cup (page \cap Removed(r.cur, Now))]
    <2>5. q.cur \in 1..Now /\ q.mark \in 0..Now
      BY <1>0, <2>2 DEF TypeOK, Run
    <2>6. q \in Run
      BY <1>0, <2>2, <2>4 DEF Run, Removed
    <2> QED
      BY <1>4, <2>1, <2>5, <2>6, TypeOfRun DEF FetchPage, TypeOK, Now
  <1>5. ASSUME NEW s \in Session, PageMutated(s) PROVE TypeOK'
    <2> DEFINE q == [run[s] EXCEPT !.attempt = 2, !.mark = 0, !.todo = {},
                                   !.changed = Empty, !.removed = {}]
    <2>0. run[s] \in Run /\ run[s].cur \in 1..Now
      BY DEF TypeOK
    <2>1. q \in Run /\ q.cur \in 1..Now /\ q.mark \in 0..Now
      <3>1. q \in Run
        BY <2>0, IdleRunType DEF Run
      <3> QED
        BY <1>0, <2>0, <3>1 DEF Run
    <2>2. run' = [run EXCEPT ![s] = q] \/ run' = [run EXCEPT ![s] = IdleRun]
      BY <1>0, <1>5 DEF PageMutated
    <2> QED
      BY <1>0, <1>5, <2>1, <2>2, TypeOfRun DEF PageMutated, TypeOK, Now
  <1>6. ASSUME NEW s \in Session, NotReady(s) PROVE TypeOK'
    <2> DEFINE q == [run[s] EXCEPT !.pc = "fetched", !.mark = 1]
    <2>0. run[s] \in Run /\ run[s].cur \in 1..Now
      BY DEF TypeOK
    <2>1. q \in Run /\ q.cur \in 1..Now /\ q.mark \in 0..Now /\ run' = [run EXCEPT ![s] = q]
      <3>1. q \in Run
        BY <2>0 DEF Run
      <3>2. q.cur \in 1..Now /\ q.mark \in 0..Now
        BY <1>0, <2>0 DEF Run
      <3> QED
        BY <1>0, <1>6, <3>1, <3>2 DEF NotReady
    <2> QED
      BY <1>6, <2>1, TypeOfRun DEF NotReady, TypeOK, Now
  <1>7. ASSUME NEW s \in Session, LoginRequired(s) PROVE TypeOK'
    BY <1>0, <1>7, TypeOfRun DEF LoginRequired, WriteStatus, Status, TypeOK, Now
  <1>8. ASSUME NEW s \in Session, ReadExisting(s) PROVE TypeOK'
    <2> DEFINE q == [run[s] EXCEPT !.pc = "applying", !.seen = table]
    <2>1. q \in Run /\ q.cur \in 1..Now /\ q.mark \in 0..Now /\ run' = [run EXCEPT ![s] = q]
      BY <1>0, <1>8 DEF Run, TypeOK, ReadExisting
    <2> QED
      BY <1>8, <2>1, TypeOfRun DEF ReadExisting, TypeOK, Now
  <1>9. ASSUME NEW s \in Session, Commit(s) PROVE TypeOK'
    <2>1. table' \in Replica!Rows
      BY <1>9, ApplyType DEF Commit, Listed
    <2>2. cursor' \in 1..Now
      <3>1. run[s].mark # 0 /\ run[s].mark \in 0..Now
        BY <1>9 DEF Commit, Gathering, TypeOK
      <3> QED
        BY <1>0, <1>9, <3>1 DEF Commit
    <2> QED
      BY <1>0, <1>9, <2>1, <2>2, TypeOfRun DEF Commit, WriteStatus, Status, TypeOK, Now
  <1>10. ASSUME NEW s \in Session, ApplyFails(s) PROVE TypeOK'
    <2>1. PICK bad \in Listed(run[s]) : \E T \in SUBSET (Listed(run[s]) \ {bad}) :
             \/ table' = Apply(run[s], T)
             \/ table' = [Apply(run[s], T) EXCEPT ![bad] = Torn]
      BY <1>10 DEF ApplyFails
    <2>2. PICK T \in SUBSET Txn :
             \/ table' = Apply(run[s], T)
             \/ table' = [Apply(run[s], T) EXCEPT ![bad] = Torn]
      BY <2>1 DEF Listed
    <2>3. table' \in Replica!Rows
      BY <2>2, ApplyType DEF Listed
    <2> QED
      BY <1>0, <1>10, <2>3, TypeOfRun DEF ApplyFails, TypeOK, Now
  <1>11. ASSUME NEW s \in Session, Abandon(s) PROVE TypeOK'
    BY <1>0, <1>11, TypeOfRun DEF Abandon, TypeOK, Now
  <1>12. CASE UNCHANGED vars
    BY <1>12 DEF vars, TypeOK, Now
  <1> QED
    BY <1>1, <1>2, <1>3, <1>4, <1>5, <1>6, <1>7, <1>8, <1>9, <1>10, <1>11, <1>12
       DEF Next, Sync

---------------------------------------------------------------------------
(* What a sync gathers *)

\* A step of session s that leaves the history alone and makes s gather
\* correctly disturbs no other session.
LEMMA GatheringOthers ==
    ASSUME TypeOK, \A o \in Session : Gathering(o), UNCHANGED feed,
           NEW s \in Session, NEW r, run' = [run EXCEPT ![s] = r], Gathering(s)'
    PROVE  \A o \in Session : Gathering(o)'
  <1> SUFFICES ASSUME NEW o \in Session, o # s PROVE Gathering(o)'
    OBVIOUS
  <1>1. run'[o] = run[o]
    BY DEF TypeOK
  <1> QED
    BY <1>1 DEF Gathering, ListsOf, Changed, Removed

LEMMA GatheringIdle ==
    ASSUME TypeOK, \A o \in Session : Gathering(o), UNCHANGED feed,
           NEW s \in Session, run' = [run EXCEPT ![s] = IdleRun]
    PROVE  \A o \in Session : Gathering(o)'
  <1>1. run'[s] = IdleRun
    BY DEF TypeOK
  <1>2. Gathering(s)'
    BY <1>1 DEF Gathering, IdleRun
  <1> QED
    BY <1>2, GatheringOthers

\* One more page: the lists stay exactly the part of the difference that the
\* pages have delivered (_sync_transactions_once).
LEMMA PageStep ==
    ASSUME TypeOK, NEW s \in Session, Gathering(s), FetchPage(s)
    PROVE  Gathering(s)'
  <1> DEFINE r == run[s]
             q == run'[s]
             due == IF r.mark = 0 THEN Changed(r.cur, Now) \cup Removed(r.cur, Now)
                    ELSE r.todo
  <1>0. r \in Run /\ r.cur \in 1..Now /\ Now \in Nat /\ Now # 0
    BY DEF TypeOK
  <1>1. PICK page \in SUBSET due :
          run' = [run EXCEPT ![s] =
                  [r EXCEPT !.pc = IF page = due THEN "fetched" ELSE "paging",
                            !.mark = Now,
                            !.todo = due \ page,
                            !.changed = [t \in Txn |->
                                IF t \in page \cap Changed(r.cur, Now)
                                THEN feed[Now][t] ELSE r.changed[t]],
                            !.removed = r.removed \cup (page \cap Removed(r.cur, Now))]]
    BY DEF FetchPage
  <1>2. /\ q.pc = IF page = due THEN "fetched" ELSE "paging"
        /\ q.cur = r.cur /\ q.mark = Now /\ q.todo = due \ page
        /\ q.changed = [t \in Txn |-> IF t \in page \cap Changed(r.cur, Now)
                                      THEN feed[Now][t] ELSE r.changed[t]]
        /\ q.removed = r.removed \cup (page \cap Removed(r.cur, Now))
    <2>1. run \in [Session -> Run]
      BY DEF TypeOK
    <2> HIDE DEF due
    <2> QED
      BY <1>0, <1>1, <2>1 DEF Run
  <1>3. r.pc = "paging" /\ r.mark \in {0, Now} /\ UNCHANGED feed
    BY DEF FetchPage
  <1>4. /\ \A t \in Txn : q.changed[t] = IF t \in Changed(q.cur, q.mark) \ q.todo
                                         THEN feed[q.mark][t] ELSE NoRow
        /\ q.removed = Removed(q.cur, q.mark) \ q.todo
    <2>1. CASE r.mark = 0
      <3>1. r.changed = Empty /\ r.removed = {}
            /\ due = Changed(r.cur, Now) \cup Removed(r.cur, Now)
        BY <1>3, <2>1 DEF Gathering
      <3>2. \A t \in Txn : r.changed[t] = NoRow
        BY <3>1 DEF Empty
      <3>3. ASSUME NEW t \in Txn
            PROVE  q.changed[t] = IF t \in Changed(q.cur, q.mark) \ q.todo
                                  THEN feed[q.mark][t] ELSE NoRow
        <4> HIDE DEF q, r, due
        <4> QED
          BY <1>1, <1>2, <3>1, <3>2
      <3>4. q.removed = Removed(q.cur, q.mark) \ q.todo
        <4> HIDE DEF q, r, due
        <4> QED
          BY <1>1, <1>2, <3>1
      <3> QED
        BY <3>3, <3>4
    <2>2. CASE r.mark = Now
      <3>1. /\ due = r.todo
            /\ \A t \in Txn : r.changed[t] = IF t \in Changed(r.cur, Now) \ r.todo
                                             THEN feed[Now][t] ELSE NoRow
            /\ r.removed = Removed(r.cur, Now) \ r.todo
        BY <1>0, <2>2 DEF Gathering, ListsOf
      <3>2. ASSUME NEW t \in Txn
            PROVE  q.changed[t] = IF t \in Changed(q.cur, q.mark) \ q.todo
                                  THEN feed[q.mark][t] ELSE NoRow
        <4> HIDE DEF q, r, due
        <4> QED
          BY <1>1, <1>2, <3>1
      <3>3. q.removed = Removed(q.cur, q.mark) \ q.todo
        <4> HIDE DEF q, r, due
        <4> QED
          BY <1>1, <1>2, <3>1
      <3> QED
        BY <3>2, <3>3
    <2> QED
      BY <1>3, <2>1, <2>2
  <1>6. ListsOf(run[s])'
    BY <1>3, <1>4 DEF ListsOf, Changed, Removed
  <1>7. q.pc = "fetched" => q.todo = {}
    BY <1>2
  <1>8. q.pc \in {"fetched", "paging"} /\ q.mark # 0 /\ q.cur <= q.mark
    BY <1>0, <1>2
  <1> QED
    BY <1>6, <1>7, <1>8 DEF Gathering

LEMMA GatheringStep ==
    ASSUME TypeOK, \A s \in Session : Gathering(s), [Next]_vars
    PROVE  \A s \in Session : Gathering(s)'
  <1>0. run \in [Session -> Run]
    BY DEF TypeOK
  <1>1. CASE PlaidChanges
    <2> SUFFICES ASSUME NEW s \in Session PROVE Gathering(s)'
      OBVIOUS
    <2>1. run'[s] = run[s] /\ FeedNext
      BY <1>1 DEF PlaidChanges
    <2>2. CASE run[s].mark = 0
      BY <2>1, <2>2 DEF Gathering
    <2>3. CASE run[s].mark # 0
      <3>1. run[s].cur \in 1..Now /\ run[s].mark \in 1..Now
        BY <2>3 DEF TypeOK
      <3>2. /\ Changed(run[s].cur, run[s].mark)' = Changed(run[s].cur, run[s].mark)
            /\ Removed(run[s].cur, run[s].mark)' = Removed(run[s].cur, run[s].mark)
        <4>1. ASSUME NEW i \in 1..Now, NEW j \in 1..Now, run[s].cur = i, run[s].mark = j
              PROVE  /\ Changed(run[s].cur, run[s].mark)' = Changed(run[s].cur, run[s].mark)
                     /\ Removed(run[s].cur, run[s].mark)' = Removed(run[s].cur, run[s].mark)
          <5>1. Changed(i, j)' = Changed(i, j) /\ Removed(i, j)' = Removed(i, j)
            BY <2>1, DifferenceStable
          <5>2. run'[s].cur = i /\ run'[s].mark = j
            BY <2>1, <4>1
          <5> QED
            BY <4>1, <5>1, <5>2 DEF Changed, Removed
        <4> QED
          BY <3>1, <4>1
      <3>3. feed'[run[s].mark] = feed[run[s].mark]
        BY <2>1, <3>1, FeedGrows
      <3>4. ListsOf(run[s])
        BY <2>3 DEF Gathering
      <3>5. ListsOf(run[s])'
        BY <2>1, <3>2, <3>3, <3>4 DEF ListsOf
      <3> QED
        BY <2>1, <2>3, <3>5 DEF Gathering
    <2> QED
      BY <2>2, <2>3
  <1>2. CASE ItemEvent \/ UNCHANGED vars
    <2>1. UNCHANGED <<feed, run>>
      BY <1>2 DEF ItemEvent, ItemBreaks, ItemRepaired, ItemWebhook, vars
    <2> QED
      BY <2>1 DEF Gathering, ListsOf, Changed, Removed
  <1>3. ASSUME NEW s \in Session, Load(s) PROVE \A o \in Session : Gathering(o)'
    <2> DEFINE q == [IdleRun EXCEPT !.pc = "paging", !.cur = cursor, !.st = status]
    <2>1. run' = [run EXCEPT ![s] = q] /\ UNCHANGED feed
      BY <1>3 DEF Load
    <2>2. run'[s] = q
      BY <1>0, <2>1
    <2>3. Gathering(s)'
      BY <2>2 DEF Gathering, IdleRun
    <2> HIDE DEF q
    <2> QED
      BY <2>1, <2>3, GatheringOthers
  <1>4. ASSUME NEW s \in Session, FetchPage(s) PROVE \A o \in Session : Gathering(o)'
    <2>1. Gathering(s)' /\ UNCHANGED feed
      BY <1>4, PageStep DEF FetchPage
    <2>2. PICK r : run' = [run EXCEPT ![s] = r]
      BY <1>4 DEF FetchPage
    <2> QED
      BY <2>1, <2>2, GatheringOthers
  <1>5. ASSUME NEW s \in Session, PageMutated(s) PROVE \A o \in Session : Gathering(o)'
    <2> DEFINE q == [run[s] EXCEPT !.attempt = 2, !.mark = 0, !.todo = {},
                                   !.changed = Empty, !.removed = {}]
    <2>1. CASE run' = [run EXCEPT ![s] = IdleRun]
      BY <1>5, <2>1, GatheringIdle DEF PageMutated
    <2>2. CASE run' = [run EXCEPT ![s] = q]
      <3>1. run'[s] = q /\ run[s] \in Run /\ run[s].pc = "paging"
        BY <1>0, <1>5, <2>2 DEF PageMutated
      <3>2. q.pc = "paging" /\ q.mark = 0 /\ q.todo = {} /\ q.changed = Empty /\ q.removed = {}
        BY <3>1 DEF Run
      <3>3. Gathering(s)'
        BY <3>1, <3>2 DEF Gathering, Empty
      <3> HIDE DEF q
      <3> QED
        BY <1>5, <2>2, <3>3, GatheringOthers DEF PageMutated
    <2>3. run' = [run EXCEPT ![s] = q] \/ run' = [run EXCEPT ![s] = IdleRun]
      BY <1>0, <1>5 DEF PageMutated
    <2> QED
      BY <2>1, <2>2, <2>3
  <1>6. ASSUME NEW s \in Session, NotReady(s) PROVE \A o \in Session : Gathering(o)'
    <2> DEFINE q == [run[s] EXCEPT !.pc = "fetched", !.mark = 1]
    <2>1. run' = [run EXCEPT ![s] = q] /\ UNCHANGED feed
      BY <1>0, <1>6 DEF NotReady
    <2>2. run'[s] = q /\ run[s] \in Run
      BY <1>0, <2>1
    <2>3. /\ q.pc = "fetched" /\ q.mark = 1 /\ q.cur = 1 /\ q.changed = Empty
          /\ q.removed = {} /\ q.todo = {}
      BY <1>6, <2>2 DEF NotReady, Gathering, Run
    <2>4. Changed(1, 1)' = {} /\ Removed(1, 1)' = {}
      BY DEF Changed, Removed
    <2>5. ListsOf(run[s])'
      BY <2>2, <2>3, <2>4 DEF ListsOf, Empty, Changed, Removed
    <2>6. Gathering(s)'
      BY <2>2, <2>3, <2>5 DEF Gathering
    <2> HIDE DEF q
    <2> QED
      BY <2>1, <2>6, GatheringOthers
  <1>7. ASSUME NEW s \in Session, ReadExisting(s) PROVE \A o \in Session : Gathering(o)'
    <2> DEFINE q == [run[s] EXCEPT !.pc = "applying", !.seen = table]
    <2>1. run' = [run EXCEPT ![s] = q] /\ UNCHANGED feed
      BY <1>0, <1>7 DEF ReadExisting
    <2>2. run'[s] = q /\ run[s] \in Run
      BY <1>0, <2>1
    <2>3. /\ q.pc = "applying" /\ q.mark = run[s].mark /\ q.cur = run[s].cur
          /\ q.changed = run[s].changed /\ q.removed = run[s].removed /\ q.todo = run[s].todo
      BY <2>2 DEF Run
    <2>4. run[s].mark # 0 /\ run[s].todo = {} /\ ListsOf(run[s]) /\ run[s].cur <= run[s].mark
      BY <1>7 DEF ReadExisting, Gathering
    <2>5. ListsOf(run[s])'
      BY <2>1, <2>2, <2>3, <2>4 DEF ListsOf, Changed, Removed
    <2>6. Gathering(s)'
      BY <2>2, <2>3, <2>4, <2>5 DEF Gathering
    <2> HIDE DEF q
    <2> QED
      BY <2>1, <2>6, GatheringOthers
  <1>8. ASSUME NEW s \in Session,
               LoginRequired(s) \/ Commit(s) \/ ApplyFails(s) \/ Abandon(s)
        PROVE  \A o \in Session : Gathering(o)'
    BY <1>8, GatheringIdle DEF LoginRequired, Commit, ApplyFails, Abandon
  <1> QED
    BY <1>1, <1>2, <1>3, <1>4, <1>5, <1>6, <1>7, <1>8 DEF Next, Sync

---------------------------------------------------------------------------
(* Serialized syncs: the table is never staler than the cursor *)

LEMMA ExclusiveStep ==
    ASSUME TypeOK, Serialized, Exclusive, [Next]_vars
    PROVE  Exclusive'
  <1>0. run \in [Session -> Run] /\ IdleRun.pc = "idle"
    BY DEF TypeOK, IdleRun
  <1>1. CASE PlaidChanges \/ ItemEvent \/ UNCHANGED vars
    <2>1. UNCHANGED <<table, cursor, run>>
      BY <1>1 DEF PlaidChanges, ItemEvent, ItemBreaks, ItemRepaired,
                  ItemWebhook, vars
    <2> QED
      BY <2>1 DEF Exclusive, Active
  <1>2. ASSUME NEW s \in Session, Load(s) PROVE Exclusive'
    <2>1. /\ \A o \in Session : run[o].pc = "idle"
          /\ \A o \in Session : o # s => run'[o] = run[o]
          /\ run'[s].pc = "paging" /\ run'[s].cur = cursor
          /\ UNCHANGED <<table, cursor>>
      BY <1>0, <1>2 DEF Load, Active, IdleRun
    <2> QED
      BY <2>1 DEF Exclusive, Active
  <1>3. ASSUME NEW s \in Session,
               FetchPage(s) \/ PageMutated(s) \/ NotReady(s) \/ ReadExisting(s)
        PROVE  Exclusive'
    <2>1. Active(s) /\ UNCHANGED <<table, cursor>>
      BY <1>3 DEF FetchPage, PageMutated, NotReady, ReadExisting, Active
    <2>2. \A o \in Session : o # s => run'[o] = run[o]
      BY <1>0, <1>3 DEF FetchPage, PageMutated, NotReady, ReadExisting
    <2>3. run'[s].pc = "idle" \/ run'[s].cur = run[s].cur
      <3>1. run[s] \in Run
        BY <1>0
      <3>2. CASE FetchPage(s)
        BY <1>0, <3>1, <3>2 DEF FetchPage, Run
      <3>3. CASE PageMutated(s)
        BY <1>0, <3>1, <3>3 DEF PageMutated, Run
      <3>4. CASE NotReady(s) \/ ReadExisting(s)
        BY <1>0, <3>1, <3>4 DEF NotReady, ReadExisting, Run
      <3> QED
        BY <1>3, <3>2, <3>3, <3>4
    <2>4. run'[s].pc = "applying" => run'[s].seen = table
      <3>1. run[s] \in Run
        BY <1>0
      <3>2. CASE FetchPage(s)
        BY <1>0, <3>1, <3>2 DEF FetchPage, Run
      <3>3. CASE PageMutated(s)
        BY <1>0, <3>1, <3>3 DEF PageMutated, Run
      <3>4. CASE NotReady(s) \/ ReadExisting(s)
        BY <1>0, <3>1, <3>4 DEF NotReady, ReadExisting, Run
      <3> QED
        BY <1>3, <3>2, <3>3, <3>4
    <2> QED
      BY <2>1, <2>2, <2>3, <2>4 DEF Exclusive, Active
  <1>4. ASSUME NEW s \in Session,
               LoginRequired(s) \/ Commit(s) \/ ApplyFails(s) \/ Abandon(s)
        PROVE  Exclusive'
    <2>1. Active(s) /\ run'[s].pc = "idle" /\ \A o \in Session : o # s => run'[o] = run[o]
      BY <1>0, <1>4 DEF LoginRequired, Commit, ApplyFails, Abandon, Active
    <2>2. \A o \in Session : run'[o].pc = "idle"
      BY <2>1 DEF Exclusive, Active
    <2> QED
      BY <2>2 DEF Exclusive, Active
  <1> QED
    BY <1>1, <1>2, <1>3, <1>4 DEF Next, Sync

\* The commit of a complete difference: a row of the difference becomes what
\* Plaid has at the new cursor, and a row outside it cannot have changed
\* between the old cursor and the new one.
LEMMA FreshCommit ==
    ASSUME TypeOK, Versioned, Exclusive, FreshRows,
           NEW s \in Session, Gathering(s), Commit(s)
    PROVE  FreshRows' /\ cursor' \in cursor..Now
  <1> DEFINE r == run[s]
             m == r.mark
  <1>1. /\ Now \in Nat /\ cursor \in 1..Now /\ r.cur = cursor /\ r.seen = table
        /\ m \in 1..Now /\ cursor <= m /\ ListsOf(r) /\ r.todo = {}
    BY DEF Commit, Gathering, TypeOK, Exclusive, Active
  <1>2. cursor' = m /\ UNCHANGED feed
    BY <1>1 DEF Commit
  <1>3. \A t \in Txn : /\ r.changed[t] = IF t \in Changed(cursor, m) THEN feed[m][t] ELSE NoRow
                       /\ t \in r.removed <=> t \in Removed(cursor, m)
    BY <1>1 DEF ListsOf
  <1>4. \A t \in Txn : table'[t] = IF t \in r.removed THEN NoRow
                                   ELSE IF t \in Listed(r) /\ Writes(r, t)
                                        THEN r.changed[t] ELSE table[t]
    BY DEF Commit, Apply
  <1>5. ASSUME NEW t \in Txn
        PROVE  \/ \E p \in m..Now : table'[t] = feed[p][t]
               \/ table'[t] = Torn /\ \E p \in m..Now : feed[p][t] # feed[m][t]
    <2>1. CASE t \in Removed(cursor, m)
      <3>1. table'[t] = NoRow /\ feed[m][t] = NoRow
        BY <1>3, <1>4, <2>1 DEF Removed
      <3> QED
        BY <1>1, <3>1
    <2>2. CASE t \in Changed(cursor, m)
      <3>1. t \notin Removed(cursor, m) /\ feed[m][t] # NoRow /\ r.changed[t] = feed[m][t]
        BY <1>3, <2>2 DEF Changed, Removed
      <3>2. table'[t] = feed[m][t]
        BY <1>1, <1>3, <1>4, <3>1 DEF Listed, Writes
      <3> QED
        BY <1>1, <3>2
    <2>3. CASE t \notin Removed(cursor, m) /\ t \notin Changed(cursor, m)
      <3>1. table'[t] = table[t]
        BY <1>3, <1>4, <2>3 DEF Listed
      <3>2. \A p \in cursor..m : feed[p][t] = feed[m][t]
        <4>1. CASE feed[m][t] = NoRow
          BY <2>3, <4>1 DEF Removed
        <4>2. CASE feed[m][t] # NoRow
          <5>1. feed[cursor][t] = feed[m][t]
            BY <2>3, <4>2 DEF Changed
          <5> QED
            BY <1>1, <4>2, <5>1 DEF Versioned
        <4> QED
          BY <4>1, <4>2
      <3>3. CASE \E p \in cursor..Now : table[t] = feed[p][t]
        <4>1. PICK p \in cursor..Now : table[t] = feed[p][t]
          BY <3>3
        <4>2. CASE p < m
          <5>1. p \in cursor..m
            BY <1>1, <4>2
          <5>2. feed[p][t] = feed[m][t]
            BY <3>2, <5>1
          <5>3. m \in m..Now
            BY <1>1
          <5> QED
            BY <3>1, <4>1, <5>2, <5>3
        <4>3. CASE ~(p < m)
          <5>1. p \in m..Now
            BY <1>1, <4>3
          <5> QED
            BY <3>1, <4>1, <5>1
        <4> QED
          BY <4>2, <4>3
      <3>4. CASE table[t] = Torn /\ \E p \in cursor..Now : feed[p][t] # feed[cursor][t]
        <4>1. PICK p \in cursor..Now : feed[p][t] # feed[cursor][t]
          BY <3>4
        <4>2. feed[cursor][t] = feed[m][t]
          BY <1>1, <3>2
        <4>3. p \notin cursor..m
          BY <3>2, <4>1, <4>2
        <4>4. p \in m..Now
          BY <1>1, <4>3
        <4> QED
          BY <3>1, <3>4, <4>1, <4>2, <4>4
      <3> QED
        BY <3>3, <3>4 DEF FreshRows, Replica!FreshRows, Replica!Current,
                          Replica!DueForRewrite, Replica!Now, Now, Torn
    <2> QED
      BY <2>1, <2>2, <2>3
  <1>6. Now' = Now /\ feed' = feed
    BY <1>2 DEF Now
  <1>7. FreshRows'
    BY <1>2, <1>5, <1>6 DEF FreshRows, Replica!FreshRows, Replica!Current,
                            Replica!DueForRewrite, Replica!Now, Now, Torn, Replica!Torn
  <1> QED
    BY <1>1, <1>2, <1>7

\* A sync that fails half way: the rows it wrote are ahead of the cursor, and
\* the torn row, if any, is in the difference from the cursor on.
LEMMA FreshPartial ==
    ASSUME TypeOK, Exclusive, FreshRows, NEW s \in Session, Gathering(s), ApplyFails(s)
    PROVE  FreshRows'
  <1> DEFINE r == run[s]
             m == r.mark
  <1>1. /\ Now \in Nat /\ cursor \in 1..Now /\ r.cur = cursor
        /\ m \in 1..Now /\ cursor <= m /\ ListsOf(r) /\ r.todo = {}
    BY DEF ApplyFails, Gathering, TypeOK, Exclusive, Active
  <1>2. \A t \in Listed(r) : r.changed[t] = feed[m][t] /\ feed[m][t] # feed[cursor][t]
    BY <1>1 DEF ListsOf, Listed, Changed
  <1>3. PICK bad \in Listed(r), T \in SUBSET Listed(r) :
           table' = Apply(r, T) \/ table' = [Apply(r, T) EXCEPT ![bad] = Torn]
    BY DEF ApplyFails
  <1>4. UNCHANGED <<feed, cursor>> /\ Now' = Now
    BY DEF ApplyFails, Now
  <1>5. ASSUME NEW t \in Txn
        PROVE  \/ \E p \in cursor..Now : table'[t] = feed[p][t]
               \/ table'[t] = Torn /\ \E p \in cursor..Now : feed[p][t] # feed[cursor][t]
    <2>1. m \in cursor..Now
      BY <1>1
    <2>2. CASE table'[t] = table[t]
      BY <2>2 DEF FreshRows, Replica!FreshRows, Replica!Current,
                  Replica!DueForRewrite, Replica!Now, Now, Torn
    <2>3. CASE t \in T /\ table'[t] = r.changed[t]
      BY <1>2, <2>1, <2>3
    <2>4. CASE t = bad /\ table'[t] = Torn
      BY <1>2, <2>1, <2>4
    <2> QED
      BY <1>3, <2>2, <2>3, <2>4 DEF Apply
  <1> QED
    BY <1>4, <1>5 DEF FreshRows, Replica!FreshRows, Replica!Current,
                      Replica!DueForRewrite, Replica!Now, Now, Torn, Replica!Torn

\* A longer history leaves every row as fresh as it was.
LEMMA FreshHistory ==
    ASSUME TypeOK, FreshRows, PlaidChanges
    PROVE  FreshRows'
  <1>1. /\ Now \in Nat /\ cursor \in 1..Now /\ Now' = Now + 1
        /\ \A p \in 1..Now : feed'[p] = feed[p]
        /\ UNCHANGED <<table, cursor>>
    BY FeedGrows DEF PlaidChanges, TypeOK
  <1>2. \A p \in cursor..Now : p \in cursor..Now' /\ feed'[p] = feed[p]
    BY <1>1
  <1>3. feed'[cursor] = feed[cursor]
    BY <1>1
  <1> SUFFICES ASSUME NEW t \in Txn
               PROVE  (Replica!Current(t) \/ Replica!DueForRewrite(t))'
    BY DEF FreshRows, Replica!FreshRows
  <1>4. Replica!Current(t) \/ Replica!DueForRewrite(t)
    BY DEF FreshRows, Replica!FreshRows
  <1>5. CASE Replica!Current(t)
    BY <1>1, <1>2, <1>5 DEF Replica!Current, Replica!Now, Now
  <1>6. CASE Replica!DueForRewrite(t)
    BY <1>1, <1>2, <1>3, <1>6 DEF Replica!DueForRewrite, Replica!Now, Now, Replica!Torn
  <1> QED
    BY <1>4, <1>5, <1>6

---------------------------------------------------------------------------
(* The invariant and the theorems *)

LEMMA InitIInv == Init => IInv
  <1> SUFFICES ASSUME Init PROVE IInv
    OBVIOUS
  <1>1. TypeOK
    BY TypeInit
  <1>2. /\ feed = << Empty >> /\ Now = 1 /\ feed[1] = Empty
        /\ table = Empty /\ cursor = 1 /\ run = [s \in Session |-> IdleRun]
    BY DEF Init, FeedInit, Now, Empty
  <1>3. Versioned
    BY <1>2 DEF Versioned, Empty, NoRow
  <1>4. \A s \in Session : Gathering(s)
    BY <1>2 DEF Gathering, IdleRun
  <1>5. Exclusive
    BY <1>2 DEF Exclusive, Active, IdleRun
  <1>6. FreshRows
    BY <1>2 DEF FreshRows, Replica!FreshRows, Replica!Current, Replica!Now, Now
  <1> QED
    BY <1>1, <1>3, <1>4, <1>5, <1>6 DEF IInv

LEMMA FreshStep ==
    ASSUME IInv, Serialized, [Next]_vars
    PROVE  FreshRows' /\ (UNCHANGED cursor \/ (cursor' \in cursor..Now /\ UNCHANGED feed))
  <1>1. TypeOK /\ Versioned /\ Exclusive /\ FreshRows /\ \A s \in Session : Gathering(s)
    BY DEF IInv
  <1>2. CASE PlaidChanges
    BY <1>1, <1>2, FreshHistory DEF PlaidChanges
  <1>3. ASSUME NEW s \in Session, Commit(s)
        PROVE  FreshRows' /\ (UNCHANGED cursor \/ (cursor' \in cursor..Now /\ UNCHANGED feed))
    BY <1>1, <1>3, FreshCommit DEF Commit
  <1>4. ASSUME NEW s \in Session, ApplyFails(s)
        PROVE  FreshRows' /\ (UNCHANGED cursor \/ (cursor' \in cursor..Now /\ UNCHANGED feed))
    BY <1>1, <1>4, FreshPartial DEF ApplyFails
  <1>5. CASE UNCHANGED <<feed, table, cursor>>
    BY <1>1, <1>5 DEF FreshRows, Replica!FreshRows, Replica!Current,
                      Replica!DueForRewrite, Replica!Now, Replica!Torn
  <1>6. PlaidChanges \/ (\E s \in Session : Commit(s) \/ ApplyFails(s))
            \/ UNCHANGED <<feed, table, cursor>>
    BY DEF Next, Sync, ItemEvent, ItemBreaks, ItemRepaired, ItemWebhook, Load,
           FetchPage, PageMutated, NotReady, LoginRequired, ReadExisting, Abandon, vars
  <1> QED
    BY <1>2, <1>3, <1>4, <1>5, <1>6

LEMMA StepIInv == IInv /\ [Next]_vars => IInv'
  <1> SUFFICES ASSUME IInv, [Next]_vars PROVE IInv'
    OBVIOUS
  <1>1. TypeOK /\ Versioned /\ \A s \in Session : Gathering(s)
    BY DEF IInv
  <1>2. TypeOK'
    BY <1>1, TypeStep
  <1>3. Versioned'
    <2>1. CASE PlaidChanges
      BY <1>1, <2>1, VersionedStep DEF PlaidChanges
    <2>2. CASE UNCHANGED feed
      BY <1>1, <2>2 DEF Versioned, Now
    <2> QED
      BY <2>1, <2>2 DEF Next, Sync, ItemEvent, ItemBreaks, ItemRepaired,
         ItemWebhook, Load, FetchPage, PageMutated, NotReady, LoginRequired,
         ReadExisting, Commit, ApplyFails, Abandon, vars
  <1>4. (\A s \in Session : Gathering(s))'
    BY <1>1, GatheringStep
  <1>5. Serialized => Exclusive' /\ FreshRows'
    BY <1>1, ExclusiveStep, FreshStep DEF IInv
  <1> QED
    BY <1>2, <1>3, <1>4, <1>5 DEF IInv

THEOREM IInvInvariant == Spec => []IInv
  <1> QED
    BY InitIInv, StepIInv, PTL DEF Spec

\* Every column, list and cursor keeps its type, the cursor and the position a
\* sync reads stay inside Plaid's history, for any number of overlapping syncs.
THEOREM TypeCorrect == Spec => []TypeOK
  <1>1. IInv => TypeOK
    BY DEF IInv
  <1> QED
    BY <1>1, IInvInvariant, PTL

\* What a sync is about to apply is exactly the difference from the cursor it
\* loaded to the cursor it will store, also with overlapping syncs
\* (_sync_transactions_once, _sync_transactions_blocking).
THEOREM FetchIsExact == Spec => []FetchExact
  <1>1. IInv => FetchExact
    <2> SUFFICES ASSUME IInv, NEW s \in Session, run[s].pc \in {"fetched", "applying"}
                 PROVE  /\ ListsOf(run[s]) /\ run[s].todo = {}
      BY DEF FetchExact, ListsOf
    <2> QED
      BY DEF IInv, Gathering
  <1> QED
    BY <1>1, IInvInvariant, PTL

\* Where syncs of one Item do not overlap, no row is ever staler than the
\* stored cursor (sync_account_transactions).
THEOREM TableNeverStale == ASSUME Serialized PROVE Spec => []FreshRows
  <1>1. IInv => FreshRows
    BY DEF IInv
  <1> QED
    BY <1>1, IInvInvariant, PTL

\* Where syncs of one Item do not overlap, the table and its cursor implement
\* the replica that only moves forward (sync_account_transactions).
THEOREM ImplementsReplica == ASSUME Serialized PROVE Spec => ReplicaSpec
  <1>1. Init => Replica!Init
    BY DEF Init, Replica!Init, FeedInit, Replica!FeedInit, Empty, NoRow, Replica!NoRow
  <1>2. IInv /\ IInv' /\ [Next]_vars => [Replica!Next]_<<feed, table, cursor>>
    <2> SUFFICES ASSUME IInv, IInv', [Next]_vars
                 PROVE  [Replica!Next]_<<feed, table, cursor>>
      OBVIOUS
    <2>1. CASE PlaidChanges
      <3>1. PICK t \in Txn : Change(t) \/ Remove(t)
        BY <2>1 DEF PlaidChanges, FeedNext
      <3>2. Replica!FeedNext
        BY <3>1 DEF Change, Remove, Now, NoRow, Replica!FeedNext, Replica!Change,
                    Replica!Remove, Replica!Now, Replica!NoRow
      <3> QED
        BY <2>1, <3>2 DEF PlaidChanges, Replica!Next
    <2>2. CASE UNCHANGED feed
      <3>1. /\ FreshRows'
            /\ UNCHANGED cursor \/ cursor' \in cursor..Now
        BY FreshStep
      <3>2. cursor' \in cursor..Now
        BY <3>1 DEF IInv, TypeOK
      <3>3. Replica!FreshRows' /\ table' \in Replica!Rows
        BY <3>1 DEF FreshRows, IInv, TypeOK
      <3>4. Replica!Write
        BY <2>2, <3>2, <3>3 DEF Replica!Write, Replica!Now, Now
      <3> QED
        BY <3>4 DEF Replica!Next
    <2> QED
      BY <2>1, <2>2 DEF Next, Sync, ItemEvent, ItemBreaks, ItemRepaired,
         ItemWebhook, Load, FetchPage, PageMutated, NotReady, LoginRequired,
         ReadExisting, Commit, ApplyFails, Abandon, vars
  <1> QED
    BY <1>1, <1>2, IInvInvariant, PTL DEF Spec, ReplicaSpec, Replica!Spec
==========================================================================
