-------------------------- MODULE ItemSyncProofs --------------------------
(***************************************************************************)
(* ItemSync for any number of Items, worker slots, tries, updates and      *)
(* deaths: one job per Item, the status shown while a job works, and the   *)
(* advance of the cursor, which rests on the other two.                    *)
(***************************************************************************)
EXTENDS ItemSync, FiniteSetTheorems, TLAPS

---------------------------------------------------------------------------
(* The inductive invariant *)

\* The cursor is behind Plaid, and what a job read and fetched is no older
\* than the row it will write.  It holds since only that job writes it.
Current(w) ==
    LET i == slot[w].item
    IN  /\ slot[w].at = "loaded" => slot[w].cur = cursor[i]
        /\ slot[w].at = "fetched" => cursor[i] <= slot[w].got /\ slot[w].got <= head[i]

Behind ==
    /\ \A i \in Item : cursor[i] <= head[i]
    /\ \A w \in Slot : slot[w] # FreeSlot => Current(w)

IInv == TypeOK /\ OneSyncPerItem /\ WorkShowsSyncing /\ Behind

---------------------------------------------------------------------------
(* The slots *)

\* A slot at work has a job of one Item; a free one runs none.
LEMMA SlotKinds ==
    ASSUME TypeOK, NEW w \in Slot
    PROVE  /\ slot[w] = FreeSlot \/ slot[w] \in Job
           /\ slot[w] \in Job => slot[w].item \in Item /\ slot[w].at \in Steps /\ slot[w] # FreeSlot
           /\ slot[w] = FreeSlot => slot[w].at = "free" /\ \A i \in Item : ~Runs(w, i)
  BY ItemSyncAssumption DEF TypeOK, Job, FreeSlot, Steps, Runs

\* A slot whose job is at one of its steps has that job.
LEMMA AtWork ==
    ASSUME TypeOK, NEW w \in Slot, slot[w].at \in Steps
    PROVE  slot[w] \in Job /\ slot[w].item \in Item /\ slot[w] # FreeSlot
  BY SlotKinds DEF Steps

\* Another slot works on another Item.
LEMMA OtherSlot ==
    ASSUME TypeOK, OneSyncPerItem, NEW w \in Slot, NEW v \in Slot, v # w,
           slot[w] \in Job, slot[v] \in Job
    PROVE  slot[v].item # slot[w].item
  BY SlotKinds DEF OneSyncPerItem, Runs

\* What a job works on does not change while it goes through its steps, so
\* neither does which jobs there are.
LEMMA SameJobs ==
    ASSUME OneSyncPerItem, UNCHANGED queued,
           \A v \in Slot : slot'[v].item = slot[v].item
    PROVE  OneSyncPerItem'
  BY DEF OneSyncPerItem, Running, Runs

---------------------------------------------------------------------------
(* Steps *)

LEMMA InitInv == Init => IInv
  <1> SUFFICES ASSUME Init PROVE IInv
    OBVIOUS
  <1>1. \A w \in Slot : slot[w] = FreeSlot
    BY DEF Init
  <1>2. TypeOK
    BY ItemSyncAssumption DEF Init, TypeOK
  <1>3. OneSyncPerItem
    BY <1>1, ItemSyncAssumption DEF Init, OneSyncPerItem, Running, Runs, FreeSlot
  <1>4. WorkShowsSyncing
    BY <1>1 DEF WorkShowsSyncing, FreeSlot, Steps
  <1>5. Behind
    BY <1>1 DEF Behind, Init
  <1> QED
    BY <1>2, <1>3, <1>4, <1>5 DEF IInv

\* A trigger queues a job only when none is queued or at work.
LEMMA EnqueueInv ==
    ASSUME IInv, NEW i \in Item, Enqueue(i),
           UNCHANGED <<head, cursor, status, syncStatus, kept, slot, deaths>>,
           hooks' \subseteq Item, toEnqueue' \subseteq Item
    PROVE  IInv'
  <1>1. TypeOK'
    BY ItemSyncAssumption DEF IInv, TypeOK, Enqueue
  <1>2. OneSyncPerItem'
    <2>1. CASE UNCHANGED <<queued, tries>>
      BY <2>1 DEF IInv, OneSyncPerItem, Running, Runs
    <2>2. CASE ~Pending(i) /\ queued' = [queued EXCEPT ![i] = @ + 1]
      <3>1. queued[i] = 0 /\ ~Running(i) /\ queued \in [Item -> Nat]
        BY <2>2 DEF Pending, IInv, TypeOK
      <3>2. \A j \in Item : queued'[j] = IF j = i THEN 1 ELSE queued[j]
        BY <2>2, <3>1
      <3> QED
        BY <3>1, <3>2 DEF IInv, OneSyncPerItem, Running, Runs
    <2> QED
      BY <2>1, <2>2 DEF Enqueue
  <1>3. WorkShowsSyncing'
    BY DEF IInv, WorkShowsSyncing
  <1>4. Behind'
    BY DEF IInv, Behind, Current
  <1> QED
    BY <1>1, <1>2, <1>3, <1>4 DEF IInv

\* Starting a job moves it from the queue to a slot.
LEMMA StartInv ==
    ASSUME IInv, NEW w \in Slot, NEW i \in Item, Start(w, i)
    PROVE  IInv'
  <1> DEFINE job == [item |-> i, at |-> "started", cur |-> 0, got |-> 0]
  <1>1. /\ slot \in [Slot -> Job \cup {FreeSlot}] /\ slot[w] = FreeSlot
        /\ queued \in [Item -> Nat] /\ queued[i] = 1 /\ ~Running(i)
        /\ queued' = [queued EXCEPT ![i] = @ - 1]
    BY DEF IInv, TypeOK, OneSyncPerItem, Start
  <1>2. \A j \in Item : queued'[j] = IF j = i THEN 0 ELSE queued[j]
    BY <1>1
  <1>3. job \in Job /\ job.item = i /\ job.at = "started"
    BY DEF Job, Steps
  <1>4. \/ slot' = slot
        \/ slot' = [slot EXCEPT ![w] = job]
    BY DEF Start
  <1> HIDE DEF job
  <1>5. \A v \in Slot : slot'[v] = slot[v] \/ (v = w /\ slot'[v] = job)
    BY <1>1, <1>4
  <1>6. TypeOK'
    <2>1. slot' \in [Slot -> Job \cup {FreeSlot}]
      BY <1>1, <1>3, <1>4
    <2>2. queued' \in [Item -> Nat]
      BY <1>1
    <2>3. tries' \in [Item -> 0..MaxTries] /\ kept' \subseteq Item
      BY ItemSyncAssumption DEF Start, Finished, IInv, TypeOK
    <2> QED
      BY <2>1, <2>2, <2>3 DEF IInv, TypeOK, Start
  <1>7. OneSyncPerItem'
    <2>1. \A v \in Slot, j \in Item : Runs(v, j)' => Runs(v, j) \/ (v = w /\ j = i)
      BY <1>3, <1>5 DEF Runs
    <2> QED
      BY <1>1, <1>2, <2>1 DEF IInv, OneSyncPerItem, Running, Runs
  <1>8. WorkShowsSyncing' /\ Behind'
    BY <1>3, <1>5 DEF IInv, WorkShowsSyncing, Behind, Current, Start
  <1> QED
    BY <1>6, <1>7, <1>8 DEF IInv

\* A job that returns leaves its slot free, and nobody else works on its Item.
LEMMA ReturnInv ==
    ASSUME IInv, NEW w \in Slot, slot[w].at \in Steps,
           NEW shown \in {"idle", "syncing", "error"}, Return(w, shown)
    PROVE  IInv'
  <1>1. slot[w] \in Job /\ slot[w].item \in Item /\ slot \in [Slot -> Job \cup {FreeSlot}]
    BY AtWork DEF IInv, TypeOK
  <1>2. \A v \in Slot : slot'[v] = IF v = w THEN FreeSlot ELSE slot[v]
    BY <1>1 DEF Return
  <1>3. TypeOK'
    BY <1>1 DEF IInv, TypeOK, Return, Finished
  <1>4. OneSyncPerItem'
    <2>1. \A v \in Slot, j \in Item : Runs(v, j)' => Runs(v, j)
      BY <1>2, ItemSyncAssumption DEF Runs, FreeSlot
    <2> QED
      BY <2>1 DEF IInv, OneSyncPerItem, Running, Runs, Return
  <1>5. ASSUME NEW v \in Slot, slot'[v].at \in Steps
        PROVE  v # w /\ slot[v] \in Job /\ slot[v].item # slot[w].item /\ slot'[v] = slot[v]
    <2>1. v # w /\ slot'[v] = slot[v]
      BY <1>2, <1>5 DEF FreeSlot, Steps
    <2> QED
      BY <1>1, <1>5, <2>1, AtWork, OtherSlot DEF IInv
  <1>6. WorkShowsSyncing'
    <2> SUFFICES ASSUME NEW v \in Slot, slot'[v].at \in Steps \ {"started"}
                 PROVE  syncStatus'[slot'[v].item] = "syncing"
      BY DEF WorkShowsSyncing
    <2>1. slot[v].item \in Item /\ slot[v].item # slot[w].item /\ slot'[v] = slot[v]
      BY <1>5, AtWork DEF IInv
    <2>2. syncStatus[slot[v].item] = "syncing"
      BY <2>1 DEF IInv, WorkShowsSyncing
    <2> QED
      BY <1>1, <2>1, <2>2 DEF Return, IInv, TypeOK
  <1>7. Behind'
    BY <1>2 DEF IInv, Behind, Current, Return
  <1> QED
    BY <1>3, <1>4, <1>6, <1>7 DEF IInv

\* A step that takes the job of one slot to its next point, without a word
\* about other slots.
Moves(w, at) ==
    /\ slot'[w] \in Job
    /\ slot'[w].item = slot[w].item
    /\ slot'[w].at = at
    /\ slot' = [slot EXCEPT ![w] = slot'[w]]

\* A step of one job keeps the jobs apart, and the other jobs as they are.
LEMMA MoveOthers ==
    ASSUME IInv, NEW w \in Slot, slot[w].at \in Steps, NEW at \in Steps, Moves(w, at),
           UNCHANGED queued
    PROVE  /\ slot' \in [Slot -> Job \cup {FreeSlot}]
           /\ OneSyncPerItem'
           /\ \A v \in Slot \ {w} : slot'[v] = slot[v]
           /\ \A v \in Slot \ {w} : slot[v] \in Job => slot[v].item # slot[w].item
  <1>1. slot[w] \in Job /\ slot \in [Slot -> Job \cup {FreeSlot}]
    BY AtWork DEF IInv, TypeOK
  <1>2. \A v \in Slot \ {w} : slot'[v] = slot[v]
    BY <1>1 DEF Moves
  <1>3. slot' \in [Slot -> Job \cup {FreeSlot}]
    BY <1>1 DEF Moves
  <1>4. OneSyncPerItem'
    <2>1. \A v \in Slot : slot'[v].item = slot[v].item
      BY <1>2 DEF Moves
    <2> QED
      BY <2>1, SameJobs DEF IInv
  <1> QED
    BY <1>1, <1>2, <1>3, <1>4, OtherSlot DEF IInv

\* A job that has begun keeps its account showing "syncing", and Load begins it.
LEMMA MoveShows ==
    ASSUME IInv, NEW w \in Slot, slot[w].at \in Steps, NEW at \in Steps, Moves(w, at),
           UNCHANGED queued,
           \/ slot[w].at # "started" /\ UNCHANGED syncStatus
           \/ syncStatus' = [syncStatus EXCEPT ![slot[w].item] = "syncing"]
    PROVE  WorkShowsSyncing'
  <1> SUFFICES ASSUME NEW v \in Slot, slot'[v].at \in Steps \ {"started"}
               PROVE  syncStatus'[slot'[v].item] = "syncing"
    BY DEF WorkShowsSyncing
  <1>1. slot[w].item \in Item /\ syncStatus \in [Item -> {"idle", "syncing", "error"}]
    BY AtWork DEF IInv, TypeOK
  <1>2. CASE v = w
    BY <1>1, <1>2 DEF Moves, IInv, WorkShowsSyncing
  <1>3. CASE v # w
    <2>1. slot'[v] = slot[v] /\ slot[v].item # slot[w].item /\ slot[v].item \in Item
      BY <1>3, MoveOthers, AtWork DEF IInv
    <2>2. syncStatus[slot[v].item] = "syncing"
      BY <2>1 DEF IInv, WorkShowsSyncing
    <2> QED
      BY <1>1, <2>1, <2>2
  <1> QED
    BY <1>2, <1>3

\* Each step of a job, with the row it writes (sync_subscriptions_for_item).
LEMMA JobStepInv ==
    ASSUME IInv, NEW w \in Slot, JobStep(w)
    PROVE  IInv'
  <1> DEFINE i == slot[w].item
  <1>0. /\ slot[w].at \in Steps => slot[w] \in Job /\ i \in Item /\ slot[w] # FreeSlot
        /\ slot \in [Slot -> Job \cup {FreeSlot}]
        /\ head \in [Item -> Nat] /\ cursor \in [Item -> Nat] /\ MaxHead \in [Item -> Nat]
        /\ \A j \in Item : head[j] <= MaxHead[j]
        /\ syncStatus \in [Item -> {"idle", "syncing", "error"}]
        /\ status \in [Item -> {"active", "login_required"}]
        /\ slot[w] # FreeSlot => Current(w)
        /\ \A j \in Item : cursor[j] <= head[j]
    BY AtWork, ItemSyncAssumption DEF IInv, TypeOK, Behind
  <1>1. CASE Load(w)
    <2>1. slot[w].at \in Steps
      BY <1>1 DEF Load, Steps
    <2>2. Moves(w, "loaded") /\ slot'[w].cur = cursor[i]
      <3>1. slot[w] \in Job /\ i \in Item /\ cursor[i] \in Nat
        BY <1>0, <2>1
      <3>2. slot' = [slot EXCEPT ![w] = [slot[w] EXCEPT !.at = "loaded", !.cur = cursor[i]]]
        BY <1>0, <1>1 DEF Load
      <3>3. slot'[w] = [slot[w] EXCEPT !.at = "loaded", !.cur = cursor[i]]
        BY <1>0, <3>2
      <3>4. /\ slot'[w] \in Job /\ slot'[w].item = i
            /\ slot'[w].at = "loaded" /\ slot'[w].cur = cursor[i]
        BY <3>1, <3>3 DEF Job, Steps
      <3> QED
        BY <3>2, <3>3, <3>4 DEF Moves
    <2>3. OneSyncPerItem' /\ slot' \in [Slot -> Job \cup {FreeSlot}]
      BY <1>1, <2>1, <2>2, MoveOthers DEF Load, Steps
    <2>4. WorkShowsSyncing'
      BY <1>1, <2>1, <2>2, MoveShows DEF Load, Steps
    <2>5. TypeOK'
      BY <1>0, <1>1, <2>1, <2>3 DEF Load, IInv, TypeOK
    <2>6. Behind'
      BY <1>0, <1>1, <2>1, <2>2, MoveOthers DEF Load, Behind, Current, Moves, IInv, Steps
    <2> QED
      BY <2>3, <2>4, <2>5, <2>6 DEF IInv
  <1>2. CASE Fetch(w)
    <2>1. slot[w].at \in Steps /\ slot[w].at # "started"
      BY <1>2 DEF Fetch, Steps
    <2>2. Moves(w, "fetched") /\ slot'[w].got = head[i]
      <3>1. slot[w] \in Job /\ i \in Item /\ head[i] \in Nat
        BY <1>0, <2>1
      <3>2. slot' = [slot EXCEPT ![w] = [slot[w] EXCEPT !.at = "fetched", !.got = head[i]]]
        BY <1>0, <1>2 DEF Fetch
      <3>3. slot'[w] = [slot[w] EXCEPT !.at = "fetched", !.got = head[i]]
        BY <1>0, <3>2
      <3>4. /\ slot'[w] \in Job /\ slot'[w].item = i
            /\ slot'[w].at = "fetched" /\ slot'[w].got = head[i]
        BY <3>1, <3>3 DEF Job, Steps
      <3> QED
        BY <3>2, <3>3, <3>4 DEF Moves
    <2>3. OneSyncPerItem' /\ slot' \in [Slot -> Job \cup {FreeSlot}]
      BY <1>2, <2>1, <2>2, MoveOthers DEF Fetch, Steps
    <2>4. WorkShowsSyncing'
      BY <1>2, <2>1, <2>2, MoveShows DEF Fetch, Steps
    <2>5. TypeOK'
      BY <1>2, <2>3 DEF Fetch, IInv, TypeOK
    <2>6. Behind'
      BY <1>0, <1>2, <2>1, <2>2, MoveOthers, SMTT(30) DEF Fetch, Behind, Current, Moves, IInv, Steps
    <2> QED
      BY <2>3, <2>4, <2>5, <2>6 DEF IInv
  <1>3. CASE NotReady(w)
    <2>1. slot[w].at \in Steps /\ slot[w].at # "started" /\ cursor[i] = 0
      BY <1>0, <1>3 DEF NotReady, Steps, Current
    <2>2. Moves(w, "fetched") /\ slot'[w].got = 0
      BY <1>0, <1>3, <2>1 DEF NotReady, Moves, Job, Steps
    <2>3. OneSyncPerItem' /\ slot' \in [Slot -> Job \cup {FreeSlot}]
      BY <1>3, <2>1, <2>2, MoveOthers DEF NotReady, Steps
    <2>4. WorkShowsSyncing'
      BY <1>3, <2>1, <2>2, MoveShows DEF NotReady, Steps
    <2>5. TypeOK'
      BY <1>3, <2>3 DEF NotReady, IInv, TypeOK
    <2>6. Behind'
      BY <1>0, <1>3, <2>1, <2>2, MoveOthers DEF NotReady, Behind, Current, Moves, IInv, Steps
    <2> QED
      BY <2>3, <2>4, <2>5, <2>6 DEF IInv
  <1>4. CASE Refused(w)
    <2>1. slot[w].at \in Steps /\ slot[w].at # "started"
      BY <1>4 DEF Refused, Steps
    <2>2. Moves(w, "refused")
      BY <1>0, <1>4, <2>1 DEF Refused, Moves, Job, Steps
    <2>3. OneSyncPerItem' /\ slot' \in [Slot -> Job \cup {FreeSlot}]
      BY <1>4, <2>1, <2>2, MoveOthers DEF Refused, Steps
    <2>4. WorkShowsSyncing'
      BY <1>4, <2>1, <2>2, MoveShows DEF Refused, Steps
    <2>5. TypeOK'
      BY <1>0, <1>4, <2>1, <2>3 DEF Refused, IInv, TypeOK
    <2>6. Behind'
      BY <1>0, <1>4, <2>1, <2>2, MoveOthers DEF Refused, Behind, Current, Moves, IInv, Steps
    <2> QED
      BY <2>3, <2>4, <2>5, <2>6 DEF IInv
  <1>5. CASE Store(w)
    <2>1. slot[w].at \in Steps /\ slot[w].at # "started"
      BY <1>5 DEF Store, Steps
    <2>2. Moves(w, "stored")
      BY <1>0, <1>5, <2>1 DEF Store, Moves, Job, Steps
    <2>3. OneSyncPerItem' /\ slot' \in [Slot -> Job \cup {FreeSlot}]
      BY <1>5, <2>1, <2>2, MoveOthers DEF Store, Steps
    <2>4. WorkShowsSyncing'
      BY <1>5, <2>1, <2>2, MoveShows DEF Store, Steps
    <2>5. \/ cursor' = [cursor EXCEPT ![i] = slot[w].got]
          \/ cursor' = cursor
      BY <1>0, <1>5, <2>1 DEF Store
    <2>6. /\ cursor' \in [Item -> Nat] /\ (\A j \in Item : cursor'[j] <= MaxHead[j])
          /\ \A j \in Item : cursor'[j] <= head[j]
          /\ \A j \in Item \ {i} : cursor'[j] = cursor[j]
      BY <1>0, <1>5, <2>1, <2>5 DEF Store, Current, Job
    <2>7. TypeOK'
      BY <1>0, <1>5, <2>1, <2>3, <2>6 DEF Store, IInv, TypeOK
    <2>8. Behind'
      <3>1. ASSUME NEW v \in Slot, slot'[v] # FreeSlot PROVE Current(v)'
        <4>1. CASE v = w
          BY <2>2, <4>1 DEF Moves, Current
        <4>2. CASE v # w
          <5>1. slot'[v] = slot[v] /\ slot[v] \in Job /\ slot[v].item \in Item \ {i}
            BY <1>5, <2>1, <2>2, <3>1, <4>2, MoveOthers, SlotKinds DEF Store, IInv, Steps
          <5>2. Current(v)
            BY <3>1, <5>1 DEF IInv, Behind
          <5> QED
            BY <1>5, <2>6, <5>1, <5>2 DEF Current, Store
        <4> QED
          BY <4>1, <4>2
      <3> QED
        BY <1>5, <2>6, <3>1 DEF Behind, Store
    <2> QED
      BY <2>3, <2>4, <2>7, <2>8 DEF IInv
  <1>6. CASE Detect(w)
    <2>1. slot[w].at \in Steps /\ slot[w].at # "started"
      BY <1>6 DEF Detect, Steps
    <2>2. Moves(w, "detected")
      BY <1>0, <1>6, <2>1 DEF Detect, Moves, Job, Steps
    <2>3. OneSyncPerItem' /\ slot' \in [Slot -> Job \cup {FreeSlot}]
      BY <1>6, <2>1, <2>2, MoveOthers DEF Detect, Steps
    <2>4. WorkShowsSyncing'
      BY <1>6, <2>1, <2>2, MoveShows DEF Detect, Steps
    <2>5. TypeOK'
      BY <1>6, <2>3 DEF Detect, IInv, TypeOK
    <2>6. Behind'
      BY <1>0, <1>6, <2>1, <2>2, MoveOthers DEF Detect, Behind, Current, Moves, IInv, Steps
    <2> QED
      BY <2>3, <2>4, <2>5, <2>6 DEF IInv
  <1>7. CASE Succeed(w) \/ Fail(w) \/ WriteFails(w) \/ Cut(w)
    <2>1. slot[w].at \in Steps /\ syncStatus[i] \in {"idle", "syncing", "error"}
      BY <1>0, <1>7 DEF Succeed, Fail, WriteFails, Cut, Steps
    <2> QED
      BY <1>7, <2>1, ReturnInv DEF Succeed, Fail, WriteFails, Cut
  <1> QED
    BY <1>1, <1>2, <1>3, <1>4, <1>5, <1>6, <1>7 DEF JobStep

\* The jobs of a dead worker, at most one of each Item, are queued again.
LEMMA WorkerDiesInv ==
    ASSUME IInv, WorkerDies
    PROVE  IInv'
  <1>1. \A i \in Item : /\ ~Running(i) => Cardinality({w \in Slot : Runs(w, i)}) = 0
                        /\ Running(i) => Cardinality({w \in Slot : Runs(w, i)}) = 1
    <2> TAKE i \in Item
    <2>1. CASE ~Running(i)
      <3>1. {w \in Slot : Runs(w, i)} = {}
        BY <2>1 DEF Running
      <3> QED
        BY <2>1, <3>1, FS_EmptySet
    <2>2. CASE Running(i)
      <3>1. PICK v \in Slot : Runs(v, i)
        BY <2>2 DEF Running
      <3>2. {w \in Slot : Runs(w, i)} = {v}
        BY <3>1 DEF IInv, OneSyncPerItem
      <3> QED
        BY <2>2, <3>2, FS_Singleton
    <2> QED
      BY <2>1, <2>2
  <1>2. /\ queued \in [Item -> Nat]
        /\ \A i \in Item : queued'[i] = IF Running(i) THEN 1 ELSE queued[i]
        /\ queued' \in [Item -> Nat]
    <2>1. queued \in [Item -> Nat]
      BY DEF IInv, TypeOK
    <2>2. queued' = [i \in Item |-> queued[i] + Cardinality({w \in Slot : Runs(w, i)})]
      BY DEF WorkerDies
    <2>3. \A i \in Item : /\ Running(i) => queued[i] = 0
                          /\ queued'[i] = IF Running(i) THEN 1 ELSE queued[i]
      BY <1>1, <2>1, <2>2 DEF IInv, OneSyncPerItem
    <2> QED
      BY <2>1, <2>2, <2>3
  <1>3. \A w \in Slot : slot'[w] = FreeSlot /\ \A i \in Item : ~Runs(w, i)'
    BY ItemSyncAssumption DEF WorkerDies, Runs, FreeSlot
  <1>4. TypeOK'
    BY <1>2, ItemSyncAssumption DEF WorkerDies, IInv, TypeOK
  <1>5. OneSyncPerItem'
    BY <1>2, <1>3 DEF IInv, OneSyncPerItem, Running, TypeOK
  <1>6. WorkShowsSyncing' /\ Behind'
    BY <1>3 DEF WorkShowsSyncing, Behind, IInv, WorkerDies, FreeSlot, Steps
  <1> QED
    BY <1>4, <1>5, <1>6 DEF IInv

\* New updates only add to what Plaid holds.
LEMMA UpdateInv ==
    ASSUME IInv, NEW i \in Item, Update(i)
    PROVE  IInv'
  <1>1. /\ head \in [Item -> Nat] /\ MaxHead \in [Item -> Nat] /\ cursor \in [Item -> Nat]
        /\ head' = [head EXCEPT ![i] = @ + 1] /\ head[i] < MaxHead[i]
        /\ \A j \in Item : head[j] <= MaxHead[j]
    BY ItemSyncAssumption DEF IInv, TypeOK, Update
  <1>2. head' \in [Item -> Nat] /\ \A j \in Item : head'[j] >= head[j] /\ head'[j] <= MaxHead[j]
    BY <1>1
  <1>3. TypeOK'
    BY <1>2 DEF Update, IInv, TypeOK
  <1>4. OneSyncPerItem' /\ WorkShowsSyncing'
    BY DEF Update, IInv, OneSyncPerItem, WorkShowsSyncing, Running, Runs
  <1>5. Behind'
    <2>1. \A j \in Item : cursor'[j] <= head'[j]
      BY <1>1, <1>2 DEF IInv, Behind, Update
    <2>2. ASSUME NEW w \in Slot, slot'[w] # FreeSlot PROVE Current(w)'
      <3>1. slot'[w] = slot[w] /\ slot[w] \in Job /\ slot[w].item \in Item /\ Current(w)
        BY <2>2, SlotKinds DEF Update, IInv, Behind
      <3>2. slot[w].got \in Nat
        BY <3>1 DEF Job
      <3> QED
        BY <1>1, <1>2, <3>1, <3>2 DEF Current, Update
    <2> QED
      BY <2>1, <2>2 DEF Behind
  <1> QED
    BY <1>3, <1>4, <1>5 DEF IInv

\* The button marks every account; nothing else of the invariant sees it.
LEMMA ManualMarkInv ==
    ASSUME IInv, ManualMark
    PROVE  IInv'
  <1>1. TypeOK' /\ OneSyncPerItem' /\ Behind'
    BY DEF ManualMark, IInv, TypeOK, OneSyncPerItem, Running, Runs, Behind, Current
  <1>2. WorkShowsSyncing'
    BY AtWork DEF ManualMark, IInv, WorkShowsSyncing
  <1> QED
    BY <1>1, <1>2 DEF IInv

LEMMA StepInv == IInv /\ [Next]_vars => IInv'
  <1> SUFFICES ASSUME IInv, [Next]_vars PROVE IInv'
    OBVIOUS
  <1>1. ASSUME NEW i \in Item, Update(i) PROVE IInv'
    BY <1>1, UpdateInv
  <1>2. ASSUME NEW i \in Item, WebhookAcked(i) PROVE IInv'
    BY <1>2, EnqueueInv DEF WebhookAcked, IInv, TypeOK
  <1>3. ASSUME NEW i \in Item, ManualEnqueue(i) PROVE IInv'
    BY <1>3, EnqueueInv DEF ManualEnqueue, IInv, TypeOK
  <1>4. ASSUME NEW i \in Item, Expire(i) PROVE IInv'
    BY <1>4 DEF Expire, IInv, TypeOK, OneSyncPerItem, Running, Runs, WorkShowsSyncing, Behind,
       Current
  <1>5. ASSUME NEW i \in Item, NEW w \in Slot, Start(w, i) PROVE IInv'
    BY <1>5, StartInv
  <1>6. CASE ManualMark
    BY <1>6, ManualMarkInv
  <1>7. CASE ManualFails
    BY <1>7 DEF ManualFails, IInv, TypeOK, OneSyncPerItem, Running, Runs, WorkShowsSyncing,
       Behind, Current
  <1>8. CASE WorkerDies
    BY <1>8, WorkerDiesInv
  <1>9. ASSUME NEW w \in Slot, JobStep(w) PROVE IInv'
    BY <1>9, JobStepInv
  <1>10. CASE UNCHANGED vars
    BY <1>10 DEF vars, IInv, TypeOK, OneSyncPerItem, Running, Runs, WorkShowsSyncing, Behind,
       Current
  <1> QED
    BY <1>1, <1>2, <1>3, <1>4, <1>5, <1>6, <1>7, <1>8, <1>9, <1>10 DEF Next

---------------------------------------------------------------------------
(* Theorems *)

\* The invariant holds throughout.
THEOREM IInvInvariant == Spec => []IInv
  BY InitInv, StepInv, PTL DEF Spec

\* Types and ranges, among them that no job is started more than max_tries times.
THEOREM TypeCorrect == Spec => []TypeOK
  <1>1. IInv => TypeOK
    BY DEF IInv
  <1> QED
    BY <1>1, IInvInvariant, PTL

\* Never two jobs of one Item queued or at work, however many slots, triggers,
\* retries and deaths (enqueue_item_sync).
THEOREM SyncsSerialized == Spec => []OneSyncPerItem
  <1>1. IInv => OneSyncPerItem
    BY DEF IInv
  <1> QED
    BY <1>1, IInvInvariant, PTL

\* A job at work shows as "syncing" (sync_subscriptions_for_item).
THEOREM WorkIsShown == Spec => []WorkShowsSyncing
  <1>1. IInv => WorkShowsSyncing
    BY DEF IInv
  <1> QED
    BY <1>1, IInvInvariant, PTL

\* The stored cursor never moves back (sync_account_transactions).
THEOREM CursorNeverBack == Spec => CursorAdvances
  <1>1. IInv /\ [Next]_vars => [\A i \in Item : cursor'[i] >= cursor[i]]_vars
    <2> SUFFICES ASSUME IInv, [Next]_vars PROVE \A i \in Item : cursor'[i] >= cursor[i]
      OBVIOUS
    <2>1. cursor \in [Item -> Nat]
      BY ItemSyncAssumption DEF IInv, TypeOK
    <2>2. ASSUME NEW w \in Slot, Store(w) PROVE \A i \in Item : cursor'[i] >= cursor[i]
      <3>1. slot[w] \in Job /\ slot[w].item \in Item /\ slot[w] # FreeSlot
        BY <2>2, AtWork DEF Store, Steps, IInv
      <3>2. cursor[slot[w].item] <= slot[w].got /\ slot[w].got \in Nat
        BY <2>2, <3>1 DEF Store, IInv, Behind, Current, Job
      <3> QED
        BY <2>1, <2>2, <3>1, <3>2 DEF Store
    <2>3. CASE cursor' = cursor
      BY <2>1, <2>3
    <2> QED
      BY <2>2, <2>3 DEF Next, vars, JobStep, Update, WebhookAcked, ManualEnqueue, Expire, Start,
         ManualMark, ManualFails, WorkerDies, Load, Fetch, NotReady, Refused, Detect, Succeed,
         Fail, WriteFails, Cut, Return
  <1> QED
    BY <1>1, IInvInvariant, PTL DEF Spec, CursorAdvances
==========================================================================
