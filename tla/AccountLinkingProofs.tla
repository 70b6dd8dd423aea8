----------------------- MODULE AccountLinkingProofs -----------------------
(***************************************************************************)
(* AccountLinking for any number of banks, merchants and overlapping       *)
(* requests: types and foreign keys, an unlink that never forgets a live   *)
(* Item, removed subscriptions that stay removed, what an unlink of the    *)
(* last bank leaves and what a deletion leaves behind.                     *)
(***************************************************************************)
EXTENDS AccountLinking, FiniteSetTheorems, TLAPS

---------------------------------------------------------------------------
(* The inductive invariant *)

\* A request past the call to Plaid has removed its Item, and no Item comes back.
RevokedFirst ==
    \A q \in Request :
        /\ unlink[q].pc # "idle" => unlink[q].acc \in Account
        /\ unlink[q].pc \in {"revoked", "counted", "scanned"} => item[unlink[q].acc] = "removed"

\* The user's own removal shows in is_active.
RemovedInactive == \A m \in Merchant : sub[m].byUser => sub[m].is = "inactive"

IInv == TypeOK /\ RevokedFirst /\ RemovedInactive

---------------------------------------------------------------------------
(* The steps of a job *)

\* What a job writes is a row, refers to the job's bank or to the one before,
\* and does not bring back what the user removed.
LEMMA UpsertedRow ==
    ASSUME TypeOK, RemovedInactive, NEW a \in Account, NEW m \in Merchant
    PROVE  /\ Upserted(a, m) \in Sub
           /\ Upserted(a, m).bank \in {a, sub[m].bank}
           /\ sub[m].byUser => Upserted(a, m).is = "inactive"
           /\ Upserted(a, m).byUser => sub[m].byUser
  <1> DEFINE p == IF job[a].plan[m] = "insert" /\ sub[m].is # "absent" THEN Planned(m)
                  ELSE job[a].plan[m]
  <1>1. sub[m] \in Sub /\ (sub[m].byUser => sub[m].is = "inactive")
    BY DEF TypeOK, RemovedInactive
  <1>2. p = "insert" => sub[m].is = "absent"
    BY DEF Planned
  <1>3. CASE p = "insert"
    <2>1. Upserted(a, m) = [Absent EXCEPT !.is = "active", !.bank = a]
      BY <1>3 DEF Upserted
    <2>2. Upserted(a, m) \in Sub /\ Upserted(a, m).bank = a /\ ~Upserted(a, m).byUser
      BY <2>1 DEF Sub, Absent
    <2> QED
      BY <1>1, <1>2, <1>3, <2>2
  <1>4. CASE p = "backfill"
    <2>1. Upserted(a, m) = [sub[m] EXCEPT !.bank = a]
      BY <1>4 DEF Upserted
    <2> QED
      BY <1>1, <2>1 DEF Sub
  <1>5. CASE p \notin {"insert", "backfill"}
    <2>1. Upserted(a, m) = sub[m]
      BY <1>5 DEF Upserted
    <2> QED
      BY <1>1, <2>1
  <1> QED
    BY <1>3, <1>4, <1>5

---------------------------------------------------------------------------
(* Steps *)

LEMMA InitInv == Init => IInv
  <1> SUFFICES ASSUME Init PROVE IInv
    OBVIOUS
  <1>1. /\ \A m \in Merchant : sub[m] \in Sub /\ sub[m].bank = NoAccount /\ ~sub[m].byUser
        /\ sub \in [Merchant -> Sub]
    <2>1. Absent \in Sub /\ Absent.bank = NoAccount /\ ~Absent.byUser
      BY DEF Absent, Sub
    <2>2. Legacy \in Sub /\ Legacy.bank = NoAccount /\ ~Legacy.byUser
      BY DEF Legacy, Absent, Sub
    <2>3. sub \in [Merchant -> {Absent, Legacy}]
      BY DEF Init
    <2> QED
      BY <2>1, <2>2, <2>3
  <1>2. NoUnlink \in Unlink /\ NoUnlink.pc = "idle"
    BY DEF NoUnlink, Unlink
  <1>3. NoJob \in Job /\ NoDelete \in Delete
    BY DEF NoJob, Job, Plan, NoDelete, Delete
  <1>4. item \in [Account -> {"none", "live", "removed"}]
    BY DEF Init
  <1>5. TypeOK
    BY <1>1, <1>2, <1>3, <1>4, LinkingAssumption DEF Init, TypeOK
  <1>6. RevokedFirst /\ RemovedInactive
    BY <1>1, <1>2 DEF Init, RevokedFirst, RemovedInactive
  <1> QED
    BY <1>5, <1>6 DEF IInv

\* Two states of an unlink that differ at most in whether it is alone.
Like(u, v) == u.pc = v.pc /\ u.acc = v.acc

\* A request that begins next to others leaves them as they are, but not alone.
LEMMA OverlapKeeps ==
    ASSUME unlink \in [Request -> Unlink], Overlap
    PROVE  /\ unlink' \in [Request -> Unlink]
           /\ \A q \in Request :
                 /\ unlink'[q].pc = unlink[q].pc /\ unlink'[q].acc = unlink[q].acc
                 /\ ~unlink'[q].alone
  BY DEF Overlap, Unlink

\* Linking a bank.
LEMMA ExchangeInv ==
    ASSUME IInv, NEW a \in Account, ExchangeToken(a) \/ ExchangeCommit(a) \/ ExchangeFails(a)
    PROVE  IInv'
  <1>1. CASE ExchangeToken(a)
    <2>1. /\ unlink' \in [Request -> Unlink]
          /\ \A q \in Request : unlink'[q].pc = unlink[q].pc /\ unlink'[q].acc = unlink[q].acc
      BY <1>1, OverlapKeeps DEF IInv, TypeOK, ExchangeToken
    <2>2. TypeOK'
      BY <1>1, <2>1 DEF IInv, TypeOK, ExchangeToken
    <2>3. RevokedFirst' /\ RemovedInactive'
      BY <1>1, <2>1 DEF IInv, TypeOK, RevokedFirst, RemovedInactive, ExchangeToken
    <2> QED
      BY <2>2, <2>3 DEF IInv
  <1>2. CASE ExchangeCommit(a)
    <2>1. row \subseteq row' /\ row' \subseteq Account
      BY <1>2 DEF IInv, TypeOK, ExchangeCommit
    <2>2. TypeOK'
      BY <1>2, <2>1 DEF IInv, TypeOK, ExchangeCommit
    <2>3. RevokedFirst' /\ RemovedInactive'
      BY <1>2 DEF IInv, RevokedFirst, RemovedInactive, ExchangeCommit
    <2> QED
      BY <2>2, <2>3 DEF IInv
  <1>3. CASE ExchangeFails(a)
    <2>1. TypeOK'
      BY <1>3, LinkingAssumption DEF IInv, TypeOK, ExchangeFails, Fault
    <2>2. RevokedFirst' /\ RemovedInactive'
      BY <1>3 DEF IInv, RevokedFirst, RemovedInactive, ExchangeFails
    <2> QED
      BY <2>1, <2>2 DEF IInv
  <1> QED
    BY <1>1, <1>2, <1>3

\* An unlink up to its commit touches no row but at Plaid.
LEMMA UnlinkStepsInv ==
    ASSUME IInv, NEW q \in Request,
           \/ \E a \in Account : UnlinkLoad(q, a)
           \/ Revoke(q) \/ RevokeRefused(q) \/ Count(q) \/ Scan(q) \/ UnlinkEnds(q)
    PROVE  IInv'
  <1>0. /\ unlink \in [Request -> Unlink] /\ unlink[q] \in Unlink
        /\ NoUnlink \in Unlink /\ NoUnlink.pc = "idle"
        /\ unlink[q].pc # "idle" => unlink[q].acc \in Account
    BY DEF IInv, TypeOK, RevokedFirst, NoUnlink, Unlink
  <1>1. faults' \in 0..MaxFaults
    <2>1. faults' = faults \/ (faults < MaxFaults /\ faults' = faults + 1)
      BY DEF Fault, UnlinkLoad, Revoke, RevokeRefused, Count, Scan, UnlinkEnds
    <2> QED
      BY <2>1, LinkingAssumption DEF IInv, TypeOK
  <1>2. /\ item' \in [Account -> {"none", "live", "removed"}]
        /\ \A a \in Account : item[a] = "removed" => item'[a] = "removed"
    <2>1. CASE Revoke(q)
      BY <2>1 DEF IInv, TypeOK, Revoke
    <2>2. CASE item' = item
      BY <2>2 DEF IInv, TypeOK
    <2> QED
      BY <2>1, <2>2 DEF UnlinkLoad, RevokeRefused, Count, Scan, UnlinkEnds
  <1>3. /\ unlink' \in [Request -> Unlink]
        /\ \A o \in Request \ {q} : Like(unlink'[o], unlink[o])
        /\ unlink'[q].pc # "idle" => unlink'[q].acc \in Account
        /\ unlink'[q].pc \in {"revoked", "counted", "scanned"} =>
              item'[unlink'[q].acc] = "removed"
    <2>1. ASSUME NEW a \in Account, UnlinkLoad(q, a)
          PROVE  /\ unlink' \in [Request -> Unlink]
                 /\ unlink'[q].acc = a /\ unlink'[q].pc = "loaded"
                 /\ \A o \in Request \ {q} : Like(unlink'[o], unlink[o])
      <3>1. Quiet \in BOOLEAN
        BY DEF Quiet
      <3>2. [NoUnlink EXCEPT !.pc = "loaded", !.acc = a, !.alone = Quiet] \in Unlink
        BY <3>1 DEF NoUnlink, Unlink
      <3>3. \A o \in Request : [unlink[o] EXCEPT !.alone = FALSE] \in Unlink
        BY <1>0 DEF Unlink
      <3>4. unlink' \in [Request -> Unlink]
        BY <2>1, <3>2, <3>3 DEF UnlinkLoad
      <3>5. unlink'[q] = [NoUnlink EXCEPT !.pc = "loaded", !.acc = a, !.alone = Quiet]
        BY <2>1 DEF UnlinkLoad
      <3>6. \A o \in Request \ {q} : unlink'[o] = [unlink[o] EXCEPT !.alone = FALSE]
        BY <2>1 DEF UnlinkLoad
      <3> QED
        BY <1>0, <3>4, <3>5, <3>6 DEF Like, NoUnlink, Unlink
    <2>2. CASE Revoke(q)
      <3>1. /\ unlink' = [unlink EXCEPT ![q] = unlink'[q]]
            /\ unlink'[q] \in Unlink /\ unlink'[q].acc = unlink[q].acc
        BY <1>0, <2>2 DEF Revoke, Unlink
      <3>2. unlink[q].acc \in Account /\ item'[unlink[q].acc] = "removed"
        BY <1>0, <2>2 DEF Revoke, IInv, TypeOK
      <3> QED
        BY <1>0, <3>1, <3>2 DEF Like
    <2>3. CASE Count(q)
      <3>1. /\ unlink' = [unlink EXCEPT ![q] = unlink'[q]]
            /\ unlink'[q] \in Unlink /\ unlink'[q].acc = unlink[q].acc
        BY <1>0, <2>3 DEF Count, Unlink
      <3>2. unlink[q].acc \in Account /\ item'[unlink[q].acc] = "removed"
        BY <1>0, <2>3 DEF Count, IInv, RevokedFirst
      <3> QED
        BY <1>0, <3>1, <3>2 DEF Like
    <2>4. CASE Scan(q)
      <3>0. {m \in Merchant : /\ sub[m].is = "active"
                              /\ \/ sub[m].bank = unlink[q].acc
                                 \/ unlink[q].last /\ sub[m].bank = NoAccount} \in SUBSET Merchant
        OBVIOUS
      <3>1. /\ unlink' = [unlink EXCEPT ![q] = unlink'[q]]
            /\ unlink'[q] \in Unlink /\ unlink'[q].acc = unlink[q].acc
        BY <1>0, <2>4, <3>0 DEF Scan, Unlink
      <3>2. unlink[q].acc \in Account /\ item'[unlink[q].acc] = "removed"
        BY <1>0, <2>4 DEF Scan, IInv, RevokedFirst
      <3> QED
        BY <1>0, <3>1, <3>2 DEF Like
    <2>5. CASE RevokeRefused(q) \/ UnlinkEnds(q)
      <3>1. unlink' = [unlink EXCEPT ![q] = NoUnlink]
        BY <2>5 DEF RevokeRefused, UnlinkEnds
      <3> QED
        BY <1>0, <3>1 DEF Like
    <2> QED
      BY <2>1, <2>2, <2>3, <2>4, <2>5 DEF Like
  <1>4. UNCHANGED <<row, sub, present, exchange, delete, job>>
    BY DEF UnlinkLoad, Revoke, RevokeRefused, Count, Scan, UnlinkEnds
  <1>5. TypeOK'
    BY <1>1, <1>2, <1>3, <1>4 DEF IInv, TypeOK
  <1>6. RevokedFirst'
    BY <1>2, <1>3 DEF IInv, RevokedFirst, Like
  <1>7. RemovedInactive'
    BY <1>4 DEF IInv, RemovedInactive
  <1> QED
    BY <1>5, <1>6, <1>7 DEF IInv

\* The commit of an unlink.
LEMMA UnlinkCommitInv ==
    ASSUME IInv, NEW q \in Request, UnlinkCommit(q)
    PROVE  IInv'
  <1> DEFINE u == unlink[q]
             after(m) == [sub[m] EXCEPT !.is = IF m \in u.subs THEN "inactive" ELSE @,
                                        !.bank = IF @ = u.acc THEN NoAccount ELSE @]
  <1>1. /\ sub' = [m \in Merchant |-> after(m)] /\ row' = row \ {u.acc}
        /\ unlink' = [unlink EXCEPT ![q] = NoUnlink]
    BY DEF UnlinkCommit
  <1>2. ASSUME NEW m \in Merchant
        PROVE  /\ after(m) \in Sub
               /\ after(m).bank \in (row \ {u.acc}) \cup {NoAccount}
               /\ after(m).byUser => after(m).is = "inactive"
    <2>1. /\ sub[m] \in Sub /\ sub[m].bank \in row \cup {NoAccount}
          /\ sub[m].byUser => sub[m].is = "inactive"
      BY DEF IInv, TypeOK, RemovedInactive
    <2> QED
      BY <2>1 DEF Sub
  <1>3. \A m \in Merchant : sub'[m] = after(m)
    BY <1>1
  <1> HIDE DEF after, u
  <1>4. NoUnlink \in Unlink /\ NoUnlink.pc = "idle"
    BY DEF NoUnlink, Unlink
  <1>5. unlink' \in [Request -> Unlink] /\ sub' \in [Merchant -> Sub]
    BY <1>1, <1>2, <1>4 DEF IInv, TypeOK
  <1>6. TypeOK'
    BY <1>1, <1>2, <1>3, <1>5 DEF IInv, TypeOK, UnlinkCommit
  <1>7. RevokedFirst'
    BY <1>1, <1>4 DEF IInv, TypeOK, RevokedFirst, UnlinkCommit
  <1>8. RemovedInactive'
    BY <1>2, <1>3 DEF RemovedInactive
  <1> QED
    BY <1>6, <1>7, <1>8 DEF IInv

\* Deleting the account.
LEMMA DeleteInv ==
    ASSUME IInv, DeleteList \/ (\E a \in Account : DeleteRevoke(a)) \/ DeleteFails \/ DeleteCommit
    PROVE  IInv'
  <1>0. Absent \in Sub /\ Absent.bank = NoAccount /\ ~Absent.byUser /\ NoDelete \in Delete
    BY DEF Absent, Sub, NoDelete, Delete
  <1>1. CASE DeleteList \/ DeleteFails
    <2>1. delete' \in Delete /\ faults' \in 0..MaxFaults
      BY <1>0, <1>1, LinkingAssumption DEF IInv, TypeOK, DeleteList, DeleteFails, Fault, Delete
    <2>2. UNCHANGED <<item, row, sub, present, exchange, job>>
      BY <1>1 DEF DeleteList, DeleteFails
    <2>3. /\ unlink' \in [Request -> Unlink]
          /\ \A q \in Request : unlink'[q].pc = unlink[q].pc /\ unlink'[q].acc = unlink[q].acc
      BY <1>1, OverlapKeeps DEF IInv, TypeOK, DeleteList, DeleteFails
    <2> QED
      BY <2>1, <2>2, <2>3 DEF IInv, TypeOK, RevokedFirst, RemovedInactive
  <1>2. ASSUME NEW a \in Account, DeleteRevoke(a) PROVE IInv'
    <2>1. delete' \in Delete
      BY <1>2 DEF IInv, TypeOK, DeleteRevoke, Delete
    <2>2. TypeOK' /\ \A b \in Account : item[b] = "removed" => item'[b] = "removed"
      BY <1>2, <2>1 DEF IInv, TypeOK, DeleteRevoke
    <2> QED
      BY <1>2, <2>2 DEF IInv, RevokedFirst, RemovedInactive, DeleteRevoke
  <1>3. CASE DeleteCommit
    <2>1. sub' = [m \in Merchant |-> Absent]
      BY <1>3 DEF DeleteCommit
    <2>2. TypeOK'
      BY <1>0, <1>3, <2>1 DEF IInv, TypeOK, DeleteCommit
    <2> QED
      BY <1>0, <1>3, <2>1, <2>2 DEF IInv, RevokedFirst, RemovedInactive, DeleteCommit
  <1> QED
    BY <1>1, <1>2, <1>3

\* The user's removal of a subscription.
LEMMA RemoveInv ==
    ASSUME IInv, NEW m \in Merchant, RemoveSubscription(m)
    PROVE  IInv'
  <1>1. sub' = [sub EXCEPT ![m] = [sub[m] EXCEPT !.is = "inactive", !.byUser = TRUE]]
    BY DEF RemoveSubscription, IInv, TypeOK
  <1>2. sub[m] \in Sub /\ sub[m].bank \in row \cup {NoAccount} /\ sub \in [Merchant -> Sub]
    BY DEF IInv, TypeOK
  <1>3. /\ sub'[m] \in Sub /\ sub'[m].bank = sub[m].bank /\ sub'[m].is = "inactive"
        /\ \A n \in Merchant \ {m} : sub'[n] = sub[n]
        /\ sub' \in [Merchant -> Sub]
    BY <1>1, <1>2 DEF Sub
  <1>4. TypeOK' /\ RemovedInactive'
    BY <1>2, <1>3 DEF IInv, TypeOK, RemovedInactive, RemoveSubscription
  <1> QED
    BY <1>4 DEF IInv, RevokedFirst, RemoveSubscription

\* The job of an account.
LEMMA JobInv ==
    ASSUME IInv, NEW a \in Account,
           \/ JobLoad(a) \/ JobCommit(a) \/ JobFails(a)
           \/ \E detected \in SUBSET Merchant : JobPlan(a, detected)
    PROVE  IInv'
  <1>0. job \in [Account -> Job] /\ job[a] \in Job /\ NoJob \in Job
    BY DEF IInv, TypeOK, NoJob, Job, Plan
  <1>1. CASE JobLoad(a)
    <2>1. job' \in [Account -> Job]
      BY <1>0, <1>1 DEF JobLoad, Job
    <2>2. /\ unlink' \in [Request -> Unlink]
          /\ \A q \in Request : unlink'[q].pc = unlink[q].pc /\ unlink'[q].acc = unlink[q].acc
      BY <1>1, OverlapKeeps DEF IInv, TypeOK, JobLoad
    <2> QED
      BY <1>1, <2>1, <2>2 DEF JobLoad, IInv, TypeOK, RevokedFirst, RemovedInactive
  <1>2. ASSUME NEW detected \in SUBSET Merchant, JobPlan(a, detected) PROVE IInv'
    <2>1. \A m \in Merchant : Planned(m) \in {"none", "insert", "backfill", "update"}
      BY DEF Planned
    <2>2. [m \in Merchant |-> IF m \in detected THEN Planned(m) ELSE "none"] \in Plan
      BY <2>1 DEF Plan
    <2>3. job' \in [Account -> Job]
      BY <1>0, <1>2, <2>2 DEF JobPlan, Job
    <2> QED
      BY <1>2, <2>3 DEF JobPlan, IInv, TypeOK, RevokedFirst, RemovedInactive
  <1>3. CASE JobFails(a)
    <2>1. job' \in [Account -> Job] /\ faults' \in 0..MaxFaults
      BY <1>0, <1>3, LinkingAssumption DEF JobFails, IInv, TypeOK, Fault
    <2> QED
      BY <1>3, <2>1 DEF JobFails, IInv, TypeOK, RevokedFirst, RemovedInactive
  <1>4. CASE JobCommit(a)
    <2>1. job' \in [Account -> Job] /\ a \in row
      BY <1>0, <1>4 DEF JobCommit
    <2>2. \A m \in Merchant : /\ sub'[m] \in Sub
                              /\ sub'[m].bank \in row \cup {NoAccount}
                              /\ sub'[m].byUser => sub'[m].is = "inactive"
      BY <1>4, <2>1, UpsertedRow DEF JobCommit, IInv, TypeOK
    <2>3. sub' \in [Merchant -> Sub]
      BY <1>4, UpsertedRow DEF JobCommit, IInv
    <2>4. TypeOK' /\ RemovedInactive'
      BY <1>4, <2>1, <2>2, <2>3 DEF JobCommit, IInv, TypeOK, RemovedInactive
    <2> QED
      BY <1>4, <2>4 DEF JobCommit, IInv, RevokedFirst
  <1> QED
    BY <1>1, <1>2, <1>3, <1>4

LEMMA StepInv == IInv /\ [Next]_vars => IInv'
  <1> SUFFICES ASSUME IInv, [Next]_vars PROVE IInv'
    OBVIOUS
  <1>1. ASSUME NEW a \in Account, ExchangeToken(a) \/ ExchangeCommit(a) \/ ExchangeFails(a)
        PROVE  IInv'
    BY <1>1, ExchangeInv
  <1>2. CASE DeleteList \/ (\E a \in Account : DeleteRevoke(a)) \/ DeleteFails \/ DeleteCommit
    BY <1>2, DeleteInv
  <1>3. ASSUME NEW a \in Account,
               \/ JobLoad(a) \/ JobCommit(a) \/ JobFails(a)
               \/ \E detected \in SUBSET Merchant : JobPlan(a, detected)
        PROVE  IInv'
    BY <1>3, JobInv
  <1>4. ASSUME NEW q \in Request, UnlinkGoes(q) \/ \E a \in Account : UnlinkLoad(q, a)
        PROVE  IInv'
    BY <1>4, UnlinkStepsInv, UnlinkCommitInv DEF UnlinkGoes
  <1>5. ASSUME NEW m \in Merchant, RemoveSubscription(m) PROVE IInv'
    BY <1>5, RemoveInv
  <1>6. CASE UNCHANGED vars
    BY <1>6 DEF vars, IInv, TypeOK, RevokedFirst, RemovedInactive
  <1> QED
    BY <1>1, <1>2, <1>3, <1>4, <1>5, <1>6 DEF Next

---------------------------------------------------------------------------
(* An unlink that is alone *)

\* What holds while unlink q is alone: nothing else is under way, and an unlink of
\* the last bank knows that it is, and has found every subscription still active.
Finds(q) ==
    /\ unlink[q].acc \in row
    /\ unlink[q].pc \in {"counted", "scanned"} /\ row = {unlink[q].acc} => unlink[q].last
    /\ unlink[q].pc = "scanned" /\ row = {unlink[q].acc} =>
          \A m \in Merchant : sub[m].is = "active" => m \in unlink[q].subs

Alone(q) ==
    /\ unlink[q].pc # "idle"
    /\ \A o \in Request \ {q} : unlink[o] = NoUnlink
    /\ \A a \in Account : exchange[a] # "pending"
    /\ delete = NoDelete
    /\ \A a \in Account : job[a] = NoJob

Undisturbed == \A q \in Request : unlink[q].alone => Alone(q) /\ Finds(q)

LEMMA NothingUnderWay ==
    /\ NoUnlink.pc = "idle" /\ NoDelete.pc = "idle" /\ NoJob.pc = "idle"
    /\ ~NoUnlink.alone /\ NoDelete.todo = {} /\ NoDelete.known = {}
  BY DEF NoUnlink, NoDelete, NoJob

LEMMA InitUndisturbed == Init => Undisturbed
  BY NothingUnderWay DEF Init, Undisturbed

\* A request or job that begins leaves no unlink alone, but an unlink that begins
\* when all is quiet.
LEMMA BeginUndisturbed ==
    ASSUME IInv, Undisturbed,
           \/ DeleteList
           \/ \E a \in Account : \/ ExchangeToken(a) \/ JobLoad(a)
                               \/ \E q \in Request : UnlinkLoad(q, a)
    PROVE  Undisturbed'
  <1>0. unlink \in [Request -> Unlink]
    BY DEF IInv, TypeOK
  <1>1. CASE Overlap
    BY <1>0, <1>1, OverlapKeeps DEF Undisturbed
  <1>2. ASSUME NEW a \in Account, NEW q \in Request, UnlinkLoad(q, a) PROVE Undisturbed'
    <2>1. unlink'[q] = [NoUnlink EXCEPT !.pc = "loaded", !.acc = a, !.alone = Quiet]
      BY <1>2 DEF UnlinkLoad
    <2>2. /\ unlink'[q].pc = "loaded" /\ unlink'[q].acc = a /\ a \in row
          /\ unlink'[q].alone = Quiet
      BY <1>2, <2>1 DEF UnlinkLoad, NoUnlink
    <2>3. \A o \in Request \ {q} : unlink'[o] = [unlink[o] EXCEPT !.alone = FALSE]
      BY <1>2 DEF UnlinkLoad
    <2>4. \A o \in Request \ {q} : ~unlink'[o].alone
      BY <1>0, <2>3 DEF Unlink
    <2>5. [NoUnlink EXCEPT !.alone = FALSE] = NoUnlink
      <3>1. \A u \in Unlink : ~u.alone => [u EXCEPT !.alone = FALSE] = u
        BY DEF Unlink
      <3>2. NoUnlink \in Unlink
        BY DEF NoUnlink, Unlink
      <3> QED
        BY <3>1, <3>2, NothingUnderWay
    <2>6. Quiet => \A o \in Request \ {q} : unlink'[o] = NoUnlink
      BY <2>3, <2>5 DEF Quiet
    <2>7. UNCHANGED <<item, row, sub, present, exchange, delete, job>>
      BY <1>2 DEF UnlinkLoad
    <2>8. Quiet => Alone(q)' /\ Finds(q)'
      BY <2>2, <2>6, <2>7 DEF Quiet, Alone, Finds
    <2> QED
      BY <2>2, <2>4, <2>8 DEF Undisturbed
  <1> QED
    BY <1>1, <1>2 DEF DeleteList, ExchangeToken, JobLoad

\* What goes on beside an unlink is not beside one that is alone.
LEMMA OthersUndisturbed ==
    ASSUME IInv, Undisturbed,
           \/ \E a \in Account : \/ ExchangeCommit(a) \/ ExchangeFails(a) \/ DeleteRevoke(a)
                               \/ JobCommit(a) \/ JobFails(a)
                               \/ \E detected \in SUBSET Merchant : JobPlan(a, detected)
           \/ DeleteFails \/ DeleteCommit
    PROVE  Undisturbed'
  <1>1. UNCHANGED unlink
    BY DEF ExchangeCommit, ExchangeFails, DeleteRevoke, JobCommit, JobFails, JobPlan,
           DeleteFails, DeleteCommit
  <1>2. \/ \E a \in Account : exchange[a] = "pending"
        \/ delete # NoDelete
        \/ \E a \in Account : job[a] # NoJob
    BY NothingUnderWay DEF ExchangeCommit, ExchangeFails, DeleteRevoke, JobCommit, JobFails,
       JobPlan, DeleteFails, DeleteCommit
  <1>3. \A q \in Request : ~unlink[q].alone
    BY <1>2 DEF Undisturbed, Alone
  <1> QED
    BY <1>1, <1>3 DEF Undisturbed

\* The user removes a subscription: one active row less.
LEMMA RemoveUndisturbed ==
    ASSUME IInv, Undisturbed, NEW m \in Merchant, RemoveSubscription(m)
    PROVE  Undisturbed'
  <1>1. UNCHANGED <<row, exchange, unlink, delete, job>>
    BY DEF RemoveSubscription
  <1>2. \A n \in Merchant : sub'[n].is = "active" => sub[n].is = "active"
    BY DEF RemoveSubscription, IInv, TypeOK, Sub
  <1> QED
    BY <1>1, <1>2 DEF Undisturbed, Alone, Finds

\* The steps of an unlink: if it is alone, nothing changes the rows or makes a
\* subscription active between its reads.
LEMMA UnlinkUndisturbed ==
    ASSUME IInv, Undisturbed, NEW q \in Request, UnlinkGoes(q)
    PROVE  Undisturbed'
  <1>0. unlink \in [Request -> Unlink] /\ unlink[q] \in Unlink
    BY DEF IInv, TypeOK
  <1>1. UNCHANGED <<exchange, delete, job>>
    BY DEF UnlinkGoes, Revoke, RevokeRefused, Count, Scan, UnlinkCommit, UnlinkEnds
  <1>2. unlink' = [unlink EXCEPT ![q] = unlink'[q]]
    BY <1>0 DEF UnlinkGoes, Revoke, RevokeRefused, Count, Scan, UnlinkCommit, UnlinkEnds
  <1>3. \A o \in Request \ {q} : unlink'[o] = unlink[o]
    BY <1>0, <1>2
  <1>4. unlink[q].pc # "idle"
    BY DEF UnlinkGoes, Revoke, RevokeRefused, Count, Scan, UnlinkCommit, UnlinkEnds
  <1>5. \A o \in Request \ {q} : ~unlink'[o].alone
    BY <1>3, <1>4, NothingUnderWay DEF Undisturbed, Alone
  <1>6. SUFFICES ASSUME unlink'[q].alone PROVE Alone(q)' /\ Finds(q)'
    BY <1>5 DEF Undisturbed
  <1>7. CASE RevokeRefused(q) \/ UnlinkEnds(q) \/ UnlinkCommit(q)
    BY <1>0, <1>6, <1>7, NothingUnderWay DEF RevokeRefused, UnlinkEnds, UnlinkCommit
  <1>8. CASE Revoke(q)
    <2>1. /\ unlink'[q].pc = "revoked" /\ unlink'[q].acc = unlink[q].acc
          /\ unlink'[q].alone = unlink[q].alone
      BY <1>0, <1>8 DEF Revoke, Unlink
    <2> QED
      BY <1>1, <1>3, <1>6, <1>8, <2>1 DEF Undisturbed, Alone, Finds, Revoke
  <1>9. CASE Count(q)
    <2>1. /\ unlink'[q].pc = "counted" /\ unlink'[q].acc = unlink[q].acc
          /\ unlink'[q].alone = unlink[q].alone
      BY <1>0, <1>9 DEF Count, Unlink
    <2>2. row = {unlink[q].acc} => unlink'[q].last
      <3>1. unlink'[q] = [unlink[q] EXCEPT !.pc = "counted", !.last = (Cardinality(row) = 1)]
        BY <1>0, <1>9 DEF Count
      <3>2. unlink'[q].last = (Cardinality(row) = 1)
        BY <1>0, <3>1 DEF Unlink
      <3>3. row = {unlink[q].acc} => Cardinality(row) = 1
        BY FS_Singleton
      <3> QED
        BY <3>2, <3>3
    <2>3. Alone(q) /\ Finds(q) /\ UNCHANGED <<row, sub>>
      BY <1>6, <1>9, <2>1 DEF Undisturbed, Count
    <2>4. Finds(q)'
      BY <2>1, <2>2, <2>3 DEF Finds
    <2> QED
      BY <1>1, <1>3, <2>1, <2>3, <2>4 DEF Alone
  <1>10. CASE Scan(q)
    <2> DEFINE S == {m \in Merchant : /\ sub[m].is = "active"
                                      /\ \/ sub[m].bank = unlink[q].acc
                                         \/ unlink[q].last /\ sub[m].bank = NoAccount}
    <2>1. unlink'[q] = [unlink[q] EXCEPT !.pc = "scanned", !.subs = S]
      BY <1>0, <1>10 DEF Scan
    <2>2. row = {unlink[q].acc} /\ unlink[q].last =>
             \A m \in Merchant : sub[m].is = "active" => m \in S
      <3>1. \A m \in Merchant : sub[m].bank \in row \cup {NoAccount}
        BY DEF IInv, TypeOK
      <3> QED
        BY <3>1
    <2> HIDE DEF S
    <2>3. /\ unlink'[q].pc = "scanned" /\ unlink'[q].acc = unlink[q].acc
          /\ unlink'[q].last = unlink[q].last /\ unlink'[q].subs = S
          /\ unlink'[q].alone = unlink[q].alone
      BY <1>0, <2>1 DEF Unlink
    <2>4. UNCHANGED <<row, sub>>
      BY <1>10 DEF Scan
    <2>5. unlink[q].pc = "counted" /\ Alone(q) /\ Finds(q)
      BY <1>6, <1>10, <2>3 DEF Scan, Undisturbed
    <2>6. row = {unlink[q].acc} => unlink[q].last
      BY <2>5 DEF Finds
    <2>7. Finds(q)'
      BY <2>2, <2>3, <2>4, <2>5, <2>6 DEF Finds
    <2> QED
      BY <1>1, <1>3, <2>3, <2>5, <2>7 DEF Alone
  <1> QED
    BY <1>7, <1>8, <1>9, <1>10 DEF UnlinkGoes

LEMMA StepUndisturbed == IInv /\ Undisturbed /\ [Next]_vars => Undisturbed'
  <1> SUFFICES ASSUME IInv, Undisturbed, [Next]_vars PROVE Undisturbed'
    OBVIOUS
  <1>1. CASE UNCHANGED vars
    BY <1>1 DEF vars, Undisturbed, Alone, Finds
  <1> QED
    BY <1>1, BeginUndisturbed, OthersUndisturbed, UnlinkUndisturbed, RemoveUndisturbed DEF Next

---------------------------------------------------------------------------
(* What a deletion knows *)

\* A complete linking keeps its row until its Item is removed; a deletion under way
\* has each account it knew of before it, or behind it, and its user.
Tracked ==
    /\ \A a \in Account : item[a] = "none" => exchange[a] = "none"
    /\ present => \A a \in Account :
          exchange[a] = "linked" => a \in row \/ item[a] = "removed"
    /\ delete.pc = "revoking" =>
          /\ present
          /\ \A a \in delete.known : a \in delete.todo \/ item[a] = "removed"

LEMMA InitTracked == Init => Tracked
  BY NothingUnderWay DEF Init, Tracked

LEMMA StepTracked == IInv /\ Tracked /\ [Next]_vars => Tracked'
  <1> SUFFICES ASSUME IInv, Tracked, [Next]_vars PROVE Tracked'
    OBVIOUS
  <1>0. /\ item \in [Account -> {"none", "live", "removed"}]
        /\ exchange \in [Account -> {"none", "pending", "linked", "broken"}]
        /\ delete \in Delete /\ row \subseteq Account
        /\ delete.known \subseteq Account /\ delete.todo \subseteq Account
    BY DEF IInv, TypeOK, Delete
  <1>1. ASSUME NEW a \in Account, ExchangeToken(a) PROVE Tracked'
    <2>1. /\ item' = [item EXCEPT ![a] = "live"] /\ exchange' = [exchange EXCEPT ![a] = "pending"]
          /\ item[a] = "none" /\ UNCHANGED <<row, present, delete>>
      BY <1>1 DEF ExchangeToken
    <2> QED
      BY <1>0, <2>1 DEF Tracked
  <1>2. ASSUME NEW a \in Account, ExchangeCommit(a) \/ ExchangeFails(a) PROVE Tracked'
    BY <1>0, <1>2 DEF Tracked, ExchangeCommit, ExchangeFails
  <1>3. ASSUME NEW q \in Request, UnlinkGoes(q) PROVE Tracked'
    <2>1. CASE UnlinkCommit(q)
      <3>1. /\ row' = row \ {unlink[q].acc} /\ item[unlink[q].acc] = "removed"
            /\ UNCHANGED <<item, present, exchange, delete>>
        BY <2>1 DEF UnlinkCommit, IInv, RevokedFirst
      <3> QED
        BY <3>1 DEF Tracked
    <2>2. CASE Revoke(q)
      <3>1. /\ unlink[q].acc \in Account /\ item' = [item EXCEPT ![unlink[q].acc] = "removed"]
            /\ UNCHANGED <<row, present, exchange, delete>>
        BY <2>2 DEF Revoke, IInv, RevokedFirst
      <3> QED
        BY <1>0, <3>1 DEF Tracked
    <2>3. CASE UNCHANGED <<item, row, present, exchange, delete>>
      BY <2>3 DEF Tracked
    <2> QED
      BY <1>3, <2>1, <2>2, <2>3 DEF UnlinkGoes, RevokeRefused, Count, Scan, UnlinkEnds
  <1>4. CASE DeleteList
    <2>1. /\ delete'.pc = "revoking" /\ delete'.todo = row
          /\ delete'.known = {a \in Account : exchange[a] = "linked"}
      BY <1>4 DEF DeleteList
    <2> QED
      BY <1>4, <2>1 DEF DeleteList, Tracked
  <1>5. ASSUME NEW a \in Account, DeleteRevoke(a) PROVE Tracked'
    <2>1. /\ delete'.pc = "revoking" /\ delete'.todo = delete.todo \ {a}
          /\ delete'.known = delete.known
      BY <1>0, <1>5 DEF DeleteRevoke, Delete
    <2>2. /\ item' = [item EXCEPT ![a] = "removed"] /\ delete.pc = "revoking"
          /\ UNCHANGED <<row, present, exchange>>
      BY <1>5 DEF DeleteRevoke
    <2> QED
      BY <1>0, <2>1, <2>2 DEF Tracked
  <1>6. CASE DeleteFails \/ DeleteCommit
    BY <1>6, NothingUnderWay DEF DeleteFails, DeleteCommit, Tracked
  <1>7. CASE UNCHANGED <<item, row, present, exchange, delete>>
    BY <1>7 DEF Tracked
  <1> QED
    BY <1>1, <1>2, <1>3, <1>4, <1>5, <1>6, <1>7
       DEF Next, vars, UnlinkLoad, JobLoad, JobPlan, JobCommit, JobFails, RemoveSubscription

---------------------------------------------------------------------------
(* Theorems *)

\* The invariant holds throughout.
THEOREM IInvInvariant == Spec => []IInv
  BY InitInv, StepInv, PTL DEF Spec

\* Types, and a bank with a row for every subscription that has one.
THEOREM TypeCorrect == Spec => []TypeOK
  <1>1. IInv => TypeOK
    BY DEF IInv
  <1> QED
    BY <1>1, IInvInvariant, PTL

\* No unlink forgets a bank that is live at Plaid (unlink_account).
THEOREM UnlinkNeverOrphans == Spec => UnlinkRevokes
  <1>1. IInv /\ [Next]_vars =>
           [\A q \in Request : UnlinkCommit(q) => item[unlink[q].acc] = "removed"]_vars
    BY DEF IInv, RevokedFirst, UnlinkCommit
  <1> QED
    BY <1>1, IInvInvariant, PTL DEF Spec, UnlinkRevokes

\* No step makes a subscription active that the user removed
\* (upsert_detected_subscriptions).
THEOREM NeverResurrected == Spec => RemovedStays
  <1>1. IInv /\ IInv' /\ [Next]_vars =>
           [\A m \in Merchant : sub[m].byUser => sub'[m].is # "active"]_vars
    <2> SUFFICES ASSUME IInv, [Next]_vars, NEW m \in Merchant, sub[m].byUser
                 PROVE  sub'[m].is # "active"
      OBVIOUS
    <2>0. sub[m] \in Sub /\ sub[m].is = "inactive" /\ sub \in [Merchant -> Sub]
      BY DEF IInv, TypeOK, RemovedInactive
    <2>1. ASSUME NEW a \in Account, JobCommit(a) PROVE sub'[m].is = "inactive"
      BY <2>1, UpsertedRow DEF JobCommit, IInv
    <2>2. ASSUME NEW q \in Request, UnlinkCommit(q) PROVE sub'[m].is = "inactive"
      BY <2>0, <2>2 DEF UnlinkCommit, Sub
    <2>3. CASE DeleteCommit
      BY <2>3 DEF DeleteCommit, Absent
    <2>4. ASSUME NEW n \in Merchant, RemoveSubscription(n) PROVE sub'[m].is = "inactive"
      BY <2>0, <2>4 DEF RemoveSubscription, Sub
    <2>5. CASE sub' = sub
      BY <2>0, <2>5
    <2> QED
      BY <2>1, <2>2, <2>3, <2>4, <2>5 DEF Next, vars, UnlinkGoes, ExchangeToken,
         ExchangeCommit, ExchangeFails, UnlinkLoad, Revoke, RevokeRefused, Count, Scan,
         UnlinkEnds, DeleteList, DeleteRevoke, DeleteFails, JobLoad, JobPlan, JobFails
  <1> QED
    BY <1>1, IInvInvariant, PTL DEF Spec, RemovedStays

\* An unlink of the last bank that nothing overlapped leaves no subscription active,
\* in any behaviour: "with no banks left, no plaid subscription can still be live"
\* (unlink_account).
THEOREM LastBankLeavesNone == Spec => NoBankNoLiveSub
  <1>1. IInv /\ Undisturbed /\ [Next]_vars =>
           [\A q \in Request : UnlinkCommit(q) /\ unlink[q].alone /\ row' = {} =>
              \A m \in Merchant : sub'[m].is # "active"]_vars
    <2> SUFFICES ASSUME IInv, Undisturbed, NEW q \in Request, UnlinkCommit(q),
                        unlink[q].alone, row' = {}, NEW m \in Merchant
                 PROVE  sub'[m].is # "active"
      OBVIOUS
    <2>1. unlink[q].pc = "scanned" /\ row' = row \ {unlink[q].acc}
      BY DEF UnlinkCommit
    <2>2. row = {unlink[q].acc}
      BY <2>1 DEF Undisturbed, Finds
    <2>3. sub[m].is = "active" => m \in unlink[q].subs
      BY <2>1, <2>2 DEF Undisturbed, Finds
    <2>4. sub[m] \in Sub
      BY DEF IInv, TypeOK
    <2>5. sub'[m].is = IF m \in unlink[q].subs THEN "inactive" ELSE sub[m].is
      BY <2>4 DEF UnlinkCommit, Sub
    <2> QED
      BY <2>3, <2>5
  <1>2. Spec => []Undisturbed
    BY InitUndisturbed, StepUndisturbed, IInvInvariant, PTL DEF Spec
  <1> QED
    BY <1>1, <1>2, IInvInvariant, PTL DEF Spec, NoBankNoLiveSub

\* When the rows of a user go, no bank that was linked when the deletion began is
\* live at Plaid, whatever else is under way or fails: "deletion never orphans a live
\* token at Plaid" (delete_account).
THEOREM DeletionRevokesAll == Spec => DeletionNeverOrphans
  <1>1. Tracked /\ [Next]_vars =>
           [DeleteCommit => \A a \in delete.known : item[a] # "live"]_vars
    BY DEF Tracked, DeleteCommit
  <1>2. Spec => []Tracked
    BY InitTracked, StepTracked, IInvInvariant, PTL DEF Spec
  <1> QED
    BY <1>1, <1>2, PTL DEF Spec, DeletionNeverOrphans
=============================================================================
